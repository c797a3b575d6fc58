-------------------------- MODULE GlobalCompileProofs --------------------------
(* What the greedy scheduler promises for every set of nodes, every workload and *)
(* every plane: it always finds room for the work that is left, no node is asked *)
(* to do two things at a time, and senders and receivers meet; and what lowering *)
(* makes of its windows.                                                         *)
EXTENDS Lowering, FiniteSetTheorems, TLAPS

-------------------------------------------------------------------------------
(* Lemmas about finite sets, durations and matchings.                            *)

\* A function from a finite set to numbers has a greatest value: the duration of an
\* epoch (schedule_timing.py:175) is well defined.
LEMMA GreatestValue ==
  ASSUME NEW S, IsFiniteSet(S), S # {}, NEW f \in [S -> Nat]
  PROVE  \E x \in S : \A y \in S : f[x] >= f[y]
<1> DEFINE Topped(A) == \E x \in A : \A y \in A : f[x] >= f[y]
           T == {A \in SUBSET S : A # {} /\ ~Topped(A)}
<1>1. SUFFICES ASSUME ~Topped(S) PROVE FALSE
  OBVIOUS
<1>2. IsWellFoundedOn(StrictSubsetOrdering(S), SUBSET S)
  BY FS_StrictSubsetOrderingWellFounded, FS_FiniteSubsetsOfFinite
<1>3. T \subseteq SUBSET S /\ T # {}
  BY <1>1
<1>4. PICK A \in T : \A B \in T : ~(<<B, A>> \in StrictSubsetOrdering(S))
  <2> HIDE DEF T
  <2> QED  BY <1>2, <1>3, WFMin
<1>5. A \subseteq S /\ A # {} /\ ~Topped(A)
  BY <1>4
<1>6. PICK a \in A : TRUE
  BY <1>5
<1>7. A \ {a} # {}
  BY <1>5, <1>6
<1>8. A \ {a} \notin T
  BY <1>4, <1>5, <1>6 DEF StrictSubsetOrdering
<1>9. Topped(A \ {a})
  BY <1>5, <1>7, <1>8
<1>10. PICK b \in A \ {a} : \A y \in A \ {a} : f[b] >= f[y]
  BY <1>9
<1>11. /\ f[a] \in Nat /\ f[b] \in Nat
       /\ \A y \in A : f[y] \in Nat
  BY <1>5, <1>6, <1>10
<1>12. CASE f[a] >= f[b]
  <2>1. \A y \in A : f[a] >= f[y]
    BY <1>10, <1>11, <1>12
  <2> QED  BY <2>1, <1>5, <1>6
<1>13. CASE ~(f[a] >= f[b])
  <2>1. \A y \in A : f[b] >= f[y]
    BY <1>10, <1>11, <1>13
  <2> QED  BY <2>1, <1>5, <1>10
<1> QED  BY <1>12, <1>13

LEMMA PairsAreFinite == IsFiniteSet(Pair)
<1>1. IsFiniteSet(Node \X Node)
  BY NodeAssumption, FS_Product
<1>2. Pair \in SUBSET (Node \X Node)
  BY DEF Pair
<1> QED  BY <1>1, <1>2, FS_Subset

\* What Init chooses never changes, and meets the assumptions on the constants.
Given == workload \in Workload /\ plane \in Plane

LEMMA GivenTyping ==
  ASSUME Given
  PROVE  /\ workload.legs \in Seq(Matrix) /\ workload.legs # <<>> /\ workload.pause \in Nat
         /\ plane.fixed \in Nat /\ plane.packet \in Nat /\ plane.gap \in Nat
         /\ plane.latency \in Nat /\ plane.guard \in Nat /\ plane.reconfig \in Nat
BY WorkloadAssumption, PlaneAssumption DEF Given

LEMMA EdgeTimeIsNat ==
  ASSUME Given, NEW c \in Nat, c > 0
  PROVE  EdgeTime(c) \in Nat
<1>1. \A a, b \in Nat : a * b \in Nat
  OBVIOUS
<1>2. c - 1 \in Nat
  OBVIOUS
<1>3. c * plane.packet \in Nat /\ (c - 1) * plane.gap \in Nat
  BY <1>1, <1>2, GivenTyping
<1> QED  BY <1>3, GivenTyping DEF EdgeTime

LEMMA DurationIsNat ==
  ASSUME Given, TypeOK, matching # {}
  PROVE  Duration \in Nat
<1> DEFINE f == [p \in matching |-> EdgeTime(remaining[p])]
<1>1. \A p \in matching : EdgeTime(remaining[p]) \in Nat
  BY EdgeTimeIsNat DEF TypeOK, Busy, Matrix
<1>2. IsFiniteSet(matching)
  BY PairsAreFinite, FS_Subset DEF TypeOK, Busy
<1>3. PICK p \in matching : \A q \in matching : f[p] >= f[q]
  <2>1. f \in [matching -> Nat]
    BY <1>1
  <2> HIDE DEF f
  <2> QED  BY <2>1, <1>2, GreatestValue
<1>4. \E d \in {EdgeTime(remaining[q]) : q \in matching} :
        \A q \in matching : d >= EdgeTime(remaining[q])
  BY <1>3
<1>5. Duration \in {EdgeTime(remaining[q]) : q \in matching}
  BY <1>4 DEF Duration
<1> QED  BY <1>1, <1>5

-------------------------------------------------------------------------------
(* Type correctness.                                                             *)

LEMMA InitTyping == Init => Given /\ TypeOK
<1> SUFFICES ASSUME Init PROVE Given /\ TypeOK
  OBVIOUS
<1>1. Given
  BY DEF Init, Given
<1>2. 1 \in 1 .. Len(workload.legs) /\ workload.legs[1] \in Matrix
  BY <1>1, GivenTyping
<1> QED  BY <1>1, <1>2 DEF Init, Given, TypeOK, Candidates, Busy

LEMMA ConsiderTyping ==
  ASSUME Given, TypeOK, NEW p \in candidates, Consider(p)
  PROVE  Given' /\ TypeOK'
BY DEF Given, TypeOK, Consider, Busy, Windows

\* What an epoch adds to a node's phases, and where it leaves the cursor.
LEMMA CloseEpochTyping ==
  ASSUME Given, TypeOK, CloseEpoch
  PROVE  /\ Duration \in Nat
         /\ cursor' \in Nat /\ cursor + Duration <= cursor'
         /\ Given' /\ TypeOK'
<1>1. matching # {} /\ Duration \in Nat
  BY DurationIsNat DEF CloseEpoch
<1>2. /\ cursor \in Nat /\ remaining \in [Pair -> Nat]
      /\ plane.guard \in Nat /\ plane.reconfig \in Nat
      /\ matching \subseteq Pair
  BY GivenTyping DEF TypeOK, Busy, Matrix
<1> DEFINE end == cursor + Duration
<1>3. end \in Nat
  BY <1>1, <1>2
<1>4. /\ cursor' \in Nat
      /\ end <= cursor'
  BY <1>2, <1>3 DEF CloseEpoch, AfterSilence
<1>5. Served \in Matrix
  BY <1>2 DEF Served, Matrix
<1>6. \A n \in Node : EpochOf(n, end) \subseteq Windows
  BY <1>2, <1>3 DEF EpochOf, Window, Windows
<1>7. SilenceAfter(end) \subseteq Windows
  BY <1>2, <1>3 DEF SilenceAfter, Window, Windows
<1>8. phases' \in [Node -> SUBSET Windows]
  BY <1>6, <1>7 DEF CloseEpoch, TypeOK
<1>9. candidates' \subseteq Busy(remaining)' /\ matching' \subseteq Busy(remaining)'
  BY DEF CloseEpoch, Candidates, Busy
<1>10. Given'
  BY DEF CloseEpoch, Given
<1>11. /\ remaining' \in Matrix /\ epoch' \in Nat
       /\ leg' \in 1 .. Len(workload'.legs) /\ plane' \in Plane
  BY <1>5 DEF CloseEpoch, TypeOK
<1> QED  BY <1>1, <1>4, <1>8, <1>9, <1>10, <1>11 DEF TypeOK

LEMMA NextLegTyping ==
  ASSUME Given, TypeOK, NextLeg
  PROVE  /\ cursor' \in Nat /\ cursor <= cursor'
         /\ Given' /\ TypeOK'
<1>1. /\ leg + 1 \in 1 .. Len(workload.legs)
      /\ workload.legs[leg + 1] \in Matrix
      /\ workload.pause \in Nat /\ cursor \in Nat
  BY GivenTyping DEF NextLeg, TypeOK
<1>2. cursor' \in Nat /\ cursor <= cursor'
  BY <1>1 DEF NextLeg
<1>3. candidates' \subseteq Busy(remaining)' /\ matching' \subseteq Busy(remaining)'
  BY DEF NextLeg, Candidates, Busy
<1>4. Given'
  BY DEF NextLeg, Given
<1>5. /\ remaining' \in Matrix /\ epoch' \in Nat
      /\ leg' \in 1 .. Len(workload'.legs) /\ plane' \in Plane
      /\ phases' \in [Node -> SUBSET Windows]
  BY <1>1 DEF NextLeg, TypeOK
<1> QED  BY <1>2, <1>3, <1>4, <1>5 DEF TypeOK

\* The type invariant, for every set of nodes, workload and plane.
THEOREM TypeCorrect == Spec => []TypeOK
<1>1. Given /\ TypeOK /\ [Next]_vars => Given' /\ TypeOK'
  <2> SUFFICES ASSUME Given, TypeOK, [Next]_vars PROVE Given' /\ TypeOK'
    OBVIOUS
  <2>1. CASE \E p \in candidates : Consider(p)
    BY <2>1, ConsiderTyping
  <2>2. CASE CloseEpoch
    BY <2>2, CloseEpochTyping
  <2>3. CASE NextLeg
    BY <2>3, NextLegTyping
  <2>4. CASE UNCHANGED vars
    BY <2>4 DEF vars, Given, TypeOK, Busy
  <2> QED  BY <2>1, <2>2, <2>3, <2>4 DEF Next
<1> QED  BY <1>1, InitTyping, PTL DEF Spec

-------------------------------------------------------------------------------
(* The invariant of the scheduler, in named parts.                               *)

\* The nodes of two chosen pairs are different.
Apart == \A p, q \in matching : p = q \/ ~Touches(p, q)

\* A pair with work is yet to be looked at, or has met a chosen one.
NobodyForgotten == \A p \in Busy(remaining) : p \in candidates \/ \E q \in matching : Touches(p, q)

\* All that is laid out lies behind the cursor.
LaidOut ==
  \A n \in Node : \A w \in phases[n] :
    /\ w.start <= w.end /\ w.end <= cursor
    /\ w.kind \in {"tx", "rx"} => w.pair \in Pair

SchedulerInv ==
  Given /\ TypeOK /\ Apart /\ NobodyForgotten /\ LaidOut /\ NodeDoesOneThingAtATime /\ BothEndsMeet

LEMMA InitScheduler == Init => SchedulerInv
<1> SUFFICES ASSUME Init PROVE SchedulerInv
  OBVIOUS
<1>1. Apart /\ NobodyForgotten
  BY DEF Init, Apart, NobodyForgotten, Candidates, Busy
<1>2. LaidOut /\ NodeDoesOneThingAtATime /\ BothEndsMeet
  BY DEF Init, LaidOut, NodeDoesOneThingAtATime, BothEndsMeet
<1> QED  BY <1>1, <1>2, InitTyping DEF SchedulerInv

LEMMA ConsiderKeeps ==
  ASSUME SchedulerInv, NEW p \in candidates, Consider(p)
  PROVE  SchedulerInv'
<1>1. Given' /\ TypeOK'
  BY ConsiderTyping DEF SchedulerInv
<1>2. \A q, r \in Pair : Touches(q, r) => Touches(r, q)
  BY DEF Touches
<1>3. matching \subseteq Pair /\ p \in Pair
  BY DEF SchedulerInv, TypeOK, Busy
<1>4. Apart'
  BY <1>2, <1>3 DEF SchedulerInv, Apart, Consider, Free
<1>5. NobodyForgotten'
  <2>1. Touches(p, p)
    BY <1>3 DEF Touches, Pair
  <2> SUFFICES ASSUME NEW r \in Busy(remaining)
               PROVE  r \in candidates' \/ \E q \in matching' : Touches(r, q)
    BY DEF NobodyForgotten, Consider
  <2>2. CASE r = p
    BY <2>1, <2>2, <1>2, <1>3 DEF Consider, Free
  <2>3. CASE r # p
    BY <2>3 DEF SchedulerInv, NobodyForgotten, Consider
  <2> QED  BY <2>2, <2>3
<1>6. LaidOut' /\ NodeDoesOneThingAtATime' /\ BothEndsMeet'
  BY DEF SchedulerInv, Consider, LaidOut, NodeDoesOneThingAtATime, BothEndsMeet
<1> QED  BY <1>1, <1>4, <1>5, <1>6 DEF SchedulerInv

LEMMA NextLegKeeps ==
  ASSUME SchedulerInv, NextLeg
  PROVE  SchedulerInv'
<1>1. Given' /\ TypeOK' /\ cursor' \in Nat /\ cursor <= cursor' /\ cursor \in Nat
  BY NextLegTyping DEF SchedulerInv, TypeOK
<1>2. Apart' /\ NobodyForgotten'
  BY DEF NextLeg, Apart, NobodyForgotten, Candidates, Busy
<1>3. LaidOut'
  <2> SUFFICES ASSUME NEW n \in Node, NEW w \in phases[n]
               PROVE  /\ w.start <= w.end /\ w.end <= cursor'
                      /\ w.kind \in {"tx", "rx"} => w.pair \in Pair
    BY DEF LaidOut, NextLeg
  <2>1. w.end \in Nat
    BY DEF SchedulerInv, TypeOK, Windows
  <2> QED  BY <2>1, <1>1 DEF SchedulerInv, LaidOut
<1>4. NodeDoesOneThingAtATime' /\ BothEndsMeet'
  BY DEF SchedulerInv, NextLeg, NodeDoesOneThingAtATime, BothEndsMeet
<1> QED  BY <1>1, <1>2, <1>3, <1>4 DEF SchedulerInv

\* The windows one epoch adds to one node: at most one of traffic, then silence.
LEMMA EpochWindows ==
  ASSUME SchedulerInv, CloseEpoch, NEW n \in Node, NEW end, end = cursor + Duration
  PROVE  /\ \A v, w \in EpochOf(n, end) : v = w
         /\ \A w \in EpochOf(n, end) :
              w.start = cursor /\ w.end = end /\ w.kind \in {"tx", "rx"} /\ w.pair \in Pair
<1>1. matching \subseteq Pair
  BY DEF SchedulerInv, TypeOK, Busy
<1>2. \A p, q \in matching : n \in {p[1], p[2]} /\ n \in {q[1], q[2]} => p = q
  BY DEF SchedulerInv, Apart, Touches
<1>3. \A p \in matching : p[1] # p[2]
  BY <1>1 DEF Pair
<1>4. ASSUME NEW v \in EpochOf(n, end), NEW w \in EpochOf(n, end)
      PROVE  v = w
  <2>1. PICK p \in matching : \/ p[1] = n /\ v = Window("tx", cursor, end, p, remaining[p])
                              \/ p[2] = n /\ v = Window("rx", cursor, end, p, remaining[p])
    BY <1>4 DEF EpochOf
  <2>2. PICK q \in matching : \/ q[1] = n /\ w = Window("tx", cursor, end, q, remaining[q])
                              \/ q[2] = n /\ w = Window("rx", cursor, end, q, remaining[q])
    BY <1>4 DEF EpochOf
  <2>3. p = q
    BY <2>1, <2>2, <1>2
  <2> QED  BY <2>1, <2>2, <2>3, <1>3
<1>5. \A w \in EpochOf(n, end) :
        w.start = cursor /\ w.end = end /\ w.kind \in {"tx", "rx"} /\ w.pair \in Pair
  BY <1>1 DEF EpochOf, Window
<1> QED  BY <1>4, <1>5

LEMMA SilentWindows ==
  ASSUME Given, NEW end \in Nat
  PROVE  /\ AfterSilence(end) \in Nat /\ end <= AfterSilence(end)
         /\ \A w \in SilenceAfter(end) :
              /\ w.start \in Nat /\ w.end \in Nat
              /\ end <= w.start /\ w.start <= w.end /\ w.end <= AfterSilence(end)
              /\ w.kind \notin {"tx", "rx"}
         /\ \A v, w \in SilenceAfter(end) : v = w \/ v.end <= w.start \/ w.end <= v.start
<1>1. plane.guard \in Nat /\ plane.reconfig \in Nat
  BY GivenTyping
<1> QED  BY <1>1 DEF SilenceAfter, AfterSilence, Window

LEMMA CloseEpochKeeps ==
  ASSUME SchedulerInv, CloseEpoch
  PROVE  SchedulerInv'
<1> DEFINE end  == cursor + Duration
           more == Busy(Served) # {}
<1>1. /\ Given' /\ TypeOK' /\ Duration \in Nat /\ cursor \in Nat /\ end \in Nat
      /\ end <= cursor' /\ cursor <= end /\ cursor' \in Nat
  BY CloseEpochTyping DEF SchedulerInv, TypeOK
<1>2. /\ phases' = [n \in Node |-> phases[n] \union EpochOf(n, end)
                                           \union IF more THEN SilenceAfter(end) ELSE {}]
      /\ cursor' = IF more THEN AfterSilence(end) ELSE end
  BY DEF CloseEpoch
<1>3. \A n \in Node : /\ \A v, w \in EpochOf(n, end) : v = w
                      /\ \A w \in EpochOf(n, end) :
                           /\ w.start = cursor /\ w.end = end
                           /\ w.kind \in {"tx", "rx"} /\ w.pair \in Pair
  BY EpochWindows
<1>4. /\ \A w \in SilenceAfter(end) :
           /\ w.start \in Nat /\ w.end \in Nat
           /\ end <= w.start /\ w.start <= w.end /\ w.end <= AfterSilence(end)
           /\ w.kind \notin {"tx", "rx"}
      /\ \A v, w \in SilenceAfter(end) : v = w \/ v.end <= w.start \/ w.end <= v.start
  BY <1>1, SilentWindows DEF SchedulerInv
<1>5. \A n \in Node : \A w \in phases[n] :
        w.start \in Nat /\ w.end \in Nat /\ w.start <= w.end /\ w.end <= cursor
  BY DEF SchedulerInv, TypeOK, LaidOut, Windows
<1>6. Apart' /\ NobodyForgotten'
  BY DEF CloseEpoch, Apart, NobodyForgotten, Candidates, Busy
<1> HIDE DEF end, more
<1>7. LaidOut'
  <2> SUFFICES ASSUME NEW n \in Node, NEW w \in phases'[n]
               PROVE  /\ w.start <= w.end /\ w.end <= cursor'
                      /\ w.kind \in {"tx", "rx"} => w.pair \in Pair
    BY DEF LaidOut
  <2>1. CASE w \in phases[n]
    BY <2>1, <1>1, <1>5 DEF SchedulerInv, LaidOut
  <2>2. CASE w \in EpochOf(n, end)
    BY <2>2, <1>1, <1>3
  <2>3. CASE more /\ w \in SilenceAfter(end)
    BY <2>3, <1>2, <1>4
  <2> QED  BY <1>2, <2>1, <2>2, <2>3
<1>8. NodeDoesOneThingAtATime'
  <2> SUFFICES ASSUME NEW n \in Node, NEW v \in phases'[n], NEW w \in phases'[n]
               PROVE  v = w \/ v.end <= w.start \/ w.end <= v.start
    BY DEF NodeDoesOneThingAtATime
  <2> DEFINE Old(u) == u \in phases[n]
             Busily(u) == u \in EpochOf(n, end)
             Silent(u) == u \in SilenceAfter(end)
  <2>1. \A u \in {v, w} : Old(u) \/ Busily(u) \/ Silent(u)
    BY <1>2
  <2>2. CASE Old(v) /\ Old(w)
    BY <2>2 DEF SchedulerInv, NodeDoesOneThingAtATime
  <2>3. CASE Busily(v) /\ Busily(w)
    BY <2>3, <1>3
  <2>4. CASE Silent(v) /\ Silent(w)
    BY <2>4, <1>4
  <2>5. ASSUME NEW u \in {v, w}, NEW x \in {v, w}, Old(u), Busily(x) \/ Silent(x)
        PROVE  u.end <= x.start
    <3>1. u.end \in Nat /\ u.end <= cursor
      BY <2>5, <1>5
    <3>2. CASE Busily(x)
      BY <3>1, <3>2, <1>3
    <3>3. CASE Silent(x)
      BY <3>1, <3>3, <1>1, <1>4
    <3> QED  BY <2>5, <3>2, <3>3
  <2>6. ASSUME NEW u \in {v, w}, NEW x \in {v, w}, Busily(u), Silent(x)
        PROVE  u.end <= x.start
    BY <2>6, <1>3, <1>4
  <2> HIDE DEF Old, Busily, Silent
  <2> QED  BY <2>1, <2>2, <2>3, <2>4, <2>5, <2>6
<1>9. BothEndsMeet'
  <2> SUFFICES ASSUME NEW n \in Node, NEW w \in phases'[n]
               PROVE  /\ w.kind = "tx" => /\ w.pair[1] = n
                                          /\ [w EXCEPT !.kind = "rx"] \in phases'[w.pair[2]]
                      /\ w.kind = "rx" => /\ w.pair[2] = n
                                          /\ [w EXCEPT !.kind = "tx"] \in phases'[w.pair[1]]
    BY DEF BothEndsMeet
  <2>1. CASE w \in phases[n]
    <3>1. w.kind \in {"tx", "rx"} => w.pair[1] \in Node /\ w.pair[2] \in Node
      BY <2>1 DEF SchedulerInv, LaidOut, Pair
    <3>2. \A m \in Node : phases[m] \subseteq phases'[m]
      BY <1>2
    <3> QED  BY <2>1, <3>1, <3>2 DEF SchedulerInv, BothEndsMeet
  <2>2. CASE w \in EpochOf(n, end)
    <3>1. PICK p \in matching : \/ p[1] = n /\ w = Window("tx", cursor, end, p, remaining[p])
                                \/ p[2] = n /\ w = Window("rx", cursor, end, p, remaining[p])
      BY <2>2 DEF EpochOf
    <3>2. p[1] \in Node /\ p[2] \in Node
      BY DEF SchedulerInv, TypeOK, Busy, Pair
    <3>3. /\ Window("tx", cursor, end, p, remaining[p]) \in EpochOf(p[1], end)
          /\ Window("rx", cursor, end, p, remaining[p]) \in EpochOf(p[2], end)
      BY DEF EpochOf
    <3>4. /\ Window("tx", cursor, end, p, remaining[p]) \in phases'[p[1]]
          /\ Window("rx", cursor, end, p, remaining[p]) \in phases'[p[2]]
      BY <1>2, <3>2, <3>3
    <3>5. /\ [Window("tx", cursor, end, p, remaining[p]) EXCEPT !.kind = "rx"]
             = Window("rx", cursor, end, p, remaining[p])
          /\ [Window("rx", cursor, end, p, remaining[p]) EXCEPT !.kind = "tx"]
             = Window("tx", cursor, end, p, remaining[p])
      BY DEF Window
    <3>6. /\ Window("tx", cursor, end, p, remaining[p]).pair = p
          /\ Window("rx", cursor, end, p, remaining[p]).pair = p
          /\ Window("tx", cursor, end, p, remaining[p]).kind = "tx"
          /\ Window("rx", cursor, end, p, remaining[p]).kind = "rx"
      BY DEF Window
    <3> QED  BY <3>1, <3>4, <3>5, <3>6
  <2>3. CASE w \in SilenceAfter(end)
    BY <2>3, <1>4
  <2> QED  BY <1>2, <2>1, <2>2, <2>3
<1> QED  BY <1>1, <1>6, <1>7, <1>8, <1>9 DEF SchedulerInv

LEMMA SchedulerInvHolds == Spec => []SchedulerInv
<1>1. SchedulerInv /\ [Next]_vars => SchedulerInv'
  <2> SUFFICES ASSUME SchedulerInv, [Next]_vars PROVE SchedulerInv'
    OBVIOUS
  <2>1. CASE \E p \in candidates : Consider(p)
    BY <2>1, ConsiderKeeps
  <2>2. CASE CloseEpoch
    BY <2>2, CloseEpochKeeps
  <2>3. CASE NextLeg
    BY <2>3, NextLegKeeps
  <2>4. CASE UNCHANGED vars
    BY <2>4 DEF vars, SchedulerInv, Given, TypeOK, Apart, NobodyForgotten, LaidOut,
                NodeDoesOneThingAtATime, BothEndsMeet, Busy
  <2> QED  BY <2>1, <2>2, <2>3, <2>4 DEF Next
<1> QED  BY <1>1, InitScheduler, PTL DEF Spec

\* The greedy matching always finds room for the work that is left.
THEOREM GreedyProgresses == Spec => []GreedyMakesProgress
<1>1. SchedulerInv => GreedyMakesProgress
  BY DEF SchedulerInv, NobodyForgotten, GreedyMakesProgress
<1> QED  BY <1>1, SchedulerInvHolds, PTL

\* No node has two windows at a time, in one epoch or in several, with any timing.
THEOREM OneThingAtATime == Spec => []NodeDoesOneThingAtATime
<1>1. SchedulerInv => NodeDoesOneThingAtATime
  BY DEF SchedulerInv
<1> QED  BY <1>1, SchedulerInvHolds, PTL

\* Every sender has its receiver, and every receiver its sender.
THEOREM EndsMeet == Spec => []BothEndsMeet
<1>1. SchedulerInv => BothEndsMeet
  BY DEF SchedulerInv
<1> QED  BY <1>1, SchedulerInvHolds, PTL

-------------------------------------------------------------------------------
(* How long a pair waits.                                                        *)

\* A demand is served whole or not at all.
Whole == \A p \in Pair : remaining[p] = 0 \/ remaining[p] = workload.legs[leg][p]

ServedNeighbours(p) == {q \in Busy(workload.legs[leg]) : Touches(p, q) /\ remaining[q] = 0}

WaitInv == SchedulerInv /\ Whole /\ PairsWaitForTheirNeighbours

LEMMA ServedNeighboursAreFinite ==
  \A p : IsFiniteSet(ServedNeighbours(p)) /\ Cardinality(ServedNeighbours(p)) \in Nat
<1> SUFFICES ASSUME NEW p
             PROVE  IsFiniteSet(ServedNeighbours(p)) /\ Cardinality(ServedNeighbours(p)) \in Nat
  OBVIOUS
<1>1. ServedNeighbours(p) \in SUBSET Pair
  BY DEF ServedNeighbours, Busy
<1> QED  BY <1>1, PairsAreFinite, FS_Subset, FS_CardinalityType

LEMMA ServedNeighboursAreFiniteNext ==
  \A p : IsFiniteSet(ServedNeighbours(p)') /\ Cardinality(ServedNeighbours(p)') \in Nat
<1> SUFFICES ASSUME NEW p
             PROVE  IsFiniteSet(ServedNeighbours(p)') /\ Cardinality(ServedNeighbours(p)') \in Nat
  OBVIOUS
<1>1. ServedNeighbours(p)' \in SUBSET Pair
  BY DEF ServedNeighbours, Busy
<1> QED  BY <1>1, PairsAreFinite, FS_Subset, FS_CardinalityType

LEMMA InitWait == Init => WaitInv
<1> SUFFICES ASSUME Init PROVE WaitInv
  OBVIOUS
<1>1. epoch = 0 /\ Whole
  BY DEF Init, Whole
<1>2. PairsWaitForTheirNeighbours
  BY <1>1, ServedNeighboursAreFinite DEF PairsWaitForTheirNeighbours, ServedNeighbours
<1> QED  BY <1>1, <1>2, InitScheduler DEF WaitInv

\* An epoch serves a demand whole.
LEMMA CloseEpochIsWhole ==
  ASSUME SchedulerInv, Whole, CloseEpoch
  PROVE  Whole'
<1>1. remaining' = Served /\ workload' = workload /\ leg' = leg
  BY DEF CloseEpoch
<1>2. remaining \in [Pair -> Nat]
  BY DEF SchedulerInv, TypeOK, Matrix
<1> QED  BY <1>1, <1>2 DEF Whole, Served

\* Each epoch serves a neighbour of every pair it passes over.
LEMMA CloseEpochKeepsWait ==
  ASSUME WaitInv, CloseEpoch
  PROVE  Whole' /\ PairsWaitForTheirNeighbours'
<1>1. /\ remaining' = Served /\ workload' = workload /\ leg' = leg /\ epoch' = epoch + 1
      /\ candidates = {}
  BY DEF CloseEpoch
<1>2. /\ remaining \in [Pair -> Nat] /\ matching \subseteq Busy(remaining) /\ epoch \in Nat
  BY DEF WaitInv, SchedulerInv, TypeOK, Matrix
<1>3. Whole'
  BY CloseEpochIsWhole DEF WaitInv
<1>4. PairsWaitForTheirNeighbours'
  <2> SUFFICES ASSUME NEW p \in Busy(remaining')
               PROVE  epoch + 1 <= Cardinality(ServedNeighbours(p)')
    BY <1>1 DEF PairsWaitForTheirNeighbours, ServedNeighbours, Busy
  <2>1. p \in Pair /\ p \notin matching /\ p \in Busy(remaining)
    BY <1>1, <1>2 DEF Busy, Served
  <2>2. PICK q \in matching : Touches(p, q)
    BY <2>1, <1>1 DEF WaitInv, SchedulerInv, NobodyForgotten
  <2>3. /\ q \in Busy(workload.legs[leg]) /\ q \notin ServedNeighbours(p)
        /\ q \in ServedNeighbours(p)'
    <3>1. q \in Pair /\ remaining[q] > 0 /\ remaining[q] = workload.legs[leg][q]
      BY <1>2 DEF WaitInv, Whole, Busy
    <3>2. remaining'[q] = 0
      BY <1>1, <3>1 DEF Served
    <3> QED  BY <1>1, <2>2, <3>1, <3>2 DEF ServedNeighbours, Busy
  <2>4. ServedNeighbours(p) \subseteq ServedNeighbours(p)'
    BY <1>1, <1>2 DEF ServedNeighbours, Served, Busy
  <2>5. Cardinality(ServedNeighbours(p)) < Cardinality(ServedNeighbours(p)')
    <3> DEFINE S == ServedNeighbours(p)
               T == ServedNeighbours(p)'
    <3>1. /\ S \in SUBSET T /\ S # T /\ IsFiniteSet(T)
          /\ Cardinality(S) \in Nat /\ Cardinality(T) \in Nat
      BY <2>3, <2>4, ServedNeighboursAreFinite, ServedNeighboursAreFiniteNext
    <3> HIDE DEF S, T
    <3>2. Cardinality(S) <= Cardinality(T) /\ Cardinality(S) # Cardinality(T)
      BY <3>1, FS_Subset
    <3>3. Cardinality(S) < Cardinality(T)
      BY <3>1, <3>2
    <3> QED  BY <3>3 DEF S, T
  <2>6. epoch <= Cardinality(ServedNeighbours(p))
    BY <2>1 DEF WaitInv, PairsWaitForTheirNeighbours, ServedNeighbours
  <2> QED  BY <2>5, <2>6, <1>2, ServedNeighboursAreFinite, ServedNeighboursAreFiniteNext
<1> QED  BY <1>3, <1>4

LEMMA NextLegKeepsWait ==
  ASSUME WaitInv, NextLeg
  PROVE  Whole' /\ PairsWaitForTheirNeighbours'
<1>1. epoch' = 0 /\ Whole'
  BY DEF NextLeg, Whole
<1>2. PairsWaitForTheirNeighbours'
  BY <1>1, ServedNeighboursAreFiniteNext DEF PairsWaitForTheirNeighbours, ServedNeighbours
<1> QED  BY <1>1, <1>2

\* The number of epochs a pair waits is bounded by the pairs it shares a node with.
THEOREM WaitsAreBounded == Spec => []PairsWaitForTheirNeighbours
<1>1. WaitInv /\ SchedulerInv' /\ [Next]_vars => WaitInv'
  <2> SUFFICES ASSUME WaitInv, SchedulerInv', [Next]_vars
               PROVE  Whole' /\ PairsWaitForTheirNeighbours'
    BY DEF WaitInv
  <2>1. CASE \E p \in candidates : Consider(p)
    BY <2>1 DEF Consider, WaitInv, Whole, PairsWaitForTheirNeighbours, Busy
  <2>2. CASE CloseEpoch
    BY <2>2, CloseEpochKeepsWait
  <2>3. CASE NextLeg
    BY <2>3, NextLegKeepsWait
  <2>4. CASE UNCHANGED vars
    BY <2>4 DEF vars, WaitInv, Whole, PairsWaitForTheirNeighbours, Busy
  <2> QED  BY <2>1, <2>2, <2>3, <2>4 DEF Next
<1>2. WaitInv => PairsWaitForTheirNeighbours
  BY DEF WaitInv
<1> QED  BY <1>1, <1>2, InitWait, SchedulerInvHolds, PTL DEF Spec

-------------------------------------------------------------------------------
(* One window for each demand.                                                   *)

\* A window of traffic takes time: lowering refuses an empty one (lowering's compile.py:275),
\* and with it every plane whose windows have no length.
TakesTime(t) == (t.mode = "fixed" => t.fixed > 0) /\ (t.mode = "derived" => t.packet > 0)

WindowsHaveLength == \A t \in Plane : TakesTime(t)

\* The traffic that is laid out begins before the cursor.
Begun == \A n \in Node : \A w \in phases[n] : w.kind = "tx" => w.start < cursor

\* EveryPairIsServedOnce, with the sets it counts.
Counted ==
  \A p \in Pair : IsFiniteSet(Sent(p)) /\ Cardinality(Sent(p)) = Cardinality(ServedLegs(p))
Complete ==
  \A p \in Pair : \A k \in ServedLegs(p) : \E w \in Sent(p) : w.count = workload.legs[k][p]

OnceInv == SchedulerInv /\ Whole /\ Begun /\ Counted /\ Complete

LEMMA ServedLegsAreFinite ==
  ASSUME Given, TypeOK
  PROVE  \A p : IsFiniteSet(ServedLegs(p))
<1>1. IsFiniteSet(1 .. leg)
  BY FS_Interval DEF TypeOK
<1>2. \A p : ServedLegs(p) \in SUBSET (1 .. leg)
  BY DEF ServedLegs
<1> QED  BY <1>1, <1>2, FS_Subset

LEMMA EdgesTakeTime ==
  ASSUME Given, TakesTime(plane), NEW c \in Nat, c > 0
  PROVE  EdgeTime(c) > 0
<1>1. \A a, b \in Nat : a * b \in Nat /\ (a > 0 /\ b > 0 => a * b > 0)
  OBVIOUS
<1>2. c - 1 \in Nat
  OBVIOUS
<1>3. (c - 1) * plane.gap \in Nat /\ c * plane.packet \in Nat
  BY <1>1, <1>2, GivenTyping
<1>4. plane.mode \in {"fixed", "derived"}
  BY PlaneAssumption DEF Given
<1>5. CASE plane.mode = "fixed"
  BY <1>5 DEF EdgeTime, TakesTime
<1>6. CASE plane.mode = "derived"
  <2>1. c * plane.packet > 0
    BY <1>1, <1>6, GivenTyping DEF TakesTime
  <2> QED  BY <2>1, <1>3, <1>6, GivenTyping DEF EdgeTime
<1> QED  BY <1>4, <1>5, <1>6

LEMMA DurationIsPositive ==
  ASSUME Given, TakesTime(plane), TypeOK, matching # {}
  PROVE  Duration > 0
<1> DEFINE f == [p \in matching |-> EdgeTime(remaining[p])]
<1>1. \A p \in matching : EdgeTime(remaining[p]) \in Nat /\ EdgeTime(remaining[p]) > 0
  BY EdgeTimeIsNat, EdgesTakeTime DEF TypeOK, Busy, Matrix
<1>2. IsFiniteSet(matching)
  BY PairsAreFinite, FS_Subset DEF TypeOK, Busy
<1>3. PICK p \in matching : \A q \in matching : f[p] >= f[q]
  <2>1. f \in [matching -> Nat]
    BY <1>1
  <2> HIDE DEF f
  <2> QED  BY <2>1, <1>2, GreatestValue
<1>4. \E d \in {EdgeTime(remaining[q]) : q \in matching} :
        \A q \in matching : d >= EdgeTime(remaining[q])
  BY <1>3
<1>5. Duration \in {EdgeTime(remaining[q]) : q \in matching}
  BY <1>4 DEF Duration
<1> QED  BY <1>1, <1>5

LEMMA InitOnce == Init => OnceInv
<1> SUFFICES ASSUME Init PROVE OnceInv
  OBVIOUS
<1>1. SchedulerInv
  BY InitScheduler
<1>2. Whole /\ Begun
  BY DEF Init, Whole, Begun
<1>3. \A p \in Pair : Sent(p) = {}
  BY DEF Init, Sent, Pair
<1>4. \A p \in Pair : ServedLegs(p) = {}
  BY <1>1 DEF Init, ServedLegs, SchedulerInv, TypeOK, Matrix
<1>5. Counted /\ Complete
  BY <1>3, <1>4, FS_EmptySet DEF Counted, Complete
<1> QED  BY <1>1, <1>2, <1>5 DEF OnceInv

\* When a leg is through every demand of it is served, and none of the next leg is.
LEMMA NextLegKeepsOnce ==
  ASSUME OnceInv, NextLeg
  PROVE  Begun' /\ Counted' /\ Complete'
<1>1. /\ leg \in Nat /\ leg + 1 \in 1 .. Len(workload.legs)
      /\ remaining' = workload.legs[leg + 1] /\ leg' = leg + 1 /\ workload' = workload
      /\ phases' = phases
      /\ remaining \in [Pair -> Nat] /\ workload.legs[leg + 1] \in [Pair -> Nat]
  BY GivenTyping DEF NextLeg, OnceInv, SchedulerInv, TypeOK, Matrix
<1>2. \A p \in Pair : remaining[p] = 0
  BY <1>1 DEF NextLeg, Busy
<1>3. \A p \in Pair : Sent(p)' = Sent(p)
  BY <1>1 DEF Sent
<1>4. \A p \in Pair : ServedLegs(p)' = ServedLegs(p)
  <2> SUFFICES ASSUME NEW p \in Pair PROVE ServedLegs(p)' = ServedLegs(p)
    OBVIOUS
  <2>1. ServedLegs(p) = {k \in 1 .. leg : workload.legs[k][p] > 0}
    BY <1>2 DEF ServedLegs
  <2>2. workload.legs[leg + 1][p] \in Nat
    BY <1>1
  <2>3. ServedLegs(p)' = {k \in 1 .. leg + 1 : workload.legs[k][p] > 0 /\ k < leg + 1}
    BY <1>1, <2>2 DEF ServedLegs
  <2> QED  BY <1>1, <2>1, <2>3
<1>5. Counted' /\ Complete'
  BY <1>1, <1>3, <1>4 DEF OnceInv, Counted, Complete
<1>6. Begun'
  <2>1. cursor \in Nat /\ cursor' \in Nat /\ cursor <= cursor'
    BY NextLegTyping DEF OnceInv, SchedulerInv, TypeOK
  <2>2. \A n \in Node : \A w \in phases[n] : w.start \in Nat
    BY DEF OnceInv, SchedulerInv, TypeOK, Windows
  <2> QED  BY <1>1, <2>1, <2>2 DEF OnceInv, Begun
<1> QED  BY <1>5, <1>6

\* An epoch gives each chosen pair one window, unlike those it had, and serves one
\* demand more of it; to the others it gives none.
LEMMA CloseEpochKeepsOnce ==
  ASSUME WindowsHaveLength, OnceInv, CloseEpoch
  PROVE  Begun' /\ Counted' /\ Complete'
<1> DEFINE end  == cursor + Duration
           more == Busy(Served) # {}
           new(p) == Window("tx", cursor, end, p, remaining[p])
<1>1. /\ Given /\ TypeOK /\ Duration \in Nat /\ Duration > 0 /\ cursor \in Nat /\ end \in Nat
      /\ end <= cursor' /\ cursor' \in Nat /\ cursor < cursor'
  BY CloseEpochTyping, DurationIsPositive
     DEF OnceInv, SchedulerInv, TypeOK, CloseEpoch, WindowsHaveLength, Given
<1>2. /\ phases' = [n \in Node |-> phases[n] \union EpochOf(n, end)
                                           \union IF more THEN SilenceAfter(end) ELSE {}]
      /\ remaining' = Served /\ workload' = workload /\ leg' = leg
  BY DEF CloseEpoch
<1>3. /\ remaining \in [Pair -> Nat] /\ matching \subseteq Busy(remaining)
      /\ matching \subseteq Pair
  BY DEF OnceInv, SchedulerInv, TypeOK, Matrix, Busy
<1>4. \A w \in SilenceAfter(end) : w.kind # "tx"
  BY <1>1, SilentWindows
<1>5. \A n \in Node : \A w \in phases[n] : w.start \in Nat
  BY <1>1 DEF TypeOK, Windows
<1> HIDE DEF end, more
<1>6. \A n \in Node : \A w \in EpochOf(n, end) :
        /\ w.start = cursor
        /\ w.kind = "tx" => w.pair \in matching /\ w.pair[1] = n /\ w = new(w.pair)
  BY DEF EpochOf, Window
<1>7. Begun'
  <2> SUFFICES ASSUME NEW n \in Node, NEW w \in phases'[n], w.kind = "tx"
               PROVE  w.start < cursor'
    BY DEF Begun
  <2>1. CASE w \in phases[n]
    BY <2>1, <1>1, <1>5 DEF OnceInv, Begun
  <2>2. CASE w \in EpochOf(n, end)
    BY <2>2, <1>1, <1>6
  <2> QED  BY <1>2, <1>4, <2>1, <2>2
<1>8. ASSUME NEW p \in matching
      PROVE  /\ Sent(p)' = Sent(p) \union {new(p)} /\ new(p) \notin Sent(p)
             /\ ServedLegs(p)' = ServedLegs(p) \union {leg} /\ leg \notin ServedLegs(p)
             /\ new(p).count = workload.legs[leg][p]
  <2>1. p \in Pair /\ p[1] \in Node /\ remaining[p] > 0 /\ remaining[p] = workload.legs[leg][p]
    BY <1>3 DEF OnceInv, Whole, Busy, Pair
  <2>2. new(p) \in EpochOf(p[1], end) /\ new(p).kind = "tx" /\ new(p).pair = p
        /\ new(p).start = cursor /\ new(p).count = remaining[p]
    BY DEF EpochOf, Window
  <2>3. Sent(p)' = {w \in phases'[p[1]] : w.kind = "tx" /\ w.pair = p}
    BY DEF Sent
  <2>4. Sent(p)' = Sent(p) \union {new(p)}
    <3>1. ASSUME NEW w \in Sent(p)' PROVE w \in Sent(p) \union {new(p)}
      <4>1. w \in phases'[p[1]] /\ w.kind = "tx" /\ w.pair = p
        BY <2>3, <3>1
      <4>2. w \in phases[p[1]] \/ w \in EpochOf(p[1], end)
        BY <4>1, <1>2, <1>4, <2>1
      <4> QED  BY <4>1, <4>2, <1>6, <2>1 DEF Sent
    <3>2. ASSUME NEW w \in Sent(p) \union {new(p)} PROVE w \in Sent(p)'
      BY <3>2, <2>1, <2>2, <2>3, <1>2 DEF Sent
    <3> QED  BY <3>1, <3>2
  <2>5. new(p) \notin Sent(p)
    <3>1. \A w \in Sent(p) : w.start \in Nat /\ w.start < cursor
      BY <2>1, <1>5 DEF OnceInv, Begun, Sent
    <3> HIDE DEF new
    <3> QED  BY <3>1, <2>2, <1>1
  <2>6. leg \in 1 .. leg
    BY <1>1 DEF TypeOK
  <2>7. remaining'[p] = 0
    BY <1>2, <2>1 DEF Served
  <2>8. ServedLegs(p)' = {k \in 1 .. leg : workload.legs[k][p] > 0}
    BY <1>2, <2>7 DEF ServedLegs
  <2>9. ServedLegs(p) = {k \in 1 .. leg : workload.legs[k][p] > 0 /\ k < leg}
    BY <2>1 DEF ServedLegs
  <2>10. ServedLegs(p)' = ServedLegs(p) \union {leg} /\ leg \notin ServedLegs(p)
    BY <2>1, <2>6, <2>8, <2>9, <1>1 DEF TypeOK
  <2> QED  BY <2>1, <2>2, <2>4, <2>5, <2>10
<1>9. ASSUME NEW p \in Pair, p \notin matching
      PROVE  Sent(p)' = Sent(p) /\ ServedLegs(p)' = ServedLegs(p)
  <2>1. p[1] \in Node /\ remaining'[p] = remaining[p]
    BY <1>2, <1>9 DEF Served, Pair
  <2>2. ServedLegs(p)' = ServedLegs(p)
    BY <1>2, <2>1 DEF ServedLegs
  <2>3. Sent(p)' = Sent(p)
    BY <1>2, <1>4, <1>6, <1>9, <2>1 DEF Sent
  <2> QED  BY <2>2, <2>3
<1> HIDE DEF new
<1>10. Counted'
  <2> SUFFICES ASSUME NEW p \in Pair
               PROVE  IsFiniteSet(Sent(p)') /\ Cardinality(Sent(p)') = Cardinality(ServedLegs(p)')
    BY DEF Counted
  <2>1. /\ IsFiniteSet(Sent(p)) /\ IsFiniteSet(ServedLegs(p))
        /\ Cardinality(Sent(p)) = Cardinality(ServedLegs(p))
    BY <1>1, ServedLegsAreFinite DEF OnceInv, Counted
  <2>2. CASE p \in matching
    <3>1. /\ IsFiniteSet(Sent(p) \union {new(p)})
          /\ Cardinality(Sent(p) \union {new(p)}) = Cardinality(Sent(p)) + 1
      BY <2>1, <2>2, <1>8, FS_AddElement
    <3>2. Cardinality(ServedLegs(p) \union {leg}) = Cardinality(ServedLegs(p)) + 1
      BY <2>1, <2>2, <1>8, FS_AddElement
    <3> QED  BY <3>1, <3>2, <2>1, <2>2, <1>8
  <2>3. CASE p \notin matching
    BY <2>1, <2>3, <1>9
  <2> QED  BY <2>2, <2>3
<1>11. Complete'
  <2> SUFFICES ASSUME NEW p \in Pair, NEW k \in ServedLegs(p)'
               PROVE  \E w \in Sent(p)' : w.count = workload.legs[k][p]
    BY <1>2 DEF Complete
  <2>1. CASE p \in matching
    <3>1. CASE k = leg
      BY <2>1, <3>1, <1>8
    <3>2. CASE k # leg
      BY <2>1, <3>2, <1>8 DEF OnceInv, Complete
    <3> QED  BY <3>1, <3>2
  <2>2. CASE p \notin matching
    BY <2>2, <1>9 DEF OnceInv, Complete
  <2> QED  BY <2>1, <2>2
<1> QED  BY <1>7, <1>10, <1>11

LEMMA OnceInvHolds == ASSUME WindowsHaveLength PROVE Spec => []OnceInv
<1>1. OnceInv /\ SchedulerInv' /\ [Next]_vars => OnceInv'
  <2> SUFFICES ASSUME OnceInv, SchedulerInv', [Next]_vars
               PROVE  Whole' /\ Begun' /\ Counted' /\ Complete'
    BY DEF OnceInv
  <2>1. CASE \E p \in candidates : Consider(p)
    BY <2>1 DEF Consider, OnceInv, Whole, Begun, Counted, Complete, Sent, ServedLegs
  <2>2. CASE CloseEpoch
    BY <2>2, CloseEpochKeepsOnce, CloseEpochIsWhole DEF OnceInv
  <2>3. CASE NextLeg
    <3>1. Whole'
      BY <2>3 DEF NextLeg, Whole
    <3> QED  BY <2>3, <3>1, NextLegKeepsOnce
  <2>4. CASE UNCHANGED vars
    BY <2>4 DEF vars, OnceInv, Whole, Begun, Counted, Complete, Sent, ServedLegs
  <2> QED  BY <2>1, <2>2, <2>3, <2>4 DEF Next
<1> QED  BY <1>1, InitOnce, SchedulerInvHolds, PTL DEF Spec

\* On every plane whose windows have a length, each demand of each leg gets one window
\* with all of its packets (utopia_global_compile.py:275): none is split, repeated or
\* forgotten, whatever the matrices.
THEOREM ServedOnce == ASSUME WindowsHaveLength PROVE Spec => []EveryPairIsServedOnce
<1>1. OnceInv => EveryPairIsServedOnce
  <2> SUFFICES ASSUME OnceInv PROVE EveryPairIsServedOnce
    OBVIOUS
  <2>1. \A p \in Pair : remaining[p] # 0 => remaining[p] = workload.legs[leg][p]
    BY DEF OnceInv, Whole
  <2> QED  BY <2>1 DEF OnceInv, Counted, Complete, EveryPairIsServedOnce
<1> QED  BY <1>1, OnceInvHolds, PTL

-------------------------------------------------------------------------------
(* What lowering makes of the windows.                                           *)

\* A set of numbers that is not empty has a least one.
LEMMA LeastValue ==
  ASSUME NEW S \in SUBSET Nat, S # {}
  PROVE  \E n \in S : \A m \in S : n <= m
<1> DEFINE R == OpToRel(<, Nat)
<1>1. PICK n \in S : \A m \in S : ~(<<m, n>> \in R)
  <2>1. IsWellFoundedOn(R, Nat)
    BY NatLessThanWellFounded
  <2> HIDE DEF R
  <2> QED  BY <2>1, WFMin
<1>2. \A m \in S : ~(m < n)
  BY <1>1 DEF OpToRel
<1> QED  BY <1>2

\* Comparing neighbours is enough: among the entries that start at or behind an
\* entry and before its end, the first is its neighbour.
LEMMA NeighboursSuffice ==
  ASSUME NEW es, \A e \in es : e.start \in Nat /\ e.end \in Nat, ~Overlap(es),
         NEW v \in es, NEW w \in es, v # w, ~Earlier(w, v)
  PROVE  v.end <= w.start
<1> SUFFICES ASSUME w.start < v.end PROVE FALSE
  OBVIOUS
<1> DEFINE U == {u \in es : u # v /\ ~Earlier(u, v) /\ u.start < v.end}
           first == {u.start : u \in U}
<1>1. PICK s \in first : \A t \in first : s <= t
  <2>1. first \in SUBSET Nat /\ first # {}
    OBVIOUS
  <2> QED  BY <2>1, LeastValue
<1> DEFINE short == {u.end : u \in {x \in U : x.start = s}}
<1>2. PICK t \in short : \A x \in short : t <= x
  <2>1. short \in SUBSET Nat /\ short # {}
    BY <1>1
  <2> QED  BY <2>1, LeastValue
<1>3. PICK u \in U : u.start = s /\ u.end = t
  BY <1>2
<1>4. ~\E x \in es : Earlier(v, x) /\ Earlier(x, u)
  <2> SUFFICES ASSUME NEW x \in es, Earlier(v, x), Earlier(x, u) PROVE FALSE
    OBVIOUS
  <2>1. /\ x.start \in Nat /\ x.end \in Nat /\ v.start \in Nat /\ v.end \in Nat
        /\ u.start \in Nat /\ u.end \in Nat
    BY <1>3
  <2>2. x \in U
    <3>1. x # v /\ ~Earlier(x, v)
      BY <2>1 DEF Earlier
    <3>2. x.start < v.end
      BY <1>3, <2>1 DEF Earlier
    <3> QED  BY <3>1, <3>2
  <2>3. s <= x.start
    BY <1>1, <2>2
  <2>4. x.start = s /\ x.end < t
    BY <1>3, <2>1, <2>3 DEF Earlier
  <2>5. t <= x.end
    BY <1>2, <2>2, <2>4
  <2> QED  BY <2>1, <2>4, <2>5, <1>3
<1>5. Follows(u, v, es) /\ u.start < v.end
  BY <1>3, <1>4 DEF Follows
<1> QED  BY <1>3, <1>5 DEF Overlap

\* A round takes time too, and its times are numbers.
LEMMA EntryTimes ==
  ASSUME Given, TypeOK, NEW n \in Node
  PROVE  /\ \A e \in Entries(n) : e.start \in Nat /\ e.end \in Nat
         /\ \A e \in ConsensusEntries : e.start < e.end
<1> DEFINE r == workload.rounds
<1>1. r.start \in Nat /\ r.period \in Nat /\ r.length \in Nat /\ r.length > 0 /\ r.num \in Nat
  BY WorkloadAssumption DEF Given
<1>2. \A i, k \in Nat : i * k \in Nat
  OBVIOUS
<1>3. \A e \in ConsensusEntries : e.start \in Nat /\ e.end \in Nat /\ e.start < e.end
  <2> SUFFICES ASSUME NEW i \in 0 .. r.num - 1
               PROVE  /\ r.start + i * r.period \in Nat
                      /\ r.start + i * r.period + r.length \in Nat
                      /\ r.start + i * r.period < r.start + i * r.period + r.length
    BY DEF ConsensusEntries, Window
  <2>1. i * r.period \in Nat
    BY <1>1, <1>2
  <2> QED  BY <1>1, <2>1
<1>4. \A e \in phases[n] : e.start \in Nat /\ e.end \in Nat
  BY DEF TypeOK, Windows
<1> QED  BY <1>3, <1>4 DEF Entries

\* What the overlap check of neighbours (lowering's compile.py:394) lets pass has no
\* overlaps at all, and runs in order in both tables.
THEOREM TablesRunInOrder == Spec => []AcceptedTablesRunInOrder
<1>1. SchedulerInv => AcceptedTablesRunInOrder
  <2> SUFFICES ASSUME SchedulerInv, NEW n \in Node, Accepted(n),
                      NEW v \in TxTable(n) \union RxTable(n),
                      NEW w \in TxTable(n) \union RxTable(n), v # w
               PROVE  Precedes(v, w) \/ Precedes(w, v)
    BY DEF AcceptedTablesRunInOrder
  <2>1. v \in Entries(n) /\ w \in Entries(n)
    BY DEF TxTable, RxTable
  <2>2. \A e \in Entries(n) : e.start \in Nat /\ e.end \in Nat /\ e.start < e.end
    BY EntryTimes DEF SchedulerInv, Accepted, Entries
  <2>3. ~Overlap(Entries(n))
    BY DEF Accepted
  <2>4. ~Earlier(w, v) => v.end <= w.start
    BY <2>1, <2>2, <2>3, NeighboursSuffice
  <2>5. ~Earlier(v, w) => w.end <= v.start
    BY <2>1, <2>2, <2>3, NeighboursSuffice
  <2> QED  BY <2>1, <2>2, <2>4, <2>5 DEF Precedes, Earlier
<1> QED  BY <1>1, SchedulerInvHolds, PTL

\* The planes whose phases lowering does not refuse for their length.
Substantial == TakesTime(plane) /\ plane.guard > 0 /\ plane.reconfig > 0

\* All that is laid out on such a plane takes time.
Lasting == Substantial => \A n \in Node : \A w \in phases[n] : w.start < w.end

LEMMA LastingHolds == Spec => []Lasting
<1>1. Init => Lasting
  BY DEF Init, Lasting
<1>2. SchedulerInv /\ Lasting /\ [Next]_vars => Lasting'
  <2> SUFFICES ASSUME SchedulerInv, Lasting, [Next]_vars, Substantial',
                      NEW n \in Node, NEW w \in phases'[n]
               PROVE  w.start < w.end
    BY DEF Lasting
  <2>1. Substantial
    BY DEF Substantial, Next, vars, Consider, CloseEpoch, NextLeg, TakesTime
  <2>2. CASE phases' = phases
    BY <2>1, <2>2 DEF Lasting
  <2>3. CASE CloseEpoch
    <3> DEFINE end == cursor + Duration
    <3>1. /\ Given /\ TypeOK /\ matching # {}
          /\ plane.guard \in Nat /\ plane.reconfig \in Nat /\ cursor \in Nat
      BY <2>3, GivenTyping DEF SchedulerInv, TypeOK, CloseEpoch
    <3>2. Duration \in Nat /\ Duration > 0
      BY <2>1, <3>1, DurationIsNat, DurationIsPositive DEF Substantial
    <3>3. w \in phases[n] \/ w \in EpochOf(n, end) \/ w \in SilenceAfter(end)
      BY <2>3 DEF CloseEpoch
    <3>4. CASE w \in EpochOf(n, end)
      BY <2>3, <3>1, <3>2, <3>4, EpochWindows
    <3>5. CASE w \in SilenceAfter(end)
      BY <2>1, <3>1, <3>2, <3>5 DEF SilenceAfter, Window, Substantial
    <3> QED  BY <2>1, <3>3, <3>4, <3>5 DEF Lasting
  <2>4. phases' = phases \/ CloseEpoch
    BY DEF Next, vars, Consider, NextLeg
  <2> QED  BY <2>2, <2>3, <2>4
<1> QED  BY <1>1, <1>2, SchedulerInvHolds, PTL DEF Spec

\* A pair that was served has a window.
HasWindow == \A p \in Pair : ServedLegs(p) # {} => Sent(p) # {}

LEMMA NextLegKeepsWindow ==
  ASSUME SchedulerInv, HasWindow, NextLeg
  PROVE  HasWindow'
<1>1. /\ leg \in Nat /\ remaining' = workload.legs[leg + 1] /\ leg' = leg + 1
      /\ workload' = workload /\ phases' = phases
      /\ remaining \in [Pair -> Nat]
  BY DEF NextLeg, SchedulerInv, TypeOK, Matrix
<1> SUFFICES ASSUME NEW p \in Pair, NEW k \in ServedLegs(p)'
             PROVE  Sent(p)' # {}
  BY DEF HasWindow
<1>2. /\ k \in 1 .. leg + 1 /\ workload.legs[k][p] > 0
      /\ k < leg + 1 \/ workload.legs[leg + 1][p] = 0
  BY <1>1 DEF ServedLegs
<1>3. k \in 1 .. leg /\ remaining[p] = 0
  BY <1>1, <1>2 DEF NextLeg, Busy
<1>4. k \in ServedLegs(p)
  BY <1>2, <1>3 DEF ServedLegs
<1> QED  BY <1>1, <1>4 DEF HasWindow, Sent

LEMMA CloseEpochKeepsWindow ==
  ASSUME SchedulerInv, HasWindow, CloseEpoch
  PROVE  HasWindow'
<1> DEFINE end == cursor + Duration
<1>1. /\ \A n \in Node : phases[n] \subseteq phases'[n] /\ EpochOf(n, end) \subseteq phases'[n]
      /\ remaining' = Served /\ workload' = workload /\ leg' = leg
  BY DEF CloseEpoch
<1> HIDE DEF end
<1> SUFFICES ASSUME NEW p \in Pair, ServedLegs(p)' # {}
             PROVE  Sent(p)' # {}
  BY DEF HasWindow
<1>2. p[1] \in Node
  BY DEF Pair
<1>3. CASE p \in matching
  <2>1. Window("tx", cursor, end, p, remaining[p]) \in EpochOf(p[1], end)
    BY <1>3 DEF EpochOf
  <2> QED  BY <2>1, <1>1, <1>2 DEF Sent, Window
<1>4. CASE p \notin matching
  <2>1. remaining'[p] = remaining[p]
    BY <1>1, <1>4 DEF Served
  <2>2. ServedLegs(p) # {}
    BY <1>1, <2>1 DEF ServedLegs
  <2> QED  BY <2>2, <1>1, <1>2 DEF HasWindow, Sent
<1> QED  BY <1>3, <1>4

LEMMA HasWindowHolds == Spec => []HasWindow
<1>1. Init => HasWindow
  <2> SUFFICES ASSUME Init, NEW p \in Pair PROVE ServedLegs(p) = {}
    BY DEF HasWindow
  <2>1. SchedulerInv
    BY InitScheduler
  <2> QED  BY <2>1 DEF Init, ServedLegs, SchedulerInv, TypeOK, Matrix
<1>2. SchedulerInv /\ HasWindow /\ [Next]_vars => HasWindow'
  <2> SUFFICES ASSUME SchedulerInv, HasWindow, [Next]_vars PROVE HasWindow'
    OBVIOUS
  <2>1. CASE UNCHANGED <<workload, leg, remaining, phases>>
    BY <2>1 DEF HasWindow, ServedLegs, Sent
  <2>2. CASE CloseEpoch
    BY <2>2, CloseEpochKeepsWindow
  <2>3. CASE NextLeg
    BY <2>3, NextLegKeepsWindow
  <2> QED  BY <2>1, <2>2, <2>3 DEF Next, vars, Consider
<1> QED  BY <1>1, <1>2, SchedulerInvHolds, PTL DEF Spec

\* Once all is scheduled, a node that has traffic has a phase: its pair was served, and
\* the window is laid out at both ends.
LEMMA TrafficMakesPhases ==
  ASSUME SchedulerInv, HasWindow, Done, NEW n \in Node, TakesPart(n)
  PROVE  phases[n] # {}
<1>1. PICK k \in 1 .. Len(workload.legs), p \in Pair :
             workload.legs[k][p] > 0 /\ n \in {p[1], p[2]}
  BY DEF TakesPart
<1>2. k \in 1 .. leg /\ remaining[p] = 0
  BY <1>1 DEF Done, Busy, SchedulerInv, TypeOK, Matrix
<1>3. PICK w \in Sent(p) : TRUE
  BY <1>1, <1>2 DEF HasWindow, ServedLegs
<1>4. w \in phases[p[1]] /\ w.kind = "tx" /\ w.pair = p /\ p[1] \in Node
  BY <1>3 DEF Sent, Pair
<1>5. [w EXCEPT !.kind = "rx"] \in phases[p[2]]
  BY <1>4 DEF SchedulerInv, BothEndsMeet
<1> QED  BY <1>1, <1>4, <1>5

\* On a plane that takes time to guard, to reconfigure and to send, and without rounds
\* in the way, lowering accepts every node that has traffic, whatever the matrix; what it
\* refuses (compile.py:433) is an idle node without phases.
THEOREM OnlyIdleRefused == Spec => []OnlyIdleNodesAreRefused
<1>1. SchedulerInv /\ Lasting /\ HasWindow => OnlyIdleNodesAreRefused
  <2> SUFFICES ASSUME SchedulerInv, Lasting, HasWindow, Done, workload.rounds.num = 0,
                      Substantial, NEW n \in Node
               PROVE  Accepted(n) \/ (~TakesPart(n) /\ phases[n] = {})
    BY DEF OnlyIdleNodesAreRefused, Substantial, TakesTime
  <2>1. Entries(n) = phases[n]
    <3>1. ConsensusEntries = {}
      BY DEF ConsensusEntries
    <3> QED  BY <3>1 DEF Entries
  <2>2. \A w \in phases[n] : w.start \in Nat /\ w.end \in Nat /\ w.start < w.end
    BY EntryTimes, <2>1 DEF SchedulerInv, Lasting
  <2>3. ~Overlap(Entries(n))
    <3> SUFFICES ASSUME NEW v \in phases[n], NEW w \in phases[n], Follows(w, v, phases[n]),
                        w.start < v.end
                 PROVE  FALSE
      BY <2>1 DEF Overlap
    <3>1. v # w /\ ~Earlier(w, v)
      BY DEF Follows
    <3>2. v.end <= w.start \/ w.end <= v.start
      BY <3>1 DEF SchedulerInv, NodeDoesOneThingAtATime
    <3> QED  BY <2>2, <3>1, <3>2 DEF Earlier
  <2>4. TakesPart(n) => phases[n] # {}
    BY TrafficMakesPhases
  <2> QED  BY <2>1, <2>2, <2>3, <2>4 DEF Accepted
<1> QED  BY <1>1, LastingHolds, HasWindowHolds, SchedulerInvHolds, PTL

===============================================================================
