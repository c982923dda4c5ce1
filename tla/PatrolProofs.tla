------------------------------ MODULE PatrolProofs ------------------------------
(***************************************************************************)
(* The memory of the line follower, for every track, every set of readings *)
(* and every limit: with the real ones, Hold = 350 and Cap = 5000, as well *)
(* as with the small ones of the runs.                                     *)
(*                                                                         *)
(* LostTurnsBack is not inductive: a latch that runs out hands the drive   *)
(* back to the flag, so drive and flag have to agree before that, from the *)
(* tick on that brings the count to Hold.                                  *)
(***************************************************************************)
EXTENDS Patrol, TLAPS

USE PatrolAssumption

Agree ==
  /\ flag = 1 => left < right
  /\ flag = 2 => right < left

\* The drives a wheel is given: from the search backward to full speed.
Duties == -30..100

\* The follower's part of the invariant.
Memory ==
  /\ flag \in 0..3 /\ flag2 \in 0..2 /\ js \in 0..Hold
  /\ left \in Duties /\ right \in Duties
  /\ since \in 0..Cap /\ blind \in BOOLEAN
  /\ flag2 > 0 => js = since
  /\ ~blind /\ (flag2 = 0 \/ js = Hold) => Agree

(* The outer sensors: a latch that is new starts its count at 0, one that  *)
(* is kept keeps it, and one in force has not reached Hold.                *)
LEMMA OuterFacts ==
  ASSUME NEW l, NEW f1 \in BOOLEAN, NEW f5 \in BOOLEAN, Memory,
         NEW o, o = Outer(l, f1, f5)
  PROVE  /\ o.latch \in 0..2 /\ o.js \in 0..Hold /\ o.js < Hold
         /\ f1 \/ f5 => o.latch > 0 /\ o.js = 0
         /\ ~(f1 \/ f5) /\ o.latch > 0 => o.latch = flag2 /\ o.js = js
         /\ o.latch = 0 => flag2 = 0 \/ js = Hold
<1>1. CASE f1 \/ f5
  BY <1>1 DEF Outer, Memory
<1>2. CASE ~(f1 \/ f5) /\ js >= Hold
  BY <1>2 DEF Outer, Memory
<1>3. CASE ~(f1 \/ f5) /\ ~(js >= Hold)
  BY <1>3 DEF Outer, Memory
<1> QED BY <1>1, <1>2, <1>3

(* The history counts as the code does while a latch is in force.          *)
LEMMA CountFacts ==
  ASSUME NEW l, NEW f1 \in BOOLEAN, NEW f5 \in BOOLEAN, Memory,
         NEW o, o = Outer(l, f1, f5)
  PROVE  /\ JsLatch(o) \in 0..Hold
         /\ Remember(f1, f5, TRUE) =>
              since' \in 0..Cap /\ (o.latch > 0 => JsLatch(o) = since')
         /\ Remember(f1, f5, FALSE) =>
              since' \in 0..Cap /\ (o.latch > 0 => o.js = since')
<1>1. /\ o.latch \in 0..2 /\ o.js \in 0..Hold /\ o.js < Hold
      /\ f1 \/ f5 => o.latch > 0 /\ o.js = 0
      /\ ~(f1 \/ f5) /\ o.latch > 0 => o.latch = flag2 /\ o.js = js
  BY OuterFacts
<1>2. since \in 0..Cap /\ (flag2 > 0 => js = since)
  BY DEF Memory
<1>3. ~(f1 \/ f5) /\ o.latch > 0 => o.js = since
  BY <1>1, <1>2
<1>4. JsLatch(o) \in 0..Hold /\ (o.latch > 0 => JsLatch(o) = o.js + 1)
  BY <1>1 DEF JsLatch, Least
<1>5. Remember(f1, f5, TRUE) =>
        since' \in 0..Cap /\ (o.latch > 0 => JsLatch(o) = since')
  <2>1. CASE f1 \/ f5
    BY <1>1, <1>2, <1>4, <2>1 DEF Remember, Least
  <2>2. CASE ~(f1 \/ f5)
    BY <1>1, <1>2, <1>3, <1>4, <2>2 DEF Remember, Least
  <2> QED BY <2>1, <2>2
<1>6. Remember(f1, f5, FALSE) =>
        since' \in 0..Cap /\ (o.latch > 0 => o.js = since')
  <2>1. CASE f1 \/ f5
    BY <1>1, <1>2, <2>1 DEF Remember, Least
  <2>2. CASE ~(f1 \/ f5)
    BY <1>1, <1>2, <1>3, <2>2 DEF Remember, Least
  <2> QED BY <2>1, <2>2
<1> QED BY <1>4, <1>5, <1>6

(* A tick on the line keeps it if its drive agrees with its flag.          *)
LEMMA OnLineMemory ==
  ASSUME NEW k, NEW f1 \in BOOLEAN, NEW f5 \in BOOLEAN, Memory,
         NEW o, o = Outer(k, f1, f5),
         NEW l \in Duties, NEW r \in Duties, NEW where \in 0..3,
         where = 1 => l < r, where = 2 => r < l,
         OnLine(o, f1, f5, l, r, where)
  PROVE  Memory'
<1>1. o.latch \in 0..2 /\ JsLatch(o) \in 0..Hold
  BY OuterFacts, CountFacts
<1>2. since' \in 0..Cap /\ (o.latch > 0 => JsLatch(o) = since')
  BY CountFacts DEF OnLine
<1> QED BY <1>1, <1>2 DEF OnLine, Memory, Agree

(* One tick of the follower keeps the invariant.                           *)
LEMMA FollowMemory ==
  ASSUME NEW k, Memory, PatrolFollow(k)
  PROVE  Memory'
<1>1. PICK p2 \in Percents, p3 \in Percents, p4 \in Percents,
           f1 \in BOOLEAN, f5 \in BOOLEAN :
        LET o == Outer(k, f1, f5) IN
        \/ FollowCentred(o, f1, f5, p2, p3, p4)
        \/ FollowLeft(o, f1, f5, p2, p3, p4)
        \/ FollowRight(o, f1, f5, p2, p3, p4)
        \/ FollowLost(o, f1, f5, p2, p3, p4)
  BY DEF PatrolFollow
<1> DEFINE o == Outer(k, f1, f5)
<1>2. p2 \in Int /\ p3 \in Int /\ p4 \in Int
  OBVIOUS
<1>3. CASE FollowCentred(o, f1, f5, p2, p3, p4)
  <2>1. p2 > p4 => SlowWheel(p3, p2 - p4, 35) \in Duties
    BY <1>2 DEF Duties, SlowWheel, Rung, Least
  <2>2. p4 > p2 => SlowWheel(p3, p4 - p2, 40) \in Duties
    BY <1>2 DEF Duties, SlowWheel, Rung, Least
  <2> HIDE DEF o
  <2>4. o = Outer(k, f1, f5)
    BY DEF o
  <2>5. \/ p2 > p4 /\ OnLine(o, f1, f5, SlowWheel(p3, p2 - p4, 35), 100, 3)
        \/ p4 > p2 /\ OnLine(o, f1, f5, 100, SlowWheel(p3, p4 - p2, 40), 3)
        \/ OnLine(o, f1, f5, 100, 100, 0)
    BY <1>3 DEF FollowCentred
  <2>6. 100 \in Duties
    BY DEF Duties
  <2>7. CASE p2 > p4 /\ OnLine(o, f1, f5, SlowWheel(p3, p2 - p4, 35), 100, 3)
    BY <2>1, <2>4, <2>6, <2>7, OnLineMemory
  <2>8. CASE p4 > p2 /\ OnLine(o, f1, f5, 100, SlowWheel(p3, p4 - p2, 40), 3)
    BY <2>2, <2>4, <2>6, <2>8, OnLineMemory
  <2>9. CASE OnLine(o, f1, f5, 100, 100, 0)
    BY <2>4, <2>6, <2>9, OnLineMemory
  <2> QED BY <2>5, <2>7, <2>8, <2>9
<1>4. CASE FollowLeft(o, f1, f5, p2, p3, p4)
  <2> DEFINE w == IF p3 > 10 THEN Least(70, Rung(p3)) ELSE LastRung(p2)
  <2>1. w \in Duties /\ w < 100
    BY <1>2 DEF Duties, Rung, LastRung, Least, Most
  <2> HIDE DEF o, w
  <2>2. o = Outer(k, f1, f5)
    BY DEF o
  <2>3. OnLine(o, f1, f5, w, 100, IF p3 > 30 THEN 3 ELSE 1)
    BY <1>4 DEF FollowLeft, w
  <2>4. 100 \in Duties
    BY DEF Duties
  <2> QED BY <2>1, <2>2, <2>3, <2>4, OnLineMemory
<1>5. CASE FollowRight(o, f1, f5, p2, p3, p4)
  <2> DEFINE w == IF p3 > 5 THEN Least(70, Rung(p3)) ELSE LastRung(p4)
  <2>1. w \in Duties /\ w < 100
    BY <1>2 DEF Duties, Rung, LastRung, Least, Most
  <2> HIDE DEF o, w
  <2>2. o = Outer(k, f1, f5)
    BY DEF o
  <2>3. OnLine(o, f1, f5, 100, w, IF p3 > 30 THEN 3 ELSE 2)
    BY <1>5 DEF FollowRight, w
  <2>4. 100 \in Duties
    BY DEF Duties
  <2> QED BY <2>1, <2>2, <2>3, <2>4, OnLineMemory
<1>6. CASE FollowLost(o, f1, f5, p2, p3, p4)
  <2> HIDE DEF o
  <2>1. o = Outer(k, f1, f5)
    BY DEF o
  <2>2. /\ o.latch \in 0..2 /\ o.js \in 0..Hold /\ o.js < Hold
        /\ o.latch = 0 => flag2 = 0 \/ js = Hold
    BY <2>1, OuterFacts
  <2>3. since' \in 0..Cap /\ (o.latch > 0 => o.js = since')
    BY <2>1, <1>6, CountFacts DEF FollowLost
  <2>4. PICK g1 \in BOOLEAN, g5 \in BOOLEAN :
          LET d == LostDrive(o.latch, p2, p4, g1, g5) IN
          left' = d[1] /\ right' = d[2] /\ blind' = (blind /\ d = <<left, right>>)
    BY <1>6 DEF FollowLost
  <2> DEFINE d == LostDrive(o.latch, p2, p4, g1, g5)
  <2>5. d \in Duties \X Duties
    BY <1>2 DEF Duties, LostDrive, Memory
  <2>6. o.latch = 0 /\ d # <<left, right>> =>
          (flag = 1 => d[1] < d[2]) /\ (flag = 2 => d[2] < d[1])
    BY <1>2 DEF Duties, LostDrive, Memory
  <2>7. flag' = flag /\ flag2' = o.latch /\ js' = o.js
    BY <1>6 DEF FollowLost
  <2>8. left' = d[1] /\ right' = d[2] /\ blind' = (blind /\ d = <<left, right>>)
    BY <2>4
  <2> HIDE DEF d
  <2>9. ~blind' /\ o.latch = 0 => Agree'
    <3>1. CASE d = <<left, right>>
      BY <3>1, <2>2, <2>7, <2>8 DEF Memory, Agree
    <3>2. CASE d # <<left, right>>
      BY <3>2, <2>6, <2>7, <2>8 DEF Agree
    <3> QED BY <3>1, <3>2
  <2>10. blind' \in BOOLEAN
    BY <2>8, Zenon
  <2>11. left' \in Duties /\ right' \in Duties
    BY <2>5, <2>8
  <2> QED BY <2>2, <2>3, <2>7, <2>9, <2>10, <2>11 DEF Memory
<1> QED BY <1>1, <1>3, <1>4, <1>5, <1>6

-----------------------------------------------------------------------------

\* The junction's part: what the two times are, and that it was found.
Crossing ==
  /\ junction \in 0..3 /\ now \in 0..EndOfTime
  /\ t1 \in {Never1} \cup 0..EndOfTime /\ t5 \in {Never5} \cup 0..EndOfTime
  /\ CrossIsBoth

(* A junction drive notes times of its own clock only.                     *)
LEMMA CrossingKept ==
  ASSUME Crossing, [Next]_vars
  PROVE  Crossing'
<1> USE DEF Crossing, CrossIsBoth, Never1, Never5
<1>1. CASE UNCHANGED drive
  BY <1>1 DEF drive
<1>2. ASSUME NEW k \in 0..3, UntilJunction(k) PROVE Crossing'
  BY <1>2 DEF UntilJunction
<1>3. CASE Creep
  BY <1>3 DEF Creep
<1>4. CASE SeekBoth
  BY <1>4 DEF SeekBoth, Least
<1>5. CASE Found
  <2>1. junction \in {1, 3} => t1 # Never1 /\ t5 # Never5
    <3>1. junction \in {1, 3} => Met
      BY <1>5 DEF Found
    <3>2. CASE t1 = Never1
      BY <3>1, <3>2 DEF Met, Gap, Most, Least
    <3>3. CASE t5 = Never5 /\ t1 \in 0..EndOfTime
      BY <3>1, <3>3 DEF Met, Gap, Most, Least
    <3> QED BY <3>2, <3>3
  <2> QED BY <2>1, <1>5 DEF Found, Met
<1>6. CASE JunctionDone \/ ForTime \/ SlowTick \/ TimeUp
  BY <1>6 DEF JunctionDone, ForTime, SlowTick, TimeUp
<1>7. CASE PatrolSpeed \/ InitEngine \/ SeekOne \/ Leave \/ TimedTick \/ Manoeuvre
           \/ UNCHANGED vars
  BY <1>1, <1>7 DEF PatrolSpeed, InitEngine, SeekOne, Leave, TimedTick, Manoeuvre, vars
<1> QED BY <1>2, <1>3, <1>4, <1>5, <1>6, <1>7 DEF Next

(* The drives keep the follower's memory.                                  *)
LEMMA MemoryKept ==
  ASSUME Memory, [Next]_vars
  PROVE  Memory'
<1>1. ASSUME NEW k, PatrolFollow(k) PROVE Memory'
  BY <1>1, FollowMemory
<1>2. ASSUME NEW k \in 0..3, UntilJunction(k) PROVE Memory'
  BY <1>2 DEF Duties, UntilJunction, Yd, Memory, Agree, memory
<1>3. CASE PatrolSpeed \/ Creep \/ SeekBoth \/ SeekOne \/ SlowTick \/ TimedTick
  BY <1>1, <1>3 DEF PatrolSpeed, Creep, SeekBoth, SeekOne, SlowTick, TimedTick
<1>4. CASE Leave
  <2>1. CASE PatrolFollow(junction)
    BY <1>1, <2>1
  <2>2. CASE Yd(100, 100) /\ UNCHANGED <<memory, since>>
    BY <2>2 DEF Duties, Yd, Memory, Agree, memory
  <2> QED BY <1>4, <2>1, <2>2 DEF Leave
<1>5. CASE InitEngine
  BY <1>5 DEF InitEngine, Memory, Agree
<1>6. CASE Found \/ UNCHANGED vars
  BY <1>6 DEF Found, vars, memory, Memory, Agree
<1>7. CASE JunctionDone
  BY <1>7 DEF Duties, JunctionDone, Yd, Memory
<1>8. CASE TimeUp
  BY <1>8 DEF Duties, TimeUp, Yd, Memory
<1>9. CASE ForTime
  BY <1>9 DEF Duties, ForTime, Yd, Memory, memory
<1>10. CASE Manoeuvre
  BY <1>10 DEF Duties, Manoeuvre, Yd, Memory
<1> QED BY <1>2, <1>3, <1>4, <1>5, <1>6, <1>7, <1>8, <1>9, <1>10 DEF Next

\* The program's part: where a drive is.
Stages ==
  /\ flag1 \in 0..1
  /\ op \in {"rest", "creep", "seek", "leave", "slow", "timed"}

(* The drives go from stage to stage; only they change flag1.              *)
LEMMA StagesKept ==
  ASSUME Stages, [Next]_vars
  PROVE  Stages'
<1> USE DEF Stages
<1>1. ASSUME NEW k, PatrolFollow(k) PROVE UNCHANGED flag1
  <2>1. PICK p2 \in Percents, p3 \in Percents, p4 \in Percents,
             f1 \in BOOLEAN, f5 \in BOOLEAN :
          LET o == Outer(k, f1, f5) IN
          \/ FollowCentred(o, f1, f5, p2, p3, p4)
          \/ FollowLeft(o, f1, f5, p2, p3, p4)
          \/ FollowRight(o, f1, f5, p2, p3, p4)
          \/ FollowLost(o, f1, f5, p2, p3, p4)
    BY <1>1 DEF PatrolFollow
  <2> DEFINE o == Outer(k, f1, f5)
  <2> HIDE DEF o
  <2>2. ASSUME NEW l, NEW r, NEW where, OnLine(o, f1, f5, l, r, where)
        PROVE  UNCHANGED flag1
    BY <2>2 DEF OnLine
  <2>3. FollowLost(o, f1, f5, p2, p3, p4) => UNCHANGED flag1
    BY DEF FollowLost
  <2>4. \/ FollowCentred(o, f1, f5, p2, p3, p4)
        \/ FollowLeft(o, f1, f5, p2, p3, p4)
        \/ FollowRight(o, f1, f5, p2, p3, p4)
        \/ FollowLost(o, f1, f5, p2, p3, p4)
    BY <2>1 DEF o
  <2> QED BY <2>2, <2>3, <2>4 DEF FollowCentred, FollowLeft, FollowRight
<1>2. CASE PatrolSpeed \/ SeekOne \/ SeekBoth \/ TimedTick
  BY <1>1, <1>2 DEF PatrolSpeed, SeekOne, SeekBoth, TimedTick, drive
<1>3. CASE Creep \/ SlowTick
  BY <1>1, <1>3 DEF Creep, SlowTick
<1>4. CASE Leave
  <2>1. UNCHANGED flag1
    BY <1>1, <1>4 DEF Leave, memory
  <2> QED BY <1>4, <2>1 DEF Leave, drive
<1>5. ASSUME NEW k \in 0..3, UntilJunction(k) PROVE Stages'
  BY <1>5 DEF UntilJunction, memory
<1>6. CASE InitEngine \/ Found \/ JunctionDone \/ ForTime \/ TimeUp \/ Manoeuvre
  BY <1>6 DEF InitEngine, Found, JunctionDone, ForTime, TimeUp, Manoeuvre, memory, drive
<1>7. CASE UNCHANGED vars
  BY <1>7 DEF vars, memory, drive
<1> QED BY <1>2, <1>3, <1>4, <1>5, <1>6, <1>7 DEF Next

IInv == Memory /\ Crossing /\ Stages

LEMMA Initially == Init => IInv
  BY DEF Duties, Init, IInv, Memory, Agree, Crossing, CrossIsBoth, Stages, Never1, Never5

LEMMA Always == Spec => []IInv
<1>1. IInv /\ [Next]_vars => IInv'
  BY MemoryKept, CrossingKept, StagesKept DEF IInv
<1> QED BY Initially, <1>1, PTL DEF Spec

(* Whatever the calibration, no reading of the sensors commands a wheel    *)
(* past full speed or faster backward than the search for a lost line; the *)
(* counts stay within their limits.                                        *)
THEOREM TypeCorrect == Spec => []TypeOK
<1>1. IInv => TypeOK
  BY DEF Duties, IInv, Memory, Crossing, Stages, TypeOK
<1> QED BY Always, <1>1, PTL

(* Whatever the limits, an outer latch counts from when its sensor fired   *)
(* last and does not outlive Hold on-line ticks.                           *)
THEOREM LatchIsFresh == Spec => []LatchFresh
<1>1. IInv => LatchFresh
  BY DEF IInv, Memory, LatchFresh
<1> QED BY Always, <1>1, PTL

(* Whatever the track, a robot with no latch in force turns to the side on *)
(* which it saw the line last.                                             *)
THEOREM TurnsBack == Spec => []LostTurnsBack
<1>1. IInv => LostTurnsBack
  BY DEF IInv, Memory, Agree, LostTurnsBack
<1> QED BY Always, <1>1, PTL

(* Whatever the clock does, a crossing has two lines.                      *)
THEOREM CrossingIsBoth == Spec => []CrossIsBoth
<1>1. IInv => CrossIsBoth
  BY DEF IInv, Crossing
<1> QED BY Always, <1>1, PTL
=============================================================================
