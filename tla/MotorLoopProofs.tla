--------------------------- MODULE MotorLoopProofs ---------------------------
(***************************************************************************)
(* Proofs about MotorLoop for any number of tasks and motors, any speeds   *)
(* and any values of the tuning constants.                                 *)
(*                                                                         *)
(* None of the safety invariants is inductive alone.  The hold is over     *)
(* before a stall because hold and window together never exceed            *)
(* RecoverTicks (HoldFits); a parked channel is released because whoever   *)
(* parked it is still on the way to the two release statements, register   *)
(* by register (ReleasePending).                                           *)
(***************************************************************************)
EXTENDS MotorLoop, TLAPS

HoldFits(c) == c.recoverCnt > 0 => c.stallWindow + c.recoverCnt <= RecoverTicks

ChannelInv(c) ==
  /\ c.stalled => Abs(c.goal) <= StallFloor
  /\ c.stalled => c.recoverCnt = 0
  /\ HoldFits(c)

ReleasePending(m) ==
  ch[m].parked =>
    /\ ch[m].fwd # 0 => Releasing(m, {"relFwd"})
    /\ ch[m].rev # 0 => Releasing(m, {"relFwd", "relRev"})

IInv ==
  /\ TypeOK
  /\ \A m \in Motors : ChannelInv(ch[m])
  /\ \A m \in Motors : ReleasePending(m)

-----------------------------------------------------------------------------
(* The arithmetic.                                                         *)

(* The goal of any command fits the int16_t it is stored in.               *)
LEMMA GoalOfType ==
  ASSUME NEW speed \in Int
  PROVE  GoalOf(speed) \in Goals
<1> DEFINE q == Quot(speed * 64, 100)
<1>1. q \in Int
  BY DEF Quot
<1>2. ASSUME NEW x \in Int
      PROVE  Int16(x) \in Goals
  <2>1. \A y \in Int : y % 65536 \in Int /\ 0 <= y % 65536 /\ y % 65536 < 65536
    OBVIOUS
  <2>2. QED
    BY <2>1 DEF Int16, Goals
<1>3. GoalOf(speed) = Int16(q)
  BY DEF GoalOf
<1> HIDE DEF q
<1>4. QED
  BY <1>1, <1>2, <1>3

(* The accumulator stays within its clamp whatever the error.              *)
LEMMA NextIntegralType ==
  ASSUME NEW i \in -IntegralMax..IntegralMax, NEW err \in Int
  PROVE  NextIntegral(i, err) \in -IntegralMax..IntegralMax
BY MotorLoopAssumption DEF NextIntegral, Clamp, Abs

(* The integral's share of the duty is at most a tenth of the clamp.       *)
LEMMA QuotBound ==
  ASSUME NEW i \in -IntegralMax..IntegralMax
  PROVE  Quot(i, 10) \in -(IntegralMax \div 10)..(IntegralMax \div 10)
BY MotorLoopAssumption DEF Quot

-----------------------------------------------------------------------------
(* The passes of the interrupt.                                            *)

(* The bridge takes any duty, and only its two registers change.           *)
LEMMA BridgeType ==
  ASSUME NEW c \in Channel, NEW duty \in Int
  PROVE  /\ Bridge(c, duty) \in Channel
         /\ Bridge(c, duty).stalled = c.stalled
         /\ Bridge(c, duty).parked = c.parked
         /\ Bridge(c, duty).goal = c.goal
         /\ Bridge(c, duty).recoverCnt = c.recoverCnt
         /\ Bridge(c, duty).stallWindow = c.stallWindow
         /\ Bridge(c, duty).fwd + Bridge(c, duty).rev = Abs(Clamp(duty, 100))
<1> DEFINE d == Clamp(duty, 100)
           f == IF d > 0 THEN d ELSE 0
           r == IF d < 0 THEN -d ELSE 0
<1>1. d \in -100..100
  BY DEF Clamp
<1>2. f \in Percent /\ r \in Percent /\ f + r = Abs(d)
  BY <1>1 DEF Percent, Abs
<1>3. Bridge(c, duty) = [c EXCEPT !.fwd = f, !.rev = r]
  BY DEF Bridge
<1> HIDE DEF d, f, r
<1>4. [c EXCEPT !.fwd = f, !.rev = r] \in Channel
  BY <1>2 DEF Channel
<1>5. QED
  BY <1>2, <1>3, <1>4 DEF Channel, d

(* Stall supervision keeps a channel well formed; a stall is flagged only  *)
(* with the hold over and the goal cut to the floor.                       *)
LEMMA StallCheckInv ==
  ASSUME NEW c \in Channel, ChannelInv(c)
  PROVE  /\ StallCheck(c) \in Channel
         /\ ChannelInv(StallCheck(c))
         /\ StallCheck(c).parked = c.parked
         /\ StallCheck(c).fwd = c.fwd
         /\ StallCheck(c).rev = c.rev
<1> DEFINE hold == Hold(c)
           window == c.stallWindow + 1
           jammed == Jammed(c)
           freed == Freed(c)
           cut == CutGoal(c)
<1>1. hold \in 0..RecoverTicks /\ window \in Nat
  BY MotorLoopAssumption DEF Channel, Hold
<1>2. CASE window <= c.checkWindow
  <2> DEFINE tuning == Retune(c)
  <2>1. StallCheck(c) = [c EXCEPT !.recoverCnt = hold, !.stallWindow = window,
                                  !.needTuning = tuning]
    BY <1>2 DEF StallCheck
  <2>2. window \in 0..GraceReversal /\ tuning \in BOOLEAN
    BY <1>1, <1>2, MotorLoopAssumption DEF Channel, Retune
  <2>3. hold > 0 => window + hold <= RecoverTicks
    BY <1>1, MotorLoopAssumption DEF Channel, ChannelInv, Hold, HoldFits
  <2>4. c.stalled => hold = 0
    BY DEF ChannelInv, Hold
  <2> HIDE DEF hold, window, tuning
  <2>5. QED
    BY <1>1, <2>1, <2>2, <2>3, <2>4 DEF Channel, ChannelInv, HoldFits
<1>3. CASE ~(window <= c.checkWindow)
  <2> DEFINE flag == jammed \/ (c.stalled /\ ~freed)
             rest == IF freed THEN RecoverTicks ELSE hold
  <2>1. StallCheck(c) = [c EXCEPT !.recoverCnt = rest, !.stalled = flag,
                                  !.goal = cut, !.judge = 0, !.stallWindow = 0]
    BY <1>3 DEF StallCheck
  <2>2. hold = 0
    BY <1>3, MotorLoopAssumption DEF Channel, ChannelInv, Hold, HoldFits
  <2>3. flag => Abs(cut) <= StallFloor
    BY MotorLoopAssumption
       DEF Channel, Goals, ChannelInv, Abs, Sign, CutGoal, Jammed, Freed
  <2>4. flag => ~freed
    BY MotorLoopAssumption DEF Channel, Abs, Jammed, Freed
  <2>5. cut \in Goals
    BY MotorLoopAssumption DEF Channel, Goals, Abs, Sign, CutGoal, Jammed
  <2>6. rest \in 0..RecoverTicks /\ flag \in BOOLEAN
    BY <1>1, MotorLoopAssumption DEF Channel, Jammed, Freed
  <2>7. flag => rest = 0
    BY <2>2, <2>4
  <2> DEFINE e == [c EXCEPT !.recoverCnt = rest, !.stalled = flag, !.goal = cut]
             n == [e EXCEPT !.judge = 0, !.stallWindow = 0]
  <2> HIDE DEF rest, flag, cut
  <2>8. n \in Channel
    <3>1. e \in Channel
      BY <2>5, <2>6 DEF Channel
    <3> DEFINE g == [e EXCEPT !.judge = 0]
    <3> HIDE DEF e
    <3>2. g \in Channel
      BY <3>1 DEF Channel
    <3>3. n = [g EXCEPT !.stallWindow = 0]
      OBVIOUS
    <3> HIDE DEF g, n
    <3>4. [g EXCEPT !.stallWindow = 0] \in Channel
      BY <3>2, MotorLoopAssumption DEF Channel
    <3>5. QED
      BY <3>3, <3>4
  <2>9. /\ n.recoverCnt = rest /\ n.stalled = flag /\ n.goal = cut
        /\ n.stallWindow = 0 /\ n.parked = c.parked
        /\ n.fwd = c.fwd /\ n.rev = c.rev
    BY DEF Channel
  <2> HIDE DEF n
  <2>10. ChannelInv(n)
    BY <2>3, <2>6, <2>7, <2>9, MotorLoopAssumption DEF ChannelInv, HoldFits
  <2>11. QED
    BY <2>1, <2>8, <2>9, <2>10 DEF n
<1>4. QED
  BY <1>2, <1>3

(* The ramp moves the goal by at most one step, and only without a stall.  *)
LEMMA GoalRampInv ==
  ASSUME NEW c \in Channel, ChannelInv(c)
  PROVE  /\ GoalRamp(c) \in Channel
         /\ ChannelInv(GoalRamp(c))
         /\ GoalRamp(c).parked = c.parked
         /\ GoalRamp(c).fwd = c.fwd
         /\ GoalRamp(c).rev = c.rev
<1>1. CASE ~c.needTuning \/ c.stalled
  BY <1>1 DEF GoalRamp
<1>2. CASE c.needTuning /\ ~c.stalled
  <2> DEFINE g == RampedGoal(c)
             tuning == c.backup # c.goal
  <2>1. GoalRamp(c) = [c EXCEPT !.goal = g, !.needTuning = tuning]
    BY <1>2 DEF GoalRamp
  <2>2. g \in Goals
    BY MotorLoopAssumption DEF RampedGoal, Channel, Goals
  <2>3. tuning \in BOOLEAN
    OBVIOUS
  <2> HIDE DEF g, tuning
  <2>4. QED
    BY <1>2, <2>1, <2>2, <2>3 DEF Channel, ChannelInv, HoldFits
<1>3. QED
  BY <1>1, <1>2 DEF Channel

(* The PI pass drives a stalled channel with the integral's share only.    *)
LEMMA SpeedPIDInv ==
  ASSUME NEW c \in Channel, ChannelInv(c), NEW count \in Int
  PROVE  /\ SpeedPID(c, count) \in Channel
         /\ ChannelInv(SpeedPID(c, count))
         /\ SpeedPID(c, count).parked = c.parked
         /\ SpeedPID(c, count).stalled = c.stalled
         /\ c.stalled =>
              SpeedPID(c, count).fwd + SpeedPID(c, count).rev
                <= IntegralMax \div 10
<1> DEFINE err == c.goal - count
           sum == NextIntegral(c.integral, err)
           duty == Duty(c, err, sum)
           d == [c EXCEPT !.integral = sum]
<1>1. err \in Int
  BY DEF Channel, Goals
<1>2. sum \in -IntegralMax..IntegralMax
  BY <1>1, NextIntegralType DEF Channel
<1>3. Quot(sum, 10) \in -(IntegralMax \div 10)..(IntegralMax \div 10)
  BY <1>2, QuotBound
<1>4. SpeedPID(c, count) = Bridge(d, duty)
  BY DEF SpeedPID
<1>5. duty \in Int
  <2> DEFINE q == Quot(sum, 10)
  <2>1. q \in Int
    BY <1>3, MotorLoopAssumption
  <2>2. duty = (IF c.stalled THEN 0 ELSE err * 5) + q
    BY DEF Duty
  <2> HIDE DEF q, err, duty
  <2>3. QED
    BY <1>1, <2>1, <2>2
<1>6. c.stalled => Abs(Clamp(duty, 100)) <= IntegralMax \div 10
  <2> DEFINE q == Quot(sum, 10)
             most == IntegralMax \div 10
  <2>1. most \in Nat
    BY MotorLoopAssumption
  <2>2. q \in -most..most
    BY <1>3
  <2>3. c.stalled => duty = q
    <3>1. q \in Int
      BY <2>1, <2>2
    <3>2. duty = (IF c.stalled THEN 0 ELSE err * 5) + q
      BY DEF Duty
    <3> HIDE DEF q, duty
    <3>3. QED
      BY <3>1, <3>2
  <2> HIDE DEF q, most, duty
  <2>4. c.stalled => Abs(Clamp(duty, 100)) <= most
    BY <2>1, <2>2, <2>3 DEF Abs, Clamp
  <2>5. QED
    BY <2>4 DEF most
<1> HIDE DEF sum, duty
<1>7. d \in Channel
  BY <1>2 DEF Channel
<1>8. /\ d.stalled = c.stalled /\ d.parked = c.parked /\ d.goal = c.goal
      /\ d.recoverCnt = c.recoverCnt /\ d.stallWindow = c.stallWindow
  BY DEF Channel
<1> DEFINE b == Bridge(d, duty)
<1> HIDE DEF d
<1>9. /\ b \in Channel /\ b.stalled = d.stalled /\ b.parked = d.parked
      /\ b.goal = d.goal /\ b.recoverCnt = d.recoverCnt
      /\ b.stallWindow = d.stallWindow
      /\ b.fwd + b.rev = Abs(Clamp(duty, 100))
  BY <1>5, <1>7, BridgeType
<1> HIDE DEF b
<1>10. ChannelInv(b)
  BY <1>8, <1>9 DEF ChannelInv, HoldFits
<1>11. QED
  BY <1>4, <1>6, <1>8, <1>9, <1>10 DEF b

-----------------------------------------------------------------------------
(* The steps.                                                              *)

(* What one tick does to one channel.                                      *)
Ticked(c, count) == Drive(GoalRamp(StallCheck(Sample(c, count))), count)

LEMMA TickedInv ==
  ASSUME NEW c \in Channel, ChannelInv(c), NEW count \in Int
  PROVE  /\ Ticked(c, count) \in Channel
         /\ ChannelInv(Ticked(c, count))
         /\ Ticked(c, count).parked = c.parked
         /\ c.parked => /\ Ticked(c, count).fwd = c.fwd
                        /\ Ticked(c, count).rev = c.rev
         /\ Ticked(c, count).stalled /\ ~c.parked =>
              Ticked(c, count).fwd + Ticked(c, count).rev
                <= IntegralMax \div 10
<1> DEFINE a == Sample(c, count)
           b == StallCheck(a)
           d == GoalRamp(b)
<1>1. /\ a \in Channel /\ ChannelInv(a)
      /\ a.parked = c.parked /\ a.fwd = c.fwd /\ a.rev = c.rev
  <2>1. a = [c EXCEPT !.judge = c.judge + count]
    BY DEF Sample
  <2>2. c.judge + count \in Int
    BY DEF Channel
  <2> HIDE DEF a
  <2>3. QED
    BY <2>1, <2>2 DEF Channel, ChannelInv, HoldFits
<1>2. Ticked(c, count) = Drive(d, count)
  BY DEF Ticked
<1> HIDE DEF a
<1>3. /\ b \in Channel /\ ChannelInv(b)
      /\ b.parked = c.parked /\ b.fwd = c.fwd /\ b.rev = c.rev
  BY <1>1, StallCheckInv
<1> HIDE DEF b
<1>4. /\ d \in Channel /\ ChannelInv(d)
      /\ d.parked = c.parked /\ d.fwd = c.fwd /\ d.rev = c.rev
  BY <1>3, GoalRampInv
<1> HIDE DEF d
<1>5. CASE d.parked
  <2> DEFINE e == ClrPID(d)
  <2>1. e = [d EXCEPT !.parked = TRUE, !.goal = 0, !.integral = 0]
    BY DEF ClrPID
  <2>2. e \in Channel
    <3>1. 0 \in Goals /\ 0 \in -IntegralMax..IntegralMax
      BY MotorLoopAssumption DEF Goals
    <3> HIDE DEF e
    <3>2. QED
      BY <1>4, <2>1, <3>1 DEF Channel
  <2>3. /\ e.parked /\ e.fwd = d.fwd /\ e.rev = d.rev /\ e.goal = 0
        /\ e.stalled = d.stalled /\ e.recoverCnt = d.recoverCnt
        /\ e.stallWindow = d.stallWindow
    BY <1>4, <2>1 DEF Channel
  <2>4. Ticked(c, count) = e
    BY <1>2, <1>5 DEF Drive
  <2> HIDE DEF e
  <2>5. ChannelInv(e)
    BY <1>4, <2>3, MotorLoopAssumption DEF ChannelInv, HoldFits, Abs
  <2>6. QED
    BY <1>4, <1>5, <2>2, <2>3, <2>4, <2>5
<1>6. CASE ~d.parked
  <2> DEFINE e == SpeedPID(d, count)
  <2>1. Ticked(c, count) = e
    BY <1>2, <1>6 DEF Drive
  <2>2. /\ e \in Channel /\ ChannelInv(e) /\ e.parked = d.parked
        /\ e.stalled = d.stalled
        /\ d.stalled => e.fwd + e.rev <= IntegralMax \div 10
    BY <1>4, SpeedPIDInv
  <2> HIDE DEF e
  <2>3. QED
    BY <1>4, <1>6, <2>1, <2>2
<1>7. QED
  BY <1>5, <1>6

(* The tick is that, on every channel at once.                             *)
LEMMA TickIsTicked ==
  ASSUME Tick
  PROVE  /\ \E counts \in [Motors -> Counts] :
              ch' = [m \in Motors |-> Ticked(ch[m], counts[m])]
         /\ UNCHANGED <<pc, arg>>
BY DEF Tick, Ticked

LEMMA TickInv ==
  ASSUME IInv, Tick
  PROVE  /\ IInv'
         /\ \A m \in Motors :
              ch'[m].stalled /\ ~ch'[m].parked
                => ch'[m].fwd + ch'[m].rev <= IntegralMax \div 10
<1>1. PICK counts \in [Motors -> Counts] :
        ch' = [m \in Motors |-> Ticked(ch[m], counts[m])]
  BY TickIsTicked
<1>2. UNCHANGED <<pc, arg>>
  BY TickIsTicked
<1>3. ASSUME NEW m \in Motors
      PROVE  /\ ch'[m] \in Channel /\ ChannelInv(ch'[m])
             /\ ch'[m].parked = ch[m].parked
             /\ ch[m].parked => ch'[m].fwd = ch[m].fwd /\ ch'[m].rev = ch[m].rev
             /\ ch'[m].stalled /\ ~ch[m].parked
                  => ch'[m].fwd + ch'[m].rev <= IntegralMax \div 10
  <2>1. ch'[m] = Ticked(ch[m], counts[m])
    BY <1>1
  <2>2. ch[m] \in Channel /\ ChannelInv(ch[m])
    BY DEF IInv, TypeOK
  <2>3. counts[m] \in Int
    BY MotorLoopAssumption
  <2>4. QED
    BY <2>1, <2>2, <2>3, TickedInv
<1>4. TypeOK'
  <2>1. ch' \in [Motors -> Channel]
    <3>1. ch' = [m \in Motors |-> ch'[m]]
      BY <1>1
    <3>2. QED
      BY <1>3, <3>1
  <2>2. QED
    BY <1>2, <2>1 DEF IInv, TypeOK
<1>5. \A m \in Motors : ReleasePending(m)'
  BY <1>2, <1>3 DEF IInv, ReleasePending, Releasing
<1>6. QED
  BY <1>3, <1>4, <1>5 DEF IInv

(* A statement of set_motor that changes one channel keeps the invariant   *)
(* if it keeps that channel's part and accounts for that channel's bridge. *)
LEMMA StatementInv ==
  ASSUME IInv, NEW t \in Tasks, NEW label \in Labels,
         pc' = [pc EXCEPT ![t] = label], arg' = arg,
         NEW new \in Channel, ChannelInv(new),
         ch' = [ch EXCEPT ![arg[t]] = new],
         ReleasePending(arg[t])'
  PROVE  IInv'
<1>1. TypeOK'
  BY DEF IInv, TypeOK
<1>2. ASSUME NEW m \in Motors
      PROVE  ChannelInv(ch[m])'
  BY DEF IInv, TypeOK, ChannelInv, HoldFits
<1>3. ASSUME NEW m \in Motors
      PROVE  ReleasePending(m)'
  <2>1. CASE m = arg[t]
    BY <2>1
  <2>2. CASE m # arg[t]
    <3>1. ch'[m] = ch[m]
      BY <2>2 DEF IInv, TypeOK
    <3>2. \A u \in Tasks : u # t => pc'[u] = pc[u]
      BY DEF IInv, TypeOK
    <3>3. ReleasePending(m)
      BY DEF IInv
    <3>4. QED
      BY <2>2, <3>1, <3>2, <3>3 DEF ReleasePending, Releasing
  <2>3. QED
    BY <2>1, <2>2
<1>4. QED
  BY <1>1, <1>2, <1>3 DEF IInv

(* A statement outside the release keeps the account of its own channel if *)
(* it neither parks the channel nor writes its bridge.                     *)
LEMMA SamePending ==
  ASSUME IInv, NEW t \in Tasks, NEW label \in Labels,
         pc' = [pc EXCEPT ![t] = label], arg' = arg,
         pc[t] \notin {"relFwd", "relRev"},
         NEW new \in Channel,
         ch' = [ch EXCEPT ![arg[t]] = new],
         new.parked => ch[arg[t]].parked,
         new.fwd = ch[arg[t]].fwd, new.rev = ch[arg[t]].rev
  PROVE  ReleasePending(arg[t])'
<1>1. ch'[arg[t]] = new /\ arg[t] \in Motors
  BY DEF IInv, TypeOK
<1>2. \A u \in Tasks : pc[u] \in {"relFwd", "relRev"} => pc'[u] = pc[u]
  BY DEF IInv, TypeOK
<1>3. ReleasePending(arg[t])
  BY <1>1 DEF IInv
<1>4. QED
  BY <1>1, <1>2, <1>3 DEF ReleasePending, Releasing

(* Arming re-opens the window: a running hold only fits better.            *)
LEMMA ArmedInv ==
  ASSUME NEW c \in Channel, ChannelInv(c)
  PROVE  /\ Armed(c) \in Channel /\ ChannelInv(Armed(c)) /\ ~Armed(c).parked
         /\ Armed(c).fwd = c.fwd /\ Armed(c).rev = c.rev
         /\ Armed(c).goal = c.goal /\ Armed(c).stalled = c.stalled
         /\ Armed(c).recoverCnt = c.recoverCnt /\ Armed(c).stallWindow = 0
<1> DEFINE window == IF Reversal(c) THEN GraceReversal ELSE Grace
           z == 0
           d == [c EXCEPT !.stallWindow = z, !.judge = z]
           n == [d EXCEPT !.needTuning = TRUE, !.checkWindow = window,
                          !.parked = FALSE]
<1>1. Armed(c) = n
  BY DEF Armed
<1>2. window \in {Grace, GraceReversal}
  OBVIOUS
<1>3. z \in Int /\ z \in 0..GraceReversal /\ z = 0
  BY MotorLoopAssumption
<1> HIDE DEF window, z
<1>4. d \in Channel
  BY <1>3 DEF Channel
<1>5. /\ d.stallWindow = z /\ d.fwd = c.fwd /\ d.rev = c.rev /\ d.goal = c.goal
      /\ d.stalled = c.stalled /\ d.recoverCnt = c.recoverCnt
  BY DEF Channel
<1> HIDE DEF d
<1>6. n \in Channel
  BY <1>2, <1>4 DEF Channel
<1>7. /\ n.stallWindow = z /\ n.fwd = c.fwd /\ n.rev = c.rev /\ n.goal = c.goal
      /\ n.stalled = c.stalled /\ n.recoverCnt = c.recoverCnt /\ ~n.parked
  BY <1>4, <1>5 DEF Channel
<1> HIDE DEF n
<1>8. ChannelInv(n)
  BY <1>3, <1>6, <1>7, MotorLoopAssumption DEF ChannelInv, HoldFits, Channel
<1>9. QED
  BY <1>1, <1>3, <1>6, <1>7, <1>8

LEMMA ProceedInv ==
  ASSUME IInv, NEW t \in Tasks, Proceed(t)
  PROVE  IInv'
<1> DEFINE a == arg[t]
           c == ch[a]
<1>1. /\ a \in Motors /\ c \in Channel /\ ChannelInv(c) /\ ReleasePending(a)
      /\ ch \in [Motors -> Channel] /\ pc \in [Tasks -> Labels]
  BY DEF IInv, TypeOK
<1>2. CASE Unstall(t)
  <2> DEFINE new == [c EXCEPT !.stalled = FALSE]
  <2>1. new \in Channel /\ ChannelInv(new)
    BY <1>1 DEF Channel, ChannelInv, HoldFits
  <2>2. /\ new.parked = c.parked /\ new.fwd = c.fwd /\ new.rev = c.rev
    BY <1>1 DEF Channel
  <2>3. /\ ch' = [ch EXCEPT ![a] = new] /\ arg' = arg
        /\ pc' = [pc EXCEPT ![t] = "park"] /\ pc[t] = "unstall"
    BY <1>1, <1>2 DEF Unstall, Goto
  <2> HIDE DEF new
  <2>4. ReleasePending(a)'
    BY <2>1, <2>2, <2>3, SamePending DEF Labels
  <2>5. QED
    BY <2>1, <2>3, <2>4, StatementInv DEF Labels
<1>3. CASE Park(t)
  <2> DEFINE new == [c EXCEPT !.parked = TRUE]
  <2>1. new \in Channel /\ ChannelInv(new)
    BY <1>1 DEF Channel, ChannelInv, HoldFits
  <2>2. /\ ch' = [ch EXCEPT ![a] = new] /\ arg' = arg
        /\ pc' = [pc EXCEPT ![t] = "relFwd"]
    BY <1>1, <1>3 DEF Park, Goto
  <2> HIDE DEF new
  <2>3. ReleasePending(a)'
    <3>1. Releasing(a, {"relFwd"})' /\ Releasing(a, {"relFwd", "relRev"})'
      BY <1>1, <2>2 DEF Releasing
    <3>2. QED
      BY <3>1 DEF ReleasePending
  <2>4. QED
    BY <2>1, <2>2, <2>3, StatementInv DEF Labels
<1>4. CASE ReleaseFwd(t)
  <2> DEFINE new == [c EXCEPT !.fwd = 0]
  <2>1. new \in Channel /\ ChannelInv(new) /\ new.fwd = 0
    BY <1>1 DEF Channel, ChannelInv, HoldFits, Percent
  <2>2. /\ ch' = [ch EXCEPT ![a] = new] /\ arg' = arg
        /\ pc' = [pc EXCEPT ![t] = "relRev"]
    BY <1>1, <1>4 DEF ReleaseFwd, Goto
  <2> HIDE DEF new
  <2>3. ReleasePending(a)'
    <3>1. Releasing(a, {"relFwd", "relRev"})'
      BY <1>1, <2>2 DEF Releasing
    <3>2. ch'[a].fwd = 0
      BY <1>1, <2>1, <2>2
    <3>3. QED
      BY <2>2, <3>1, <3>2 DEF ReleasePending
  <2>4. QED
    BY <2>1, <2>2, <2>3, StatementInv DEF Labels
<1>5. CASE ReleaseRev(t)
  <2> DEFINE new == [c EXCEPT !.rev = 0]
  <2>1. /\ new \in Channel /\ ChannelInv(new) /\ new.rev = 0
        /\ new.fwd = c.fwd /\ new.parked = c.parked
    BY <1>1 DEF Channel, ChannelInv, HoldFits, Percent
  <2>2. /\ ch' = [ch EXCEPT ![a] = new] /\ arg' = arg
        /\ pc' = [pc EXCEPT ![t] = "idle"] /\ pc[t] = "relRev"
    BY <1>1, <1>5 DEF ReleaseRev, Goto
  <2> HIDE DEF new
  <2>3. ReleasePending(a)'
    <3>1. ch'[a] = new
      BY <1>1, <2>2
    <3>2. Releasing(a, {"relFwd"}) => Releasing(a, {"relFwd"})'
      BY <1>1, <2>2 DEF Releasing
    <3>3. QED
      BY <1>1, <2>1, <2>2, <3>1, <3>2 DEF ReleasePending
  <2>4. QED
    BY <2>1, <2>2, <2>3, StatementInv DEF Labels
<1>6. ASSUME NEW label \in Labels,
             pc' = [pc EXCEPT ![t] = label], UNCHANGED <<ch, arg>>,
             pc[t] \notin {"relFwd", "relRev"}
      PROVE  IInv'
  <2>1. ch' = [ch EXCEPT ![a] = c]
    BY <1>1, <1>6
  <2>2. ReleasePending(a)'
    BY <1>1, <1>6, <2>1, SamePending
  <2>3. QED
    BY <1>1, <1>6, <2>1, <2>2, StatementInv
<1>7. CASE TestStalled(t)
  BY <1>6, <1>7 DEF TestStalled, Goto, Labels
<1>8. CASE CheckHold(t)
  BY <1>6, <1>8 DEF CheckHold, Goto, Labels
<1> DEFINE armed == Armed(c)
<1>9. /\ armed \in Channel /\ ChannelInv(armed) /\ ~armed.parked
      /\ armed.fwd = c.fwd /\ armed.rev = c.rev /\ armed.goal = c.goal
      /\ armed.stalled = c.stalled /\ armed.recoverCnt = c.recoverCnt
      /\ armed.stallWindow = 0
  BY <1>1, ArmedInv
<1>10. CASE Arm(t)
  <2>1. /\ ch' = [ch EXCEPT ![a] = armed] /\ arg' = arg
        /\ pc' = [pc EXCEPT ![t] = "idle"] /\ pc[t] = "arm"
    BY <1>1, <1>10 DEF Arm, Goto
  <2> HIDE DEF armed
  <2>2. ReleasePending(a)'
    BY <1>9, <2>1, SamePending DEF Labels
  <2>3. QED
    BY <1>9, <2>1, <2>2, StatementInv DEF Labels
<1>11. CASE ArmStalled(t)
  <2> DEFINE swing == IF Reversal(c) THEN -c.goal ELSE c.goal
             new == [armed EXCEPT !.goal = swing]
  <2>1. /\ ch' = [ch EXCEPT ![a] = new] /\ arg' = arg
        /\ pc' = [pc EXCEPT ![t] = "idle"] /\ pc[t] = "armStalled"
    BY <1>1, <1>11 DEF ArmStalled, Swung, Goto
  <2> HIDE DEF armed
  <2>2. swing \in Goals /\ Abs(swing) = Abs(armed.goal)
    BY <1>1, <1>9 DEF Channel, Goals, Abs
  <2> HIDE DEF swing
  <2>3. /\ new \in Channel /\ ~new.parked
        /\ new.fwd = c.fwd /\ new.rev = c.rev /\ new.goal = swing
        /\ new.stalled = armed.stalled /\ new.recoverCnt = armed.recoverCnt
        /\ new.stallWindow = armed.stallWindow
    BY <1>9, <2>2 DEF Channel
  <2> HIDE DEF new
  <2>4. ChannelInv(new)
    BY <1>9, <2>2, <2>3 DEF ChannelInv, HoldFits
  <2>5. ReleasePending(a)'
    BY <2>1, <2>3, SamePending DEF Labels
  <2>6. QED
    BY <2>1, <2>3, <2>4, <2>5, StatementInv DEF Labels
<1>12. QED
  BY <1>2, <1>3, <1>4, <1>5, <1>7, <1>8, <1>10, <1>11 DEF Proceed

LEMMA CommandInv ==
  ASSUME IInv, NEW t \in Tasks, Command(t)
  PROVE  IInv'
<1>1. PICK m \in Motors, speed \in Speeds :
        /\ pc[t] = "idle" /\ arg' = [arg EXCEPT ![t] = m]
        /\ pc' = [pc EXCEPT ![t] = IF speed = 0 THEN "unstall" ELSE "test"]
        /\ ch' = [ch EXCEPT ![m].backup = GoalOf(speed)]
  BY DEF Command, Goto
<1> DEFINE c == ch[m]
           goal == GoalOf(speed)
           new == [c EXCEPT !.backup = goal]
<1>2. c \in Channel /\ ChannelInv(c) /\ goal \in Goals
  BY GoalOfType, MotorLoopAssumption DEF IInv, TypeOK
<1>3. ch' = [ch EXCEPT ![m] = new]
  BY <1>1
<1> HIDE DEF goal
<1>4. /\ new \in Channel /\ ChannelInv(new) /\ new.parked = c.parked
      /\ new.fwd = c.fwd /\ new.rev = c.rev
  BY <1>2 DEF Channel, ChannelInv, HoldFits
<1> HIDE DEF new
<1>5. TypeOK'
  BY <1>1, <1>3, <1>4 DEF IInv, TypeOK, Labels
<1>6. ASSUME NEW k \in Motors
      PROVE  /\ ChannelInv(ch[k])'
             /\ ch'[k].parked = ch[k].parked
             /\ ch'[k].fwd = ch[k].fwd /\ ch'[k].rev = ch[k].rev
  <2>1. CASE k = m
    <3>1. ch'[k] = new
      BY <1>3, <2>1 DEF IInv, TypeOK
    <3>2. QED
      BY <1>4, <2>1, <3>1 DEF ChannelInv, HoldFits
  <2>2. CASE k # m
    <3>1. ch'[k] = ch[k]
      BY <1>3, <2>2 DEF IInv, TypeOK
    <3>2. QED
      BY <3>1 DEF IInv, ChannelInv, HoldFits
  <2>3. QED
    BY <2>1, <2>2
<1>7. ASSUME NEW k \in Motors
      PROVE  ReleasePending(k)'
  <2>1. \A u \in Tasks : pc[u] \in {"relFwd", "relRev"} =>
                           pc'[u] = pc[u] /\ arg'[u] = arg[u]
    BY <1>1 DEF IInv, TypeOK
  <2>2. ReleasePending(k)
    BY DEF IInv
  <2>3. QED
    BY <1>6, <2>1, <2>2 DEF ReleasePending, Releasing
<1>8. QED
  BY <1>5, <1>6, <1>7 DEF IInv

-----------------------------------------------------------------------------
(* The theorems.                                                           *)

LEMMA InitInv == Init => IInv
<1> SUFFICES ASSUME Init PROVE IInv
  OBVIOUS
<1>1. Channel0 \in Channel
  BY MotorLoopAssumption DEF Channel0, Channel, Goals, Percent
<1>2. TypeOK
  BY <1>1 DEF Init, TypeOK, Labels
<1>3. \A m \in Motors : ChannelInv(ch[m]) /\ ReleasePending(m)
  BY DEF Init, Channel0, ChannelInv, HoldFits, ReleasePending
<1>4. QED
  BY <1>2, <1>3 DEF IInv

LEMMA NextInv == IInv /\ [Next]_vars => IInv'
<1> SUFFICES ASSUME IInv, [Next]_vars PROVE IInv'
  OBVIOUS
<1>1. CASE Tick
  BY <1>1, TickInv
<1>2. ASSUME NEW t \in Tasks, Command(t) PROVE IInv'
  BY <1>2, CommandInv
<1>3. ASSUME NEW t \in Tasks, Proceed(t) PROVE IInv'
  BY <1>3, ProceedInv
<1>4. CASE UNCHANGED vars
  BY <1>4 DEF vars, IInv, TypeOK, ChannelInv, HoldFits, ReleasePending, Releasing
<1>5. QED
  BY <1>1, <1>2, <1>3, <1>4 DEF Next

(* The inductive invariant holds throughout.                               *)
THEOREM Invariance == Spec => []IInv
BY InitInv, NextInv, PTL DEF Spec

(* The arrays keep their types: no goal, window or hold counter leaves the *)
(* range of its C type, so none of them wraps.                             *)
THEOREM TypeCorrect == Spec => []TypeOK
<1>1. IInv => TypeOK
  BY DEF IInv
<1>2. QED
  BY <1>1, Invariance, PTL

(* A parked channel nobody is in the middle of stopping is not powered,    *)
(* for any number of tasks commanding it.                                  *)
THEOREM ParkedIsReleased == Spec => []ParkedReleased
<1>1. IInv => ParkedReleased
  BY DEF IInv, ParkedReleased, ReleasePending, Releasing
<1>2. QED
  BY <1>1, Invariance, PTL

(* While a stall is flagged the working goal is within the floor.          *)
THEOREM StalledIsCut == Spec => []StalledGoalCut
<1>1. IInv => StalledGoalCut
  BY DEF IInv, StalledGoalCut, ChannelInv
<1>2. QED
  BY <1>1, Invariance, PTL

(* The recovery hold is always over before the next stall.                 *)
THEOREM HoldIsOver == Spec => []HoldBeforeStall
<1>1. IInv => HoldBeforeStall
  BY DEF IInv, HoldBeforeStall, ChannelInv
<1>2. QED
  BY <1>1, Invariance, PTL

(* No tick drives a stalled channel past a tenth of the integral clamp.    *)
THEOREM StallIsCapped == Spec => StallCapped
<1>1. IInv /\ [Next]_vars =>
        [Tick => \A m \in Motors :
           ch'[m].stalled /\ ~ch'[m].parked
             => ch'[m].fwd + ch'[m].rev <= IntegralMax \div 10]_vars
  BY TickInv
<1>2. QED
  BY <1>1, Invariance, PTL DEF Spec, StallCapped

-----------------------------------------------------------------------------
(* The ramp.  RampBounded is refuted when two tasks command one channel:   *)
(* between the test of the stall flag and the swing of the goal another    *)
(* command may turn the direction of a channel that runs freely again.     *)
(* One call at a time and channel is enough, whatever the ticks between.   *)

\* No two calls of set_motor are under way on one channel.
Alone ==
  \A t, u \in Tasks :
    t # u /\ pc[t] # "idle" /\ pc[u] # "idle" => arg[t] # arg[u]

\* A goal past the floor already has the direction of the command.
Turned(c) == Abs(c.goal) <= StallFloor \/ ~Reversal(c)

\* A task about to swing a goal finds one that may be swung: it was cut when
\* the flag was tested, and every tick since has moved it to the command.
SwingInv == \A t \in Tasks : pc[t] = "armStalled" => Turned(ch[arg[t]])

(* A reversal is a goal and a command of opposite directions.              *)
LEMMA ReversalMeans ==
  ASSUME NEW c \in Channel
  PROVE  Reversal(c) <=> \/ c.goal < 0 /\ c.backup > 0
                         \/ c.goal > 0 /\ c.backup < 0
<1> DEFINE g == Sign(c.goal)
           b == Sign(c.backup)
<1>1. c.goal \in Int /\ c.backup \in Int
  BY DEF Channel, Goals
<1>2. Reversal(c) <=> g * b < 0
  BY DEF Reversal
<1>3. /\ c.goal < 0 => g = -1
      /\ c.goal = 0 => g = 0
      /\ c.goal > 0 => g = 1
  BY <1>1 DEF Sign
<1>4. /\ c.backup < 0 => b = -1
      /\ c.backup = 0 => b = 0
      /\ c.backup > 0 => b = 1
  BY <1>1 DEF Sign
<1> HIDE DEF g, b
<1>5. CASE c.goal < 0
  BY <1>1, <1>2, <1>3, <1>4, <1>5
<1>6. CASE c.goal = 0
  BY <1>1, <1>2, <1>3, <1>4, <1>6
<1>7. CASE c.goal > 0
  BY <1>1, <1>2, <1>3, <1>4, <1>7
<1>8. QED
  BY <1>1, <1>5, <1>6, <1>7

(* Supervision moves the goal only to cut it, and then the flag is up.     *)
LEMMA StallCheckGoal ==
  ASSUME NEW c \in Channel, ChannelInv(c)
  PROVE  /\ StallCheck(c).backup = c.backup
         /\ \/ StallCheck(c).goal = c.goal
            \/ StallCheck(c).stalled /\ Abs(StallCheck(c).goal) <= StallFloor
<1> DEFINE window == c.stallWindow + 1
           hold == Hold(c)
           tuning == Retune(c)
           freed == Freed(c)
           jammed == Jammed(c)
           cut == CutGoal(c)
           flag == jammed \/ (c.stalled /\ ~freed)
           rest == IF freed THEN RecoverTicks ELSE hold
<1>1. CASE window <= c.checkWindow
  <2>1. StallCheck(c) = [c EXCEPT !.recoverCnt = hold, !.stallWindow = window,
                                  !.needTuning = tuning]
    BY <1>1 DEF StallCheck
  <2> HIDE DEF hold, window, tuning
  <2>2. QED
    BY <2>1 DEF Channel
<1>2. CASE ~(window <= c.checkWindow)
  <2>1. StallCheck(c) = [c EXCEPT !.recoverCnt = rest, !.stalled = flag,
                                  !.goal = cut, !.judge = 0, !.stallWindow = 0]
    BY <1>2 DEF StallCheck
  <2>2. jammed => Abs(cut) <= StallFloor
    BY MotorLoopAssumption DEF Channel, Goals, Abs, Sign, CutGoal
  <2>3. ~jammed => cut = c.goal
    BY DEF CutGoal
  <2>4. jammed \in BOOLEAN
    BY DEF Jammed
  <2> HIDE DEF rest, jammed, cut, freed
  <2>5. /\ StallCheck(c).backup = c.backup /\ StallCheck(c).goal = cut
        /\ StallCheck(c).stalled = flag
    BY <2>1 DEF Channel
  <2>6. QED
    BY <2>2, <2>3, <2>4, <2>5
<1>3. QED
  BY <1>1, <1>2

(* The ramp takes one step at most, toward the command.                    *)
LEMMA GoalRampGoal ==
  ASSUME NEW c \in Channel
  PROVE  /\ GoalRamp(c).backup = c.backup
         /\ GoalRamp(c).stalled = c.stalled
         /\ Abs(GoalRamp(c).goal - c.goal) <= RampStep
         /\ c.stalled => GoalRamp(c).goal = c.goal
         /\ Turned(c) => Turned(GoalRamp(c))
<1>1. c.goal \in Int /\ c.backup \in Int
  BY DEF Channel, Goals
<1>2. CASE ~c.needTuning \/ c.stalled
  <2>1. GoalRamp(c) = c
    BY <1>2 DEF GoalRamp
  <2>2. Abs(c.goal - c.goal) <= RampStep
    BY <1>1, MotorLoopAssumption DEF Abs
  <2>3. QED
    BY <2>1, <2>2
<1>3. CASE c.needTuning /\ ~c.stalled
  <2> DEFINE g == RampedGoal(c)
             tuning == c.backup # c.goal
             new == [c EXCEPT !.goal = g, !.needTuning = tuning]
  <2>1. GoalRamp(c) = new
    BY <1>3 DEF GoalRamp
  <2>2. /\ g \in Goals /\ Abs(g - c.goal) <= RampStep
        /\ c.backup >= c.goal => c.goal <= g /\ g <= c.backup
        /\ c.backup <= c.goal => c.backup <= g /\ g <= c.goal
    BY <1>1, MotorLoopAssumption DEF RampedGoal, Channel, Goals, Abs
  <2>3. tuning \in BOOLEAN
    OBVIOUS
  <2> HIDE DEF g, tuning
  <2>4. /\ new \in Channel /\ new.goal = g /\ new.backup = c.backup
        /\ new.stalled = c.stalled
    BY <2>2, <2>3 DEF Channel
  <2> HIDE DEF new
  <2>5. Reversal(new) <=> \/ g < 0 /\ c.backup > 0
                          \/ g > 0 /\ c.backup < 0
    BY <2>4, ReversalMeans
  <2>6. Reversal(c) <=> \/ c.goal < 0 /\ c.backup > 0
                        \/ c.goal > 0 /\ c.backup < 0
    BY ReversalMeans
  <2>7. ASSUME Turned(c), Reversal(new)
        PROVE  Abs(g) <= StallFloor
    <3>1. g \in Int
      BY <2>2 DEF Goals
    <3>2. Reversal(c) /\ Abs(g) <= Abs(c.goal)
      BY <1>1, <2>2, <2>5, <2>6, <2>7, <3>1 DEF Abs
    <3>3. QED
      BY <1>1, <2>7, <3>1, <3>2, MotorLoopAssumption DEF Turned, Abs
  <2>8. QED
    BY <1>3, <2>1, <2>2, <2>4, <2>7 DEF Turned
<1>4. QED
  BY <1>2, <1>3 DEF Channel

(* A whole tick does so too, unless the channel stalls or is parked.       *)
LEMMA TickedGoal ==
  ASSUME NEW c \in Channel, ChannelInv(c), NEW count \in Int
  PROVE  /\ \/ Abs(Ticked(c, count).goal - c.goal) <= RampStep
            \/ Ticked(c, count).stalled \/ Ticked(c, count).parked
         /\ Turned(c) => Turned(Ticked(c, count))
<1> DEFINE a == Sample(c, count)
           b == StallCheck(a)
           d == GoalRamp(b)
           e == Drive(d, count)
<1>1. /\ a \in Channel /\ ChannelInv(a)
      /\ a.goal = c.goal /\ a.backup = c.backup
  <2>1. a = [c EXCEPT !.judge = c.judge + count]
    BY DEF Sample
  <2>2. c.judge + count \in Int
    BY DEF Channel
  <2> HIDE DEF a
  <2>3. QED
    BY <2>1, <2>2 DEF Channel, ChannelInv, HoldFits
<1>2. Ticked(c, count) = e
  BY DEF Ticked
<1>3. e \in Channel
  BY <1>2, TickedInv
<1> HIDE DEF a
<1>4. /\ b \in Channel /\ ChannelInv(b) /\ b.backup = c.backup
      /\ b.goal = c.goal \/ (b.stalled /\ Abs(b.goal) <= StallFloor)
  BY <1>1, StallCheckInv, StallCheckGoal
<1>5. Turned(c) => Turned(b)
  <2>1. b.goal = c.goal => (Reversal(b) <=> Reversal(c))
    BY <1>4 DEF Reversal
  <2>2. QED
    BY <1>4, <2>1 DEF Turned
<1> HIDE DEF b
<1>6. /\ d \in Channel /\ d.backup = b.backup /\ d.stalled = b.stalled
      /\ ChannelInv(d)
      /\ Abs(d.goal - b.goal) <= RampStep /\ (Turned(b) => Turned(d))
  BY <1>4, GoalRampInv, GoalRampGoal
<1> HIDE DEF d
<1>7. CASE d.parked
  <2>1. e = [d EXCEPT !.parked = TRUE, !.goal = 0, !.integral = 0]
    BY <1>7 DEF Drive, ClrPID
  <2>2. e.parked /\ e.goal = 0
    BY <1>6, <2>1 DEF Channel
  <2> HIDE DEF e
  <2>3. Abs(e.goal) <= StallFloor
    BY <2>2, MotorLoopAssumption DEF Abs
  <2>4. QED
    BY <1>2, <2>2, <2>3 DEF Turned
<1>8. CASE ~d.parked
  <2> DEFINE err == d.goal - count
             sum == NextIntegral(d.integral, err)
             duty == Clamp(Duty(d, err, sum), 100)
             f == IF duty > 0 THEN duty ELSE 0
             r == IF duty < 0 THEN -duty ELSE 0
  <2>1. e = [[d EXCEPT !.integral = sum] EXCEPT !.fwd = f, !.rev = r]
    BY <1>8 DEF Drive, SpeedPID, Bridge
  <2> HIDE DEF sum, f, r
  <2>2. e.goal = d.goal /\ e.backup = d.backup /\ e.stalled = d.stalled
    BY <1>6, <2>1 DEF Channel
  <2> HIDE DEF e
  <2>3. Turned(d) => Turned(e)
    BY <2>2 DEF Turned, Reversal
  <2>4. QED
    BY <1>2, <1>4, <1>5, <1>6, <2>2, <2>3
<1>9. QED
  BY <1>7, <1>8

(* A statement of set_motor moves no goal and no command, but for a swing. *)
LEMMA ProceedGoal ==
  ASSUME IInv, NEW t \in Tasks, Proceed(t), NEW m \in Motors
  PROVE  /\ ch'[m].backup = ch[m].backup
         /\ \/ ch'[m].goal = ch[m].goal
            \/ /\ pc[t] = "armStalled" /\ arg[t] = m /\ Reversal(ch[m])
               /\ ch'[m].goal = -ch[m].goal
<1> DEFINE a == arg[t]
           c == ch[a]
<1>1. /\ a \in Motors /\ c \in Channel /\ ch[m] \in Channel
      /\ ch \in [Motors -> Channel]
  BY DEF IInv, TypeOK
<1>2. CASE Unstall(t)
  BY <1>1, <1>2 DEF Unstall, Channel
<1>3. CASE Park(t)
  BY <1>1, <1>3 DEF Park, Channel
<1>4. CASE ReleaseFwd(t)
  BY <1>1, <1>4 DEF ReleaseFwd, Channel
<1>5. CASE ReleaseRev(t)
  BY <1>1, <1>5 DEF ReleaseRev, Channel
<1>6. CASE TestStalled(t) \/ CheckHold(t)
  BY <1>6 DEF TestStalled, CheckHold
<1> DEFINE armed == Armed(c)
           window == IF Reversal(c) THEN GraceReversal ELSE Grace
<1>7. armed.goal = c.goal /\ armed.backup = c.backup /\ armed \in Channel
  <2>1. armed = [c EXCEPT !.stallWindow = 0, !.judge = 0, !.needTuning = TRUE,
                          !.checkWindow = window, !.parked = FALSE]
    BY DEF Armed
  <2>2. armed \in Channel
    BY <1>1, ArmedInv DEF IInv
  <2> HIDE DEF window, armed
  <2>3. QED
    BY <1>1, <2>1, <2>2 DEF Channel
<1>8. CASE Arm(t)
  <2>1. ch' = [ch EXCEPT ![a] = armed]
    BY <1>1, <1>8 DEF Arm
  <2> HIDE DEF armed
  <2>2. QED
    BY <1>1, <1>7, <2>1
<1>9. CASE ArmStalled(t)
  <2> DEFINE swing == IF Reversal(c) THEN -c.goal ELSE c.goal
             new == [armed EXCEPT !.goal = swing]
  <2>1. ch' = [ch EXCEPT ![a] = new] /\ pc[t] = "armStalled"
    BY <1>1, <1>9 DEF ArmStalled, Swung, Goto
  <2> HIDE DEF armed, swing
  <2>2. new.goal = swing /\ new.backup = c.backup
    BY <1>7 DEF Channel
  <2> HIDE DEF new
  <2>3. CASE m = a
    BY <1>1, <2>1, <2>2, <2>3 DEF swing
  <2>4. CASE m # a
    BY <1>1, <2>1, <2>4
  <2>5. QED
    BY <2>3, <2>4
<1>10. QED
  BY <1>2, <1>3, <1>4, <1>5, <1>6, <1>8, <1>9 DEF Proceed

(* A command moves no goal.                                                *)
LEMMA CommandGoal ==
  ASSUME IInv, NEW t \in Tasks, Command(t)
  PROVE  /\ pc[t] = "idle" /\ pc'[t] \in {"unstall", "test"}
         /\ \A u \in Tasks : u # t => pc'[u] = pc[u] /\ arg'[u] = arg[u]
         /\ arg'[t] \in Motors
         /\ \A m \in Motors : ch'[m].goal = ch[m].goal
         /\ \A m \in Motors : m # arg'[t] => ch'[m] = ch[m]
<1>1. PICK m \in Motors, speed \in Speeds :
        /\ pc[t] = "idle" /\ arg' = [arg EXCEPT ![t] = m]
        /\ pc' = [pc EXCEPT ![t] = IF speed = 0 THEN "unstall" ELSE "test"]
        /\ ch' = [ch EXCEPT ![m].backup = GoalOf(speed)]
  BY DEF Command, Goto
<1> DEFINE goal == GoalOf(speed)
           new == [ch[m] EXCEPT !.backup = goal]
<1>2. /\ ch \in [Motors -> Channel] /\ pc \in [Tasks -> Labels]
      /\ arg \in [Tasks -> Motors] /\ ch[m] \in Channel
  BY DEF IInv, TypeOK
<1>3. ch' = [ch EXCEPT ![m] = new]
  BY <1>1
<1> HIDE DEF goal
<1>4. new.goal = ch[m].goal
  BY <1>2 DEF Channel
<1> HIDE DEF new
<1>5. ASSUME NEW k \in Motors
      PROVE  /\ ch'[k].goal = ch[k].goal
             /\ k # m => ch'[k] = ch[k]
  BY <1>2, <1>3, <1>4
<1>6. QED
  BY <1>1, <1>2, <1>5

LEMMA SwingKept ==
  ASSUME IInv, SwingInv, Alone, Alone', [Next]_vars
  PROVE  SwingInv'
<1> SUFFICES ASSUME NEW t \in Tasks, pc'[t] = "armStalled"
             PROVE  Turned(ch[arg[t]])'
  BY DEF SwingInv
<1>1. CASE Tick
  <2>1. PICK counts \in [Motors -> Counts] :
          ch' = [m \in Motors |-> Ticked(ch[m], counts[m])]
    BY <1>1, TickIsTicked
  <2>2. UNCHANGED <<pc, arg>>
    BY <1>1, TickIsTicked
  <2>3. /\ arg[t] \in Motors /\ ch[arg[t]] \in Channel
        /\ ChannelInv(ch[arg[t]]) /\ counts[arg[t]] \in Int
    BY MotorLoopAssumption DEF IInv, TypeOK
  <2>4. Turned(ch[arg[t]])
    BY <2>2 DEF SwingInv
  <2>5. QED
    BY <2>1, <2>2, <2>3, <2>4, TickedGoal
<1>2. ASSUME NEW u \in Tasks, Command(u)
      PROVE  Turned(ch[arg[t]])'
  <2>1. u # t /\ pc[t] = "armStalled" /\ arg'[t] = arg[t]
    BY <1>2, CommandGoal
  <2>2. arg'[t] # arg'[u]
    BY <1>2, <2>1, CommandGoal DEF Alone
  <2>3. ch'[arg[t]] = ch[arg[t]]
    BY <1>2, <2>1, <2>2, CommandGoal DEF IInv, TypeOK
  <2>4. QED
    BY <2>1, <2>3 DEF SwingInv
<1>3. ASSUME NEW u \in Tasks, Proceed(u)
      PROVE  Turned(ch[arg[t]])'
  <2> DEFINE m == arg[t]
  <2>1. arg' = arg /\ m \in Motors /\ pc[u] # "idle"
    BY <1>3 DEF Proceed, Unstall, Park, ReleaseFwd, ReleaseRev, TestStalled,
                CheckHold, Arm, ArmStalled, Goto, IInv, TypeOK
  <2>2. CASE t # u
    <3>1. pc[t] = "armStalled"
      BY <1>3, <2>2 DEF Proceed, Unstall, Park, ReleaseFwd, ReleaseRev,
                        TestStalled, CheckHold, Arm, ArmStalled, Goto,
                        IInv, TypeOK
    <3>2. arg[u] # m
      BY <2>1, <2>2, <3>1 DEF Alone
    <3>3. ch'[m].goal = ch[m].goal /\ ch'[m].backup = ch[m].backup
      BY <1>3, <2>1, <3>2, ProceedGoal
    <3>4. Turned(ch[m])
      BY <3>1 DEF SwingInv
    <3>5. QED
      BY <2>1, <3>3, <3>4 DEF Turned, Reversal
  <2>3. CASE t = u
    <3>1. pc \in [Tasks -> Labels] /\ ch[m].stalled /\ UNCHANGED ch
      <4>1. pc \in [Tasks -> Labels]
        BY DEF IInv, TypeOK
      <4>2. TestStalled(t)
        BY <1>3, <2>3, <4>1
           DEF Proceed, Unstall, Park, ReleaseFwd, ReleaseRev,
               CheckHold, Arm, ArmStalled, Goto
      <4>3. QED
        BY <4>1, <4>2 DEF TestStalled, Goto
    <3>2. Abs(ch[m].goal) <= StallFloor
      BY <2>1, <3>1 DEF IInv, ChannelInv
    <3>3. QED
      BY <2>1, <3>1, <3>2 DEF Turned
  <2>4. QED
    BY <2>2, <2>3
<1>4. CASE UNCHANGED vars
  BY <1>4 DEF vars, SwingInv, Turned, Reversal
<1>5. QED
  BY <1>1, <1>2, <1>3, <1>4 DEF Next

(* What RampBounded says of one step.                                      *)
LEMMA RampStepBounded ==
  ASSUME IInv, SwingInv, [Next]_vars, NEW m \in Motors
  PROVE  \/ Abs(ch'[m].goal - ch[m].goal) <= RampStep
         \/ ch'[m].stalled \/ ch'[m].parked
         \/ ch'[m].goal = -ch[m].goal /\ Abs(ch[m].goal) <= StallFloor
<1>1. ch[m] \in Channel /\ ChannelInv(ch[m]) /\ ch[m].goal \in Int
  BY DEF IInv, TypeOK, Channel, Goals
<1>2. ASSUME ch'[m].goal = ch[m].goal
      PROVE  Abs(ch'[m].goal - ch[m].goal) <= RampStep
  BY <1>1, <1>2, MotorLoopAssumption DEF Abs
<1>3. CASE Tick
  <2>1. PICK counts \in [Motors -> Counts] :
          ch' = [k \in Motors |-> Ticked(ch[k], counts[k])]
    BY <1>3, TickIsTicked
  <2>2. ch'[m] = Ticked(ch[m], counts[m]) /\ counts[m] \in Int
    BY <2>1, MotorLoopAssumption
  <2>3. QED
    BY <1>1, <2>2, TickedGoal
<1>4. ASSUME NEW t \in Tasks, Command(t)
      PROVE  Abs(ch'[m].goal - ch[m].goal) <= RampStep
  BY <1>2, <1>4, CommandGoal
<1>5. ASSUME NEW t \in Tasks, Proceed(t)
      PROVE  \/ Abs(ch'[m].goal - ch[m].goal) <= RampStep
             \/ ch'[m].goal = -ch[m].goal /\ Abs(ch[m].goal) <= StallFloor
  <2>1. CASE ch'[m].goal = ch[m].goal
    BY <1>2, <2>1
  <2>2. CASE ch'[m].goal # ch[m].goal
    <3>1. /\ pc[t] = "armStalled" /\ arg[t] = m /\ Reversal(ch[m])
          /\ ch'[m].goal = -ch[m].goal
      BY <1>5, <2>2, ProceedGoal
    <3>2. Turned(ch[m])
      BY <3>1 DEF SwingInv
    <3>3. QED
      BY <3>1, <3>2 DEF Turned
  <2>3. QED
    BY <2>1, <2>2
<1>6. CASE UNCHANGED vars
  BY <1>2, <1>6 DEF vars
<1>7. QED
  BY <1>3, <1>4, <1>5, <1>6 DEF Next

(* The goal of a running, unobstructed channel moves by at most one ramp   *)
(* step as long as no two tasks command one channel at a time.             *)
THEOREM RampIsBounded == Spec /\ []Alone => RampBounded
<1>1. Init => SwingInv
  BY DEF Init, SwingInv
<1>2. IInv /\ SwingInv /\ Alone /\ Alone' /\ [Next]_vars => SwingInv'
  BY SwingKept
<1>3. IInv /\ SwingInv /\ [Next]_vars =>
        [\A m \in Motors :
           Abs(ch'[m].goal - ch[m].goal) <= RampStep
           \/ ch'[m].stalled \/ ch'[m].parked
           \/ (ch'[m].goal = -ch[m].goal /\ Abs(ch[m].goal) <= StallFloor)]_vars
  BY RampStepBounded
<1>4. QED
  BY <1>1, <1>2, <1>3, Invariance, PTL DEF Spec, RampBounded

(* So it does in a program with one task that drives.                      *)
THEOREM OneTaskRamps ==
  ASSUME \A t, u \in Tasks : t = u
  PROVE  Spec => RampBounded
<1>1. Alone
  BY DEF Alone
<1>2. QED
  BY <1>1, RampIsBounded, PTL

=============================================================================
