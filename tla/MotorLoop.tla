------------------------------ MODULE MotorLoop ------------------------------
(***************************************************************************)
(* The closed motor loop of runtime/open_core/wb_control.c.                *)
(*                                                                         *)
(* Two kinds of actors share the state of a motor channel: user tasks that *)
(* call set_motor(), preemptible between any two of its statements, and    *)
(* the 100 Hz TIM6 interrupt, which samples the encoders and runs stall    *)
(* supervision, goal ramp and PI pass to completion.  A task is a program  *)
(* counter inside set_motor(); the interrupt is one action.                *)
(*                                                                         *)
(* A channel is a record.  Its fields are the slots of the source's arrays *)
(*   backup      s_iBackupGoal    commanded goal, speed*0.64 units         *)
(*   goal        s_iGoal          ramped working goal                      *)
(*   integral    s_iIntegral      PI accumulator                           *)
(*   needTuning  s_chNeedTuning   a ramp is pending                        *)
(*   stalled     s_chStalled      P term off, ramp off                     *)
(*   recoverCnt  s_chRecoverCnt   ticks left of the post-stall hold        *)
(*   stallWindow s_hwStallWindow  ticks since the last check or command    *)
(*   checkWindow s_hwCheckWindow  ticks without a check                    *)
(*   judge       s_wJudge - 32767 encoder counts since the last check      *)
(*   parked      s_chMotorRun     the loop is parked (the flag is set!)    *)
(*   fwd, rev    the two compare registers of the bridge, in percent       *)
(* The derivative history (gain 0), s_chStallAction (never read) and the   *)
(* direction table (never written) have no effect and are left out.        *)
(***************************************************************************)
EXTENDS Integers

CONSTANTS
  Tasks,         (* user tasks that call set_motor                        *)
  Motors,        (* motor channels; A..D in the code                      *)
  Speeds,        (* speed arguments of the calls, in percent              *)
  Counts,        (* encoder counts one tick may sample                    *)
  RampStep,      (* goal units per tick: 20                               *)
  Grace,         (* ticks of grace after a command: 50                    *)
  GraceReversal, (* ticks of grace after a reversal: 100                  *)
  RecoverTicks,  (* post-recovery hold: 25                                *)
  StallCounts,   (* movement up to this is no movement: 20                *)
  StallFloor,    (* goals up to this never stall: 5                       *)
  IntegralMax    (* clamp of the accumulator: 250                         *)

ASSUME MotorLoopAssumption ==
  /\ Speeds \subseteq Int
  /\ Counts \subseteq Int
  /\ RampStep \in Nat /\ StallCounts \in Nat /\ StallFloor \in Nat
  /\ IntegralMax \in Nat
  /\ Grace \in Nat /\ GraceReversal \in Nat /\ Grace <= GraceReversal
  /\ RecoverTicks \in Nat /\ RecoverTicks <= Grace

VARIABLES
  ch,  (* ch[m]: the record of channel m                                  *)
  pc,  (* pc[t]: where task t is inside set_motor, or "idle"              *)
  arg  (* arg[t]: the channel task t commands                             *)

vars == <<ch, pc, arg>>

Labels == {"idle", "unstall", "park", "relFwd", "relRev",
           "test", "checkHold", "arm", "armStalled"}

-----------------------------------------------------------------------------
(* Arithmetic of the C code.                                               *)

Abs(x) == IF x < 0 THEN -x ELSE x

Sign(x) == IF x > 0 THEN 1 ELSE IF x < 0 THEN -1 ELSE 0

\* C division truncates toward zero.
Quot(x, d) == IF x >= 0 THEN x \div d ELSE -((-x) \div d)

Clamp(x, bound) == IF x > bound THEN bound ELSE IF x < -bound THEN -bound ELSE x

\* The int16_t cast of the commanded goal.
Int16(x) == ((x + 32768) % 65536) - 32768

GoalOf(speed) == Int16(Quot(speed * 64, 100))

-----------------------------------------------------------------------------
(* The interrupt's passes, each a function from a channel to a channel.    *)

\* (mutant) the duty reaches the bridge unclamped
BridgeUnclamped(c, duty) ==
  [c EXCEPT !.fwd = IF duty > 0 THEN duty ELSE 0,
            !.rev = IF duty < 0 THEN -duty ELSE 0]

\* set_motor_new: one half of the bridge drives, the other is released.
Bridge(c, duty) ==
  LET d == Clamp(duty, 100)
  IN [c EXCEPT !.fwd = IF d > 0 THEN d ELSE 0,
               !.rev = IF d < 0 THEN -d ELSE 0]

\* (mutant) the recovery hold is never counted down
HoldForever(c) == c.recoverCnt

Hold(c) == IF c.recoverCnt > 0 THEN c.recoverCnt - 1 ELSE 0

\* (mutant) the grace window does not re-arm the ramp
RetuneNever(c) == c.needTuning

Retune(c) == c.needTuning \/ (~c.stalled /\ Hold(c) = 0)

Jammed(c) == Abs(c.judge) <= StallCounts /\ Abs(c.goal) > StallFloor

Freed(c) == Abs(c.judge) > StallCounts /\ c.stalled

\* (mutant) a stall leaves the goal where it is
UncutGoal(c) == c.goal

CutGoal(c) == IF Jammed(c) THEN Sign(c.goal) * StallFloor ELSE c.goal

StallCheck(c) ==
  LET window == c.stallWindow + 1
  IN IF window <= c.checkWindow
     THEN [c EXCEPT !.recoverCnt = Hold(c),
                    !.stallWindow = window,
                    !.needTuning = Retune(c)]
     ELSE [c EXCEPT !.recoverCnt = IF Freed(c) THEN RecoverTicks ELSE Hold(c),
                    !.stalled = Jammed(c) \/ (@ /\ ~Freed(c)),
                    !.goal = CutGoal(c),
                    !.judge = 0,
                    !.stallWindow = 0]

\* (mutant) the goal jumps to the command
JumpedGoal(c) == c.backup

\* One step of at most RampStep toward the command.
RampedGoal(c) ==
  IF c.backup > c.goal
  THEN IF c.backup - c.goal > RampStep THEN c.goal + RampStep ELSE c.backup
  ELSE IF c.goal - c.backup > RampStep THEN c.goal - RampStep ELSE c.backup

GoalRamp(c) ==
  IF ~c.needTuning \/ c.stalled
  THEN c
  ELSE [c EXCEPT !.goal = RampedGoal(c), !.needTuning = c.backup # c.goal]

\* The integral after one error sample: dead band, clamp, sign kick.
NextIntegral(integral, err) ==
  LET sum == IF Abs(err) > 3 THEN Clamp(integral + err, IntegralMax) ELSE integral
      kicked == (err < -2 /\ sum > 0) \/ (err > 2 /\ sum < 0)
  IN IF kicked THEN 0 ELSE sum

\* (mutant) the P term stays on during a stall
FullDuty(c, err, sum) == err * 5 + Quot(sum, 10)

Duty(c, err, sum) == (IF c.stalled THEN 0 ELSE err * 5) + Quot(sum, 10)

SpeedPID(c, count) ==
  LET err == c.goal - count
      sum == NextIntegral(c.integral, err)
  IN Bridge([c EXCEPT !.integral = sum], Duty(c, err, sum))

ClrPID(c) == [c EXCEPT !.parked = TRUE, !.goal = 0, !.integral = 0]

Sample(c, count) == [c EXCEPT !.judge = @ + count]

Drive(c, count) == IF c.parked THEN ClrPID(c) ELSE SpeedPID(c, count)

-----------------------------------------------------------------------------
(* pwm_init and init_control_tab: every channel parked, bridge released.   *)

Channel0 ==
  [backup |-> 0, goal |-> 0, integral |-> 0, needTuning |-> FALSE,
   stalled |-> FALSE, recoverCnt |-> 0, stallWindow |-> 0,
   checkWindow |-> Grace, judge |-> 0, parked |-> TRUE, fwd |-> 0, rev |-> 0]

Init ==
  /\ ch = [m \in Motors |-> Channel0]
  /\ pc = [t \in Tasks |-> "idle"]
  /\ arg \in [Tasks -> Motors]

(* TIM6_IRQHandler: one loop over the channels per pass, each bound to the *)
(* value the next one reads.  The encoders may report any sample.          *)
Tick ==
  /\ \E counts \in [Motors -> Counts] :
     \E sampled \in {[m \in Motors |-> Sample(ch[m], counts[m])]} :
     \E checked \in {[m \in Motors |-> StallCheck(sampled[m])]} :
     \E ramped \in {[m \in Motors |-> GoalRamp(checked[m])]} :
       ch' = [m \in Motors |-> Drive(ramped[m], counts[m])]
  /\ UNCHANGED <<pc, arg>>

-----------------------------------------------------------------------------
(* set_motor, statement by statement.                                      *)

Goto(t, from, to) ==
  /\ pc[t] = from
  /\ pc' = [pc EXCEPT ![t] = to]

\* The call, up to the store of the commanded goal.
Command(t) ==
  \E m \in Motors, speed \in Speeds :
    /\ Goto(t, "idle", IF speed = 0 THEN "unstall" ELSE "test")
    /\ arg' = [arg EXCEPT ![t] = m]
    /\ ch' = [ch EXCEPT ![m].backup = GoalOf(speed)]

\* Speed 0: the stall flag clears ...
Unstall(t) ==
  /\ Goto(t, "unstall", "park")
  /\ ch' = [ch EXCEPT ![arg[t]].stalled = FALSE]
  /\ UNCHANGED arg

\* ... the loop parks ...
Park(t) ==
  /\ Goto(t, "park", "relFwd")
  /\ ch' = [ch EXCEPT ![arg[t]].parked = TRUE]
  /\ UNCHANGED arg

\* ... and the two halves of the bridge are released one after the other.
\* (mutant) the stop returns after the first half
ReleaseHalf(t) ==
  /\ Goto(t, "relFwd", "idle")
  /\ ch' = [ch EXCEPT ![arg[t]].fwd = 0]
  /\ UNCHANGED arg

ReleaseFwd(t) ==
  /\ Goto(t, "relFwd", "relRev")
  /\ ch' = [ch EXCEPT ![arg[t]].fwd = 0]
  /\ UNCHANGED arg

ReleaseRev(t) ==
  /\ Goto(t, "relRev", "idle")
  /\ ch' = [ch EXCEPT ![arg[t]].rev = 0]
  /\ UNCHANGED arg

\* A nonzero speed reads the stall flag, then the hold counter.
TestStalled(t) ==
  /\ Goto(t, "test", IF ch[arg[t]].stalled THEN "armStalled" ELSE "checkHold")
  /\ UNCHANGED <<ch, arg>>

\* A running hold skips the arming: the call returns.
CheckHold(t) ==
  /\ Goto(t, "checkHold", IF ch[arg[t]].recoverCnt = 0 THEN "arm" ELSE "idle")
  /\ UNCHANGED <<ch, arg>>

Reversal(c) == Sign(c.goal) * Sign(c.backup) < 0

Armed(c) ==
  [c EXCEPT !.stallWindow = 0, !.judge = 0, !.needTuning = TRUE,
            !.checkWindow = IF Reversal(c) THEN GraceReversal ELSE Grace,
            !.parked = FALSE]

\* On a stalled channel a reversal also flips the cut goal.
Swung(c) == [Armed(c) EXCEPT !.goal = IF Reversal(c) THEN -c.goal ELSE c.goal]

\* Both arming blocks run with interrupts disabled.
Arm(t) ==
  /\ Goto(t, "arm", "idle")
  /\ ch' = [ch EXCEPT ![arg[t]] = Armed(@)]
  /\ UNCHANGED arg

ArmStalled(t) ==
  /\ Goto(t, "armStalled", "idle")
  /\ ch' = [ch EXCEPT ![arg[t]] = Swung(@)]
  /\ UNCHANGED arg

\* The rest of a call that has begun.
Proceed(t) ==
  \/ Unstall(t) \/ Park(t) \/ ReleaseFwd(t) \/ ReleaseRev(t)
  \/ TestStalled(t) \/ CheckHold(t) \/ Arm(t) \/ ArmStalled(t)

Next == Tick \/ \E t \in Tasks : Command(t) \/ Proceed(t)

Spec == Init /\ [][Next]_vars

(* TIM6 is a free-running timer and the kernel time-slices tasks of equal  *)
(* priority, so neither the tick nor a task inside a call starves.         *)
FairSpec == Spec /\ WF_vars(Tick) /\ \A t \in Tasks : WF_vars(Proceed(t))

-----------------------------------------------------------------------------
(* Properties.                                                             *)

Percent == 0..100

\* What an int16_t holds, and its negation.
Goals == {x \in Int : -32768 <= x /\ x <= 32768}

Channel ==
  [backup: Goals, goal: Goals,
   integral: -IntegralMax..IntegralMax, needTuning: BOOLEAN,
   stalled: BOOLEAN, recoverCnt: 0..RecoverTicks,
   stallWindow: 0..GraceReversal, checkWindow: {Grace, GraceReversal},
   judge: Int, parked: BOOLEAN, fwd: Percent, rev: Percent]

(* The types of the arrays; the window of stall supervision never runs     *)
(* past its longest grace period, so its uint16_t counter cannot wrap.     *)
TypeOK ==
  /\ ch \in [Motors -> Channel]
  /\ pc \in [Tasks -> Labels]
  /\ arg \in [Tasks -> Motors]

Releasing(m, labels) == \E t \in Tasks : arg[t] = m /\ pc[t] \in labels

(* A parked channel whose bridge still drives is one a task is in the      *)
(* middle of stopping: no interleaving of tasks and ticks leaves a stopped *)
(* motor powered.                                                          *)
ParkedReleased ==
  \A m \in Motors :
    ch[m].parked /\ ~Releasing(m, {"relFwd", "relRev"})
      => ch[m].fwd = 0 /\ ch[m].rev = 0

(* While a stall is flagged the working goal stays within the floor, even  *)
(* across re-arming commands and reversals, so that the drive does not     *)
(* jump when the obstruction goes away.                                    *)
StalledGoalCut ==
  \A m \in Motors : ch[m].stalled => Abs(ch[m].goal) <= StallFloor

(* The recovery hold of Stall_Check is over before a stall can be flagged  *)
(* again, whatever commands re-open the window meanwhile.                  *)
HoldBeforeStall ==
  \A m \in Motors : ch[m].stalled => ch[m].recoverCnt = 0

(* Speed_PID's claim: a tick never drives a stalled channel harder than    *)
(* integral/10 (25 percent), "never a full-power stall".                   *)
StallCapped ==
  [][Tick => \A m \in Motors :
       ch'[m].stalled /\ ~ch'[m].parked
         => ch'[m].fwd + ch'[m].rev <= IntegralMax \div 10]_vars

(* The working goal of a running, unobstructed channel moves by at most    *)
(* one ramp step whatever the tasks command: only a stall cut, a flip of   *)
(* the cut goal or parking may move it otherwise.                          *)
RampBounded ==
  [][\A m \in Motors :
       Abs(ch'[m].goal - ch[m].goal) <= RampStep
       \/ ch'[m].stalled \/ ch'[m].parked
       \/ (ch'[m].goal = -ch[m].goal /\ Abs(ch[m].goal) <= StallFloor)]_vars

(* A running channel reaches the commanded goal unless it stalls, is       *)
(* stopped or is commanded anew: no order of command stores, skipped       *)
(* armings and holds loses the ramp.                                       *)
GoalReached ==
  \A m \in Motors : \A goal \in {GoalOf(speed) : speed \in Speeds} :
    (~ch[m].parked /\ ch[m].backup = goal)
      ~> \/ ch[m].goal = goal
         \/ ch[m].stalled \/ ch[m].parked \/ ch[m].backup # goal

(* What set_motor's comment says of a stop: "the stall flag clears".  Once *)
(* the call has returned a parked channel is not flagged.                  *)
StopClearsStall ==
  \A m \in Motors :
    ch[m].parked /\ (\A t \in Tasks : pc[t] = "idle") => ~ch[m].stalled

(* What the API promises of set_motor: a nonzero speed runs the motor.     *)
CommandRuns ==
  \A m \in Motors :
    (ch[m].backup # 0 /\ \A t \in Tasks : pc[t] = "idle")
      ~> (~ch[m].parked \/ ch[m].backup = 0)

=============================================================================
