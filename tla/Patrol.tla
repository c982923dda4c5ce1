--------------------------------- MODULE Patrol ---------------------------------
(***************************************************************************)
(* The line-following engine of patrol.c: the ladder that turns the        *)
(* readings of three inner sensors into a drive, the memory of where the   *)
(* line was (flag, flag2, js), and the drives to a junction or for a time. *)
(*                                                                         *)
(* A drive is a pair of percentages of the nominal speed, which is         *)
(* positive.  Inner sensors read percentages of their calibration, outer   *)
(* ones whether they are over their threshold; whatever track the robot is *)
(* on, a reading is any of a small set.  One task drives at a time.        *)
(***************************************************************************)
EXTENDS Integers

CONSTANTS
  Percents,  (* readings of the inner sensors                              *)
  Hold,      (* 350: on-line ticks until an outer latch is given up        *)
  Cap,       (* 5000: where js saturates                                   *)
  Near,      (* 0.07 s: a crossing's two lines are at most this far apart  *)
  EndOfTime  (* bound: the clock of a drive stops here                     *)

Never1 == -6000
Never5 == -5000

ASSUME PatrolAssumption ==
  /\ Percents \subseteq Int
  /\ Hold \in Nat \ {0} /\ Cap \in Nat /\ Hold <= Cap
  /\ Near \in Nat /\ Near < Never5 - Never1 /\ EndOfTime \in Nat

VARIABLES
  flag,         (* the line was last: 0 centred, 1 left, 2 right, 3 near   *)
  flag1,        (* whether the first slow ticks of a sequence are done     *)
  flag2,        (* the outer sensor latched last: 0 none, 1 left, 2 right  *)
  js,           (* on-line ticks counted while one is latched              *)
  left, right,  (* the drive commanded last                                *)
  op,           (* the drive under way, and its stage                      *)
  junction,     (* k of patrol_until_junction: 0 left, 1 cross, 2 right,   *)
                (* 3 the inner pair                                        *)
  t1, t5,       (* when its two lines were seen last                       *)
  now,          (* its clock                                               *)
  since,        (* history: on-line ticks since an outer sensor fired      *)
  blind         (* history: the follower has not steered since a drive of  *)
                (* another kind                                            *)

memory == <<flag, flag1, flag2, js>>
drive == <<op, junction, t1, t5, now>>
vars == <<memory, left, right, drive, since, blind>>

Least(a, b) == IF a < b THEN a ELSE b
Most(a, b) == IF a < b THEN b ELSE a
Gap(a, b) == Most(a, b) - Least(a, b)

Init ==
  /\ flag = 0 /\ flag1 = 0 /\ flag2 = 0 /\ js = 0
  /\ left = 0 /\ right = 0
  /\ op = "rest" /\ junction = 0 /\ t1 = Never1 /\ t5 = Never5 /\ now = 0
  /\ since = 0 /\ blind = TRUE

-----------------------------------------------------------------------------
(* patrol_follow.                                                          *)

\* The outer sensors: f1 and f5 say which fired, l which is checked last and
\* so wins when both do.  An old latch is given up.
\* (mutant) a latch that is renewed keeps its count
OuterRenewed(l, f1, f5) ==
  IF f1 \/ f5
  THEN [latch |-> IF f5 /\ (l = 0 \/ ~f1) THEN 2 ELSE 1, js |-> js]
  ELSE IF js >= Hold THEN [latch |-> 0, js |-> 0] ELSE [latch |-> flag2, js |-> js]

Outer(l, f1, f5) ==
  IF f1 \/ f5
  THEN [latch |-> IF f5 /\ (l = 0 \/ ~f1) THEN 2 ELSE 1, js |-> 0]
  ELSE IF js >= Hold THEN [latch |-> 0, js |-> 0] ELSE [latch |-> flag2, js |-> js]

\* js_latch.
JsLatch(o) == Least(IF o.latch > 0 THEN o.js + 1 ELSE o.js, Cap)

Remember(f1, f5, online) ==
  since' = Least((IF f1 \/ f5 THEN 0 ELSE since) + (IF online THEN 1 ELSE 0), Cap)

\* A tick with the line under the inner sensors: l and r are driven.
OnLine(o, f1, f5, l, r, where) ==
  /\ left' = l /\ right' = r /\ flag' = where
  /\ flag2' = o.latch /\ js' = JsLatch(o)
  /\ blind' = FALSE /\ Remember(f1, f5, TRUE)
  /\ UNCHANGED flag1

\* The rungs: 85 above 75, 80 above 70 and so on by fives ...
Rung(p) == 5 * ((p - 1) \div 5) + 10

\* ... and the last ones, by the sensor beside the middle.
LastRung(p) == Most(-10, Least(10, 5 * ((p - 1) \div 10) - 25))

Centred(p2, p3, p4) == p3 > 80 \/ (p3 >= p2 /\ p3 >= p4 /\ p3 > 20)

\* The slow wheel of a centred tick; the right ladder lacks the left's rung
\* above 35.
SlowWheel(p3, gap, lowest) ==
  IF p3 > 80 THEN 95 - 5 * Least(gap \div 20, 3)
             ELSE IF p3 > lowest THEN Rung(p3) ELSE 40

FollowCentred(o, f1, f5, p2, p3, p4) ==
  /\ Centred(p2, p3, p4)
  /\ \/ /\ p2 > p4 /\ p2 > 5
        /\ OnLine(o, f1, f5, SlowWheel(p3, p2 - p4, 35), 100, 3)
     \/ /\ p4 > p2 /\ p4 > 5
        /\ OnLine(o, f1, f5, 100, SlowWheel(p3, p4 - p2, 40), 3)
     \/ /\ ~(p2 > p4 /\ p2 > 5) /\ ~(p4 > p2 /\ p4 > 5)
        /\ OnLine(o, f1, f5, 100, 100, 0)

FollowLeft(o, f1, f5, p2, p3, p4) ==
  /\ ~Centred(p2, p3, p4) /\ p2 > p4 /\ p2 > 25
  /\ OnLine(o, f1, f5, IF p3 > 10 THEN Least(70, Rung(p3)) ELSE LastRung(p2), 100,
            IF p3 > 30 THEN 3 ELSE 1)

\* (mutant) the flag of the left branch, copied
FollowRightCopied(o, f1, f5, p2, p3, p4) ==
  /\ ~Centred(p2, p3, p4) /\ p4 > p2 /\ p4 > 25
  /\ OnLine(o, f1, f5, 100, IF p3 > 5 THEN Least(70, Rung(p3)) ELSE LastRung(p4),
            IF p3 > 30 THEN 3 ELSE 1)

(* The right ladder has one rung more, above 5.                            *)
FollowRight(o, f1, f5, p2, p3, p4) ==
  /\ ~Centred(p2, p3, p4) /\ p4 > p2 /\ p4 > 25
  /\ OnLine(o, f1, f5, 100, IF p3 > 5 THEN Least(70, Rung(p3)) ELSE LastRung(p4),
            IF p3 > 30 THEN 3 ELSE 2)

\* What is driven with the line lost: the memory decides; g1 and g5 are the
\* outer sensors, read once more.  Some readings drive nothing.
LostDrive(latch, p2, p4, g1, g5) ==
  CASE latch = 1 /\ p2 < 5 -> <<-30, 100>>
    [] latch = 2 /\ p4 < 5 -> <<100, -30>>
    [] OTHER ->
       CASE flag = 1 -> IF p2 > 10 THEN <<-15, 100>>
                        ELSE IF p2 > 5 THEN <<-20, 100>> ELSE <<left, right>>
         [] flag = 2 -> IF p4 > 10 THEN <<100, -15>>
                        ELSE IF p4 > 5 THEN <<100, -20>> ELSE <<left, right>>
         [] OTHER -> IF g1 THEN <<-30, 100>>
                     ELSE IF g5 THEN <<100, -30>> ELSE <<left, right>>

FollowLost(o, f1, f5, p2, p3, p4) ==
  /\ ~Centred(p2, p3, p4)
  /\ ~(p2 > p4 /\ p2 > 25) /\ ~(p4 > p2 /\ p4 > 25)
  /\ \E g1, g5 \in BOOLEAN :
       LET d == LostDrive(o.latch, p2, p4, g1, g5) IN
       /\ left' = d[1] /\ right' = d[2]
       /\ blind' = (blind /\ d = <<left, right>>)
  /\ flag2' = o.latch /\ js' = o.js
  /\ Remember(f1, f5, FALSE)
  /\ UNCHANGED <<flag, flag1>>

PatrolFollow(l) ==
  \E p2, p3, p4 \in Percents, f1, f5 \in BOOLEAN :
    LET o == Outer(l, f1, f5) IN
    \/ FollowCentred(o, f1, f5, p2, p3, p4)
    \/ FollowLeft(o, f1, f5, p2, p3, p4)
    \/ FollowRight(o, f1, f5, p2, p3, p4)
    \/ FollowLost(o, f1, f5, p2, p3, p4)

-----------------------------------------------------------------------------
(* The drives.                                                             *)

\* yd by the drive itself, not by the follower.
Yd(l, r) == left' = l /\ right' = r /\ blind' = TRUE

(* patrol_speed: one tick, called by the program.                          *)
PatrolSpeed == op = "rest" /\ PatrolFollow(1) /\ UNCHANGED drive

(* patrol_init_engine: the outer latch and its count stay.                 *)
InitEngine ==
  /\ op = "rest"
  /\ flag' = 0 /\ flag1' = 0
  /\ UNCHANGED <<flag2, js, left, right, drive, since, blind>>

\* The first drive of a sequence creeps for a moment, if it is to be fast.
Creeps == IF flag1 = 0 THEN {TRUE, FALSE} ELSE {FALSE}

\* (mutant) both lines start as seen at the same time
UntilJunctionAlike(k) ==
  /\ op = "rest" /\ Yd(100, 100)
  /\ \E creep \in Creeps : op' = IF creep THEN "creep" ELSE "seek"
  /\ junction' = k /\ t1' = Never1 /\ t5' = Never1 /\ now' = 0
  /\ UNCHANGED <<memory, since>>

(* patrol_until_junction begins.                                           *)
UntilJunction(k) ==
  /\ op = "rest" /\ Yd(100, 100)
  /\ \E creep \in Creeps : op' = IF creep THEN "creep" ELSE "seek"
  /\ junction' = k /\ t1' = Never1 /\ t5' = Never5 /\ now' = 0
  /\ UNCHANGED <<memory, since>>

(* Its slow ticks: at least one, until an outer sensor fires or 0.1 s.     *)
Creep ==
  /\ op = "creep" /\ PatrolFollow(junction)
  /\ op' \in {"creep", "seek"}
  /\ UNCHANGED <<junction, t1, t5, now>>

Met == Gap(t1, t5) <= Near

(* One round of the search for two lines: each sensor that fires notes the *)
(* time, and the follower ticks.                                           *)
SeekBoth ==
  /\ op = "seek" /\ junction \in {1, 3} /\ ~Met
  /\ PatrolFollow(junction)
  /\ t1' \in {t1, now} /\ t5' \in {t5, now}
  /\ now' \in {now, Least(now + 1, EndOfTime)}
  /\ UNCHANGED <<op, junction>>

(* One round of the search for one outer line, or of the wait to leave it. *)
SeekOne ==
  /\ op = "seek" /\ junction \in {0, 2}
  /\ PatrolFollow(junction)
  /\ UNCHANGED drive

(* The junction is found.                                                  *)
Found ==
  /\ op = "seek" /\ (junction \in {1, 3} => Met)
  /\ op' = "leave"
  /\ UNCHANGED <<memory, left, right, junction, t1, t5, now, since, blind>>

(* A line is still under a sensor: a follower tick, or straight on.        *)
Leave ==
  /\ op = "leave"
  /\ \/ junction # 3 /\ PatrolFollow(junction)
     \/ junction = 3 /\ Yd(100, 100) /\ UNCHANGED <<memory, since>>
  /\ UNCHANGED drive

(* The lines are left behind: on for t seconds, then a stop.               *)
JunctionDone ==
  /\ op = "leave" /\ op' = "rest"
  /\ Yd(0, 0) /\ flag1' = 1
  /\ junction' = 0 /\ t1' = Never1 /\ t5' = Never5 /\ now' = 0
  /\ UNCHANGED <<flag, flag2, js, since>>

(* patrol_for_time: slow ticks first, as above, then ticks until the time. *)
ForTime ==
  /\ op = "rest" /\ Yd(100, 100)
  /\ \E creep \in Creeps : op' = IF creep THEN "slow" ELSE "timed"
  /\ UNCHANGED <<memory, junction, t1, t5, now, since>>

SlowTick ==
  /\ op = "slow" /\ PatrolFollow(1)
  /\ op' \in {"slow", "timed"}
  /\ UNCHANGED <<junction, t1, t5, now>>

TimedTick == op = "timed" /\ PatrolFollow(1) /\ UNCHANGED drive

TimeUp ==
  /\ op = "timed" /\ op' = "rest"
  /\ Yd(0, 0) /\ flag1' = 1
  /\ UNCHANGED <<flag, flag2, js, junction, t1, t5, now, since>>

(* patrol_turn_wheel, patrol_drive_time, patrol_drive_angle and            *)
(* patrol_drive_sensor: the follower does not tick, the wheels are stopped *)
(* and the memory is cleared, but for the count of the outer latch.        *)
Manoeuvre ==
  /\ op = "rest" /\ Yd(0, 0)
  /\ flag' = 0 /\ flag1' = 0 /\ flag2' = 0
  /\ UNCHANGED <<js, drive, since>>

Next ==
  \/ PatrolSpeed \/ InitEngine \/ (\E k \in 0..3 : UntilJunction(k)) \/ Creep
  \/ SeekBoth \/ SeekOne \/ Found \/ Leave \/ JunctionDone
  \/ ForTime \/ SlowTick \/ TimedTick \/ TimeUp \/ Manoeuvre

Spec == Init /\ [][Next]_vars

-----------------------------------------------------------------------------
(* Properties.                                                             *)

TypeOK ==
  /\ flag \in 0..3 /\ flag1 \in 0..1 /\ flag2 \in 0..2 /\ js \in 0..Cap
  /\ left \in -30..100 /\ right \in -30..100
  /\ op \in {"rest", "creep", "seek", "leave", "slow", "timed"}
  /\ junction \in 0..3 /\ now \in 0..EndOfTime
  /\ t1 \in {Never1} \cup 0..EndOfTime /\ t5 \in {Never5} \cup 0..EndOfTime
  /\ since \in 0..Cap /\ blind \in BOOLEAN

(* An outer sensor is remembered for the ticks since it last fired and no  *)
(* longer than Hold of them, whatever count an earlier latch left behind   *)
(* when a turn cleared the latch alone.                                    *)
LatchFresh == flag2 > 0 => js = since /\ js <= Hold

(* With no outer latch in force, a robot that steers by a line last seen   *)
(* on one side turns to that side, however many ticks ago that was and     *)
(* whichever latch ran out in between.                                     *)
LostTurnsBack ==
  flag2 = 0 /\ ~blind =>
    /\ flag = 1 => left < right
    /\ flag = 2 => right < left

(* A crossing is taken for one only after both of its lines were seen in   *)
(* this very drive, close together.                                        *)
CrossIsBoth ==
  op = "leave" /\ junction \in {1, 3} =>
    t1 \in 0..EndOfTime /\ t5 \in 0..EndOfTime /\ Gap(t1, t5) <= Near
=============================================================================
