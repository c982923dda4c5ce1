----------------------------- MODULE BleLiveProofs -----------------------------
(***************************************************************************)
(* The live runtime for any number of programs, requests and polls.        *)
(*                                                                         *)
(* A request is in the write queue once at most, and only while its round  *)
(* trip is writing; so the one waiter is the round trip's own until the    *)
(* trip is decided.  Behind every motor command in the queue there is a    *)
(* halt once a stop was sent.  With one program the ids of a session grow, *)
(* and whatever belongs to an earlier round trip has a smaller one.        *)
(***************************************************************************)
EXTENDS BleLive, SequenceTheorems, TLAPS

USE BleLiveAssumption

-----------------------------------------------------------------------------
(* Queues.                                                                 *)

LEMMA Taken ==
  ASSUME NEW S, NEW s \in Seq(S), s # <<>>
  PROVE  /\ Tail(s) \in Seq(S) /\ Head(s) \in S /\ Head(s) = s[1]
         /\ Len(Tail(s)) = Len(s) - 1 /\ Len(s) \in Nat \ {0}
         /\ \A i \in 1..Len(Tail(s)) : Tail(s)[i] = s[i + 1]
  BY HeadTailProperties, EmptySeq, LenProperties

LEMMA Added ==
  ASSUME NEW S, NEW s \in Seq(S), NEW e \in S
  PROVE  /\ Append(s, e) \in Seq(S)
         /\ Len(Append(s, e)) = Len(s) + 1 /\ Len(s) \in Nat
         /\ \A i \in 1..Len(s) : Append(s, e)[i] = s[i]
         /\ Append(s, e)[Len(s) + 1] = e
  BY AppendProperties, LenProperties

LEMMA OthersOfWrites ==
  ASSUME NEW s \in Seq(Writes)
  PROVE  /\ Others(s) \in Seq(Writes) /\ Len(Others(s)) = Len(s) /\ Len(s) \in Nat
         /\ \A i \in 1..Len(s) : /\ Others(s)[i].kind = s[i].kind
                                 /\ Others(s)[i].id = s[i].id
                                 /\ Others(s)[i].mine = FALSE
<1>1. Len(s) \in Nat /\ \A i \in 1..Len(s) : s[i] \in Writes
  BY LenProperties
<1>2. \A i \in 1..Len(s) : [s[i] EXCEPT !.mine = FALSE] \in Writes
  BY <1>1 DEF Writes
<1>3. Others(s) \in Seq(Writes) /\ Len(Others(s)) = Len(s)
  BY <1>1, <1>2 DEF Others
<1>4. ASSUME NEW i \in 1..Len(s)
      PROVE  /\ Others(s)[i].kind = s[i].kind /\ Others(s)[i].id = s[i].id
             /\ Others(s)[i].mine = FALSE
  BY <1>1, <1>4 DEF Others, Writes
<1> QED BY <1>1, <1>3, <1>4

LEMMA OthersOfAnswers ==
  ASSUME NEW s \in Seq(Answers)
  PROVE  /\ Others(s) \in Seq(Answers) /\ Len(Others(s)) = Len(s) /\ Len(s) \in Nat
         /\ \A i \in 1..Len(s) : Others(s)[i].id = s[i].id
<1>1. Len(s) \in Nat /\ \A i \in 1..Len(s) : s[i] \in Answers
  BY LenProperties
<1>2. \A i \in 1..Len(s) : [s[i] EXCEPT !.mine = FALSE] \in Answers
  BY <1>1 DEF Answers
<1>3. Others(s) \in Seq(Answers) /\ Len(Others(s)) = Len(s)
  BY <1>1, <1>2 DEF Others
<1>4. ASSUME NEW i \in 1..Len(s) PROVE Others(s)[i].id = s[i].id
  BY <1>1, <1>4 DEF Others, Answers
<1> QED BY <1>1, <1>3, <1>4

LEMMA Removed ==
  ASSUME NEW S, NEW s \in Seq(S), NEW i \in 1..Len(s)
  PROVE  /\ RemoveAt(s, i) \in Seq(S)
         /\ \A k \in 1..Len(RemoveAt(s, i)) : \E m \in 1..Len(s) : RemoveAt(s, i)[k] = s[m]
<1> DEFINE a == SubSeq(s, 1, i - 1)
           b == SubSeq(s, i + 1, Len(s))
<1>1. Len(s) \in Nat /\ \A m \in 1..Len(s) : s[m] \in S
  BY LenProperties
<1>2. /\ a \in Seq(S) /\ Len(a) = i - 1
      /\ \A k \in 1..(i - 1) : a[k] = s[k]
  <2>1. /\ a \in Seq(S) /\ Len(a) = IF 1 <= i - 1 THEN i - 1 - 1 + 1 ELSE 0
        /\ \A k \in 1..(i - 1 - 1 + 1) : a[k] = s[1 + k - 1]
    BY <1>1, SubSeqProperties
  <2> QED BY <1>1, <2>1
<1>3. /\ b \in Seq(S) /\ Len(b) = Len(s) - i
      /\ \A k \in 1..(Len(s) - i) : b[k] = s[i + k]
  <2>1. /\ b \in Seq(S) /\ Len(b) = IF i + 1 <= Len(s) THEN Len(s) - (i + 1) + 1 ELSE 0
        /\ \A k \in 1..(Len(s) - (i + 1) + 1) : b[k] = s[i + 1 + k - 1]
    BY <1>1, SubSeqProperties
  <2> QED BY <1>1, <2>1
<1>4. /\ a \o b \in Seq(S) /\ Len(a \o b) = Len(a) + Len(b)
      /\ \A k \in 1..(Len(a) + Len(b)) :
           (a \o b)[k] = IF k <= Len(a) THEN a[k] ELSE b[k - Len(a)]
  BY <1>2, <1>3, ConcatProperties
<1>5. RemoveAt(s, i) = a \o b
  BY DEF RemoveAt
<1> HIDE DEF a, b
<1>6. ASSUME NEW k \in 1..Len(a \o b)
      PROVE  \E m \in 1..Len(s) : (a \o b)[k] = s[m]
  <2>1. CASE k <= i - 1
    BY <1>1, <1>2, <1>3, <1>4, <2>1
  <2>2. CASE k > i - 1
    <3>1. (a \o b)[k] = b[k - (i - 1)] /\ k - (i - 1) \in 1..(Len(s) - i)
      BY <1>1, <1>2, <1>3, <1>4, <2>2
    <3> QED BY <1>1, <1>3, <3>1
  <2> QED BY <1>1, <2>1, <2>2
<1> QED BY <1>4, <1>5, <1>6
-----------------------------------------------------------------------------
(* The inductive invariant.                                                *)

(* A round trip has a holder; its request is queued while it is writing.   *)
Round ==
  /\ req.phase # "none" => mutex # <<>>
  /\ \A i \in 1..Len(txq) : txq[i].kind = "ask" => req.phase = "writing"
  /\ \A i, j \in 1..Len(txq) : txq[i].kind = "ask" /\ txq[j].kind = "ask" => i = j
  /\ WaiterOwned

(* Ids are left for everybody in the mutex.                                *)
Budget == reqId + Len(mutex) <= MaxId + (IF req.phase = "none" THEN 0 ELSE 1)

(* Behind every motor command, and while a motor runs, a halt is queued.   *)
Halting ==
  /\ halted => stopped
  /\ halted /\ ~haltLost =>
       /\ \A i \in 1..Len(txq) : txq[i].kind = "motor" =>
            \E j \in 1..Len(txq) : i < j /\ txq[j].kind = "off"
       /\ moving => \E j \in 1..Len(txq) : txq[j].kind = "off"

Places == {"idle", "starting", "ready", "writing", "asking", "over", "ended"}
Trips == [phase : {"none", "writing", "waiting"}, id : 0..MaxId, attempt : 0..1,
          outcome : {"none", "answer", "stranger", "stopped", "lost"}]

Flags ==
  /\ connected \in BOOLEAN /\ stopped \in BOOLEAN /\ debugging \in BOOLEAN
  /\ live \in BOOLEAN /\ polling \in BOOLEAN /\ registered \in BOOLEAN
  /\ moving \in BOOLEAN /\ halted \in BOOLEAN /\ haltLost \in BOOLEAN
Scalars ==
  reqId \in 0..MaxId /\ waiter \in 0..MaxId /\ task \in [Programs -> Places] /\ req \in Trips
Queues ==
  txq \in Seq(Writes) /\ mutex \in Seq(Owners) /\ frames \in Seq(Answers) /\ air \in Seq(Answers)

LEMMA Types == TypeOK <=> Flags /\ Scalars /\ Queues
<1>1. {connected, stopped, debugging, live, polling, registered, moving, halted, haltLost}
        \subseteq BOOLEAN <=> Flags
  BY Zenon DEF Flags
<1> QED BY <1>1 DEF TypeOK, Scalars, Queues, Places, Trips

LEMMA FlagsKept ==
  ASSUME Flags, Next
  PROVE  Flags'
<1> USE DEF Flags, link, page, timer, trip
<1>1. ASSUME NEW p \in Programs, ClickRun(p) \/ Transpiled(p) \/ TranspileFails(p) \/ Settled(p)
      PROVE  Flags'
  BY <1>1, Zenon DEF ClickRun, Transpiled, TranspileFails, Settled, Begin
<1>2. ASSUME NEW p \in Programs, TaskStep(p) PROVE Flags'
  BY <1>2, Zenon DEF TaskStep, Cmd, Ask, WakeOrReturn
<1>3. CASE Stop
  BY <1>3, Zenon DEF Stop
<1>4. CASE DebugMotor \/ LeaveDebug \/ PollTick
  BY <1>4, Zenon DEF DebugMotor, LeaveDebug, PollTick
<1>5. CASE TripStart
  BY <1>5, Zenon DEF TripStart, TripFails
<1>6. CASE TripSettles
  BY <1>6, Zenon DEF TripSettles, TripFails, TripSucceeds
<1>7. CASE Timeout
  BY <1>7, Zenon DEF Timeout, TripFails
<1>8. CASE Notify
  BY <1>8, Zenon DEF Notify
<1>9. CASE WriteDone
  BY <1>9, Zenon DEF WriteDone
<1>10. CASE WriteFails
  BY <1>10, Zenon DEF WriteFails, TripFails
<1>11. CASE LinkDrops \/ Reconnect
  BY <1>11, Zenon DEF LinkDrops, Reconnect
<1> QED BY <1>1, <1>2, <1>3, <1>4, <1>5, <1>6, <1>7, <1>8, <1>9, <1>10, <1>11, Zenon DEF Next

Data == Scalars /\ Queues
IInv == Flags /\ Data /\ Round /\ Budget /\ Halting

\* What a step other than one of the flags has to keep.
Kept == Data' /\ Round' /\ Budget' /\ Halting'

LEMMA Initially == Init => IInv
<1> SUFFICES ASSUME Init PROVE IInv
  OBVIOUS
<1>1. Flags
  BY Zenon DEF Init, Flags
<1>2. Scalars
  BY DEF Init, Scalars, Places, Trips, NoTrip
<1>3. Queues
  BY DEF Init, Queues
<1>4. Round /\ Budget /\ Halting
  BY DEF Init, Round, Budget, Halting, WaiterOwned, NoTrip
<1> QED BY <1>1, <1>2, <1>3, <1>4 DEF IInv, Data

-----------------------------------------------------------------------------
(* The page.                                                               *)

LEMMA ProgramsKeep ==
  ASSUME IInv, NEW p \in Programs,
         ClickRun(p) \/ Transpiled(p) \/ TranspileFails(p) \/ Settled(p) \/ WakeOrReturn(p)
  PROVE  Kept
<1>1. UNCHANGED <<connected, air, moving, haltLost, debugging, mutex, req, waiter, frames, txq>>
  BY DEF ClickRun, Transpiled, TranspileFails, Settled, WakeOrReturn, Begin, link, page, timer, trip
<1>2. /\ task' \in [Programs -> Places] /\ reqId' \in {0, reqId}
      /\ ~halted' \/ (halted' = halted /\ stopped' = stopped)
  BY DEF IInv, Data, Scalars, ClickRun, Transpiled, TranspileFails, Settled, WakeOrReturn,
         Begin, Goto, Places, page, timer
<1>3. Data'
  BY <1>1, <1>2 DEF IInv, Data, Scalars, Queues
<1>4. Round'
  BY <1>1 DEF IInv, Round, WaiterOwned
<1>5. Budget'
  <2>1. Len(mutex) \in Nat /\ reqId \in Nat
    BY LenProperties DEF IInv, Data, Scalars, Queues
  <2>2. reqId' = 0 \/ reqId' = reqId
    BY <1>2
  <2> QED BY <1>1, <2>1, <2>2 DEF IInv, Budget
<1>6. Halting'
  BY <1>1, <1>2 DEF IInv, Halting
<1> QED BY <1>3, <1>4, <1>5, <1>6 DEF Kept

(* A write is queued behind the others; ids is what it takes of them.      *)
LEMMA QueuedWrite ==
  ASSUME IInv, NEW w \in Writes, w.kind = "motor",
         txq' = Append(txq, w), reqId' = reqId + 1, Spare(1),
         UNCHANGED <<req, waiter, mutex, moving, haltLost, frames, air>>,
         task' \in [Programs -> Places],
         ~halted'
  PROVE  Kept
<1>1. /\ txq' \in Seq(Writes) /\ Len(txq') = Len(txq) + 1 /\ Len(txq) \in Nat
      /\ \A i \in 1..Len(txq) : txq'[i] = txq[i]
      /\ txq'[Len(txq) + 1] = w
  BY Added DEF IInv, Data, Queues
<1>2. Len(mutex) \in Nat /\ reqId \in Nat
  BY LenProperties DEF IInv, Data, Queues, Scalars
<1>3. Data'
  BY <1>1, <1>2 DEF IInv, Data, Scalars, Queues, Spare
<1>4. Round'
  BY <1>1 DEF IInv, Round, WaiterOwned
<1>5. Budget'
  BY <1>2 DEF IInv, Budget, Spare
<1>6. Halting'
  BY DEF Halting
<1> QED BY <1>3, <1>4, <1>5, <1>6 DEF Kept

LEMMA CmdKeeps ==
  ASSUME IInv, NEW p \in Programs, Cmd(p)
  PROVE  Kept
<1>1. CASE Refused
  <2>0. halted' = halted
    BY <1>1, Zenon DEF Cmd, IInv, Flags
  <2>1. /\ UNCHANGED <<air, moving, haltLost, debugging, mutex, req, waiter, frames, txq>>
        /\ UNCHANGED <<reqId, stopped, halted>>
    BY <1>1, <2>0 DEF Cmd, link, timer, trip
  <2>2. task' \in [Programs -> Places]
    BY <1>1 DEF Cmd, IInv, Data, Scalars, Goto, Places
  <2> QED BY <2>1, <2>2 DEF IInv, Kept, Data, Scalars, Queues, Round, WaiterOwned,
                            Budget, Halting
<1>2. CASE ~Refused
  <2>1. Write("motor", p, 0) \in Writes /\ Write("motor", p, 0).kind = "motor"
    BY DEF Write, Writes, Owners
  <2>2. task' \in [Programs -> Places]
    BY <1>2 DEF Cmd, IInv, Data, Scalars, Goto, Places
  <2>3. ~halted'
    BY <1>2 DEF Cmd, IInv, Halting, Refused
  <2> QED BY <1>2, <2>1, <2>2, <2>3, QueuedWrite DEF Cmd, link, timer, trip
<1> QED BY <1>1, <1>2

LEMMA DebugKeeps ==
  ASSUME IInv, DebugMotor \/ LeaveDebug
  PROVE  Kept
<1>1. CASE UNCHANGED <<txq, reqId, halted>>
  <2>1. UNCHANGED <<air, moving, haltLost, mutex, req, waiter, frames, task, stopped>>
    BY DEF DebugMotor, LeaveDebug, link, timer, trip
  <2> QED BY <1>1, <2>1 DEF IInv, Kept, Data, Scalars, Queues, Round, WaiterOwned,
                            Budget, Halting
<1>2. CASE /\ DebugMotor /\ txq' = Append(txq, Write("motor", "ui", 0))
           /\ reqId' = reqId + 1
  <2>1. /\ Write("motor", "ui", 0) \in Writes
        /\ Write("motor", "ui", 0).kind = "motor"
    BY DEF Write, Writes
  <2>2. ~halted'
    BY <1>2 DEF DebugMotor, IInv, Data, Scalars
  <2>3. task' \in [Programs -> Places]
    BY <1>2 DEF DebugMotor, IInv, Data, Scalars
  <2> QED BY <1>2, <2>1, <2>2, <2>3, QueuedWrite DEF DebugMotor, link, timer, trip
<1> QED BY <1>1, <1>2 DEF DebugMotor, LeaveDebug

(* A reader or a poll queues for the mutex.                                *)
LEMMA WaitersKeep ==
  ASSUME IInv, PollTick \/ \E p \in Programs : Ask(p)
  PROVE  Kept
<1>1. /\ UNCHANGED <<air, moving, haltLost, debugging, req, waiter, frames, txq>>
      /\ UNCHANGED <<reqId, stopped, halted>>
  BY DEF PollTick, Ask, link, page, trip
<1>2. task' \in [Programs -> Places]
  BY DEF IInv, Data, Scalars, PollTick, Ask, Goto, Places, page
<1>3. mutex' = mutex \/ \E o \in Owners : mutex' = Append(mutex, o) /\ Spare(1)
  BY DEF PollTick, Ask, Owners, trip
<1>4. /\ mutex' \in Seq(Owners) /\ Len(mutex) \in Nat
      /\ mutex' = mutex \/ (Len(mutex') = Len(mutex) + 1 /\ Spare(1))
      /\ mutex # <<>> => mutex' # <<>>
  <2>1. mutex \in Seq(Owners) /\ Len(mutex) \in Nat
    BY LenProperties DEF IInv, Data, Queues
  <2>2. ASSUME NEW o \in Owners, mutex' = Append(mutex, o)
        PROVE  mutex' \in Seq(Owners) /\ Len(mutex') = Len(mutex) + 1 /\ mutex' # <<>>
    BY <2>1, <2>2, AppendProperties
  <2> QED BY <1>3, <2>1, <2>2
<1>6. Budget'
  <2>1. reqId \in Nat
    BY DEF IInv, Data, Scalars
  <2> QED BY <1>1, <1>4, <2>1 DEF IInv, Budget, Spare
<1>7. Data'
  BY <1>1, <1>2, <1>4 DEF IInv, Data, Scalars, Queues
<1>8. Round' /\ Halting'
  BY <1>1, <1>4 DEF IInv, Round, WaiterOwned, Halting
<1> QED BY <1>6, <1>7, <1>8 DEF Kept

-----------------------------------------------------------------------------
(* Stops and the link going down and up.                                   *)

LEMMA Rejected ==
  ASSUME IInv, NEW reason \in {"stopped", "lost"}, RejectWaiter(reason)
  PROVE  /\ req' \in Trips /\ waiter' \in 0..MaxId
         /\ req'.phase = req.phase /\ req'.id = req.id
         /\ WaiterOwned'
<1>1. CASE waiter # 0 /\ req.phase # "none" /\ req.outcome = "none"
  BY <1>1 DEF RejectWaiter, IInv, Data, Scalars, Trips, WaiterOwned
<1>2. CASE ~(waiter # 0 /\ req.phase # "none" /\ req.outcome = "none")
  BY <1>2 DEF RejectWaiter, IInv, Data, Scalars, Round, WaiterOwned
<1> QED BY <1>1, <1>2

LEMMA StopKeeps ==
  ASSUME IInv, Stop
  PROVE  Kept
<1>1. UNCHANGED <<connected, air, moving, debugging, task, mutex, frames>>
  BY DEF Stop, page
<1>2. /\ req' \in Trips /\ waiter' \in 0..MaxId
      /\ req'.phase = req.phase /\ req'.id = req.id
      /\ WaiterOwned'
  BY Rejected DEF Stop
<1>3. Len(mutex) \in Nat /\ reqId \in Nat /\ stopped'
  BY LenProperties DEF IInv, Data, Queues, Scalars, Stop
<1>4. CASE ~connected
  <2>1. UNCHANGED <<txq, reqId, halted, haltLost>>
    BY <1>4 DEF Stop
  <2>2. Data'
    BY <1>1, <1>2, <2>1 DEF IInv, Data, Scalars, Queues
  <2>3. Round' /\ Budget'
    BY <1>1, <1>2, <2>1 DEF IInv, Round, Budget
  <2>4. Halting'
    BY <1>1, <1>3, <2>1 DEF IInv, Halting
  <2> QED BY <2>2, <2>3, <2>4 DEF Kept
<1>5. CASE connected
  <2> DEFINE h == Write("halt", "ui", 0)
             o == Write("off", "ui", 0)
  <2>1. /\ txq' = txq \o <<h, o>> /\ reqId' = reqId + 2 /\ Spare(2)
        /\ halted' = TRUE /\ haltLost' = FALSE
    BY <1>5 DEF Stop
  <2>2. h \in Writes /\ o \in Writes /\ h.kind = "halt" /\ o.kind = "off"
    BY DEF Write, Writes
  <2> HIDE DEF h, o
  <2>3. /\ <<h, o>> \in Seq(Writes) /\ Len(<<h, o>>) = 2
        /\ <<h, o>>[1] = h /\ <<h, o>>[2] = o
    BY <2>2
  <2>4. txq \in Seq(Writes) /\ Len(txq) \in Nat
    BY LenProperties DEF IInv, Data, Queues
  <2>5. /\ txq' \in Seq(Writes) /\ Len(txq') = Len(txq) + 2
        /\ \A i \in 1..Len(txq) + 2 :
             txq'[i] = IF i <= Len(txq) THEN txq[i] ELSE <<h, o>>[i - Len(txq)]
    BY <2>1, <2>3, <2>4, ConcatProperties
  <2>6. /\ \A i \in 1..Len(txq) : txq'[i] = txq[i]
        /\ txq'[Len(txq) + 1].kind = "halt" /\ txq'[Len(txq) + 2].kind = "off"
    BY <2>2, <2>3, <2>4, <2>5
  <2>7. Data'
    BY <1>1, <1>2, <1>3, <2>1, <2>5 DEF IInv, Data, Scalars, Queues, Spare
  <2>8. Round'
    <3>1. \A i \in 1..Len(txq') : txq'[i].kind = "ask" =>
             i \in 1..Len(txq) /\ txq[i].kind = "ask"
      BY <2>4, <2>5, <2>6
    <3> QED BY <1>1, <1>2, <3>1 DEF IInv, Round
  <2>9. Budget'
    BY <1>1, <1>2, <1>3, <2>1 DEF IInv, Budget, Spare
  <2>10. Halting'
    <3>1. \A i \in 1..Len(txq') : txq'[i].kind = "motor" => i < Len(txq) + 2
      BY <2>4, <2>5, <2>6
    <3>2. Len(txq) + 2 \in 1..Len(txq') /\ txq'[Len(txq) + 2].kind = "off"
      BY <2>4, <2>5, <2>6
    <3> QED BY <1>1, <1>3, <3>1, <3>2 DEF IInv, Halting
  <2> QED BY <2>7, <2>8, <2>9, <2>10 DEF Kept
<1> QED BY <1>4, <1>5

LEMMA LinkDropsKeeps ==
  ASSUME IInv, LinkDrops
  PROVE  Kept
<1>1. /\ UNCHANGED <<moving, haltLost, debugging, task, mutex, frames, reqId, txq>>
      /\ air' = <<>> /\ halted' = FALSE
  BY DEF LinkDrops
<1>2. /\ req' \in Trips /\ waiter' \in 0..MaxId
      /\ req'.phase = req.phase /\ req'.id = req.id
      /\ WaiterOwned'
  BY Rejected DEF LinkDrops
<1>3. Data'
  BY <1>1, <1>2 DEF IInv, Data, Scalars, Queues
<1>4. Round' /\ Budget'
  BY <1>1, <1>2 DEF IInv, Round, Budget
<1>5. Halting'
  BY <1>1 DEF IInv, Halting
<1> QED BY <1>3, <1>4, <1>5 DEF Kept

LEMMA ReconnectKeeps ==
  ASSUME IInv, Reconnect
  PROVE  Kept
<1>1. /\ UNCHANGED <<air, moving, haltLost, debugging, task, mutex, req, waiter>>
      /\ UNCHANGED <<reqId, txq, stopped, halted>> /\ frames' = <<>>
  BY DEF Reconnect, page, timer
<1> QED BY <1>1 DEF IInv, Kept, Data, Scalars, Queues, Round, WaiterOwned, Budget, Halting

-----------------------------------------------------------------------------
(* The round trip.                                                         *)

LEMMA TaskTyped ==
  ASSUME IInv, NEW o, \/ TripFails(o) \/ TripSucceeds(o) \/ UNCHANGED task
                     \/ \E where \in Places : Goto(o, where)
  PROVE  task' \in [Programs -> Places]
  BY DEF IInv, Data, Scalars, TripFails, TripSucceeds, Goto, Places

(* The trip that held the mutex is over; nothing of it is in the queue.    *)
LEMMA TripOver ==
  ASSUME IInv, TripEnds, req.phase # "none",
         waiter' \in 0..MaxId, task' \in [Programs -> Places],
         UNCHANGED <<frames, reqId>>, air' \in Seq(Answers), txq' \in Seq(Writes),
         \A i \in 1..Len(txq') : txq'[i].kind # "ask",
         Halting'
  PROVE  Kept
<1>1. /\ mutex' \in Seq(Owners) /\ Len(mutex') = Len(mutex) - 1 /\ Len(mutex) \in Nat
      /\ req' = NoTrip
  BY Taken DEF IInv, Data, Queues, Round, TripEnds
<1>2. NoTrip \in Trips /\ NoTrip.phase = "none"
  BY DEF NoTrip, Trips
<1>3. Data'
  BY <1>1, <1>2 DEF IInv, Data, Scalars, Queues
<1>4. Round'
  BY <1>1, <1>2 DEF Round, WaiterOwned
<1>5. Budget'
  <2>1. reqId \in Nat
    BY DEF IInv, Data, Scalars
  <2> QED BY <1>1, <1>2, <2>1 DEF IInv, Budget
<1> QED BY <1>3, <1>4, <1>5 DEF Kept

(* A motor command or a halt that is under way stays covered by its halt.  *)
LEMMA SameHalting ==
  ASSUME IInv, UNCHANGED <<debugging, stopped, halted, moving, haltLost>>,
         Len(txq) \in Nat, Len(txq') \in Nat, Len(txq') >= Len(txq),
         \A i \in 1..Len(txq) : txq'[i].kind = txq[i].kind,
         \A i \in 1..Len(txq') : i > Len(txq) => txq'[i].kind = "ask"
  PROVE  Halting'
<1>1. halted' => stopped'
  BY DEF IInv, Halting
<1>2. ASSUME halted', ~haltLost'
      PROVE  /\ \A i \in 1..Len(txq') : txq'[i].kind = "motor" =>
                  \E j \in 1..Len(txq') : i < j /\ txq'[j].kind = "off"
             /\ moving' => \E j \in 1..Len(txq') : txq'[j].kind = "off"
  <2>1. /\ \A i \in 1..Len(txq) : txq[i].kind = "motor" =>
             \E j \in 1..Len(txq) : i < j /\ txq[j].kind = "off"
        /\ moving => \E j \in 1..Len(txq) : txq[j].kind = "off"
    BY <1>2 DEF IInv, Halting
  <2>2. \A j \in 1..Len(txq) : j \in 1..Len(txq')
    OBVIOUS
  <2>3. moving' => \E j \in 1..Len(txq') : txq'[j].kind = "off"
    BY <2>1, <2>2
  <2>4. ASSUME NEW i \in 1..Len(txq'), txq'[i].kind = "motor"
        PROVE  \E j \in 1..Len(txq') : i < j /\ txq'[j].kind = "off"
    <3>1. i \in 1..Len(txq) /\ txq[i].kind = "motor"
      BY <2>4
    <3> QED BY <2>1, <2>2, <3>1
  <2> QED BY <2>3, <2>4
<1> QED BY <1>1, <1>2 DEF Halting

LEMMA TripStartKeeps ==
  ASSUME IInv, TripStart
  PROVE  Kept
<1>1. /\ UNCHANGED <<moving, haltLost, debugging, stopped, halted>>
      /\ mutex # <<>> /\ req.phase = "none"
  BY DEF TripStart
<1>2. Len(txq) \in Nat /\ Len(mutex) \in Nat /\ reqId \in Nat
  BY LenProperties DEF IInv, Data, Scalars, Queues
<1>3. CASE Refused
  <2>1. /\ mutex' = Tail(mutex) /\ task' \in [Programs -> Places]
        /\ UNCHANGED <<req, waiter, frames, reqId, txq, air>>
    BY <1>3, TaskTyped DEF TripStart
  <2>2. mutex' \in Seq(Owners) /\ Len(mutex') = Len(mutex) - 1
    BY <1>1, <2>1, Taken DEF IInv, Data, Queues
  <2>3. Data'
    BY <2>1, <2>2 DEF IInv, Data, Scalars, Queues
  <2>4. Round' /\ Halting'
    BY <1>1, <2>1 DEF IInv, Round, WaiterOwned, Halting
  <2>5. Budget'
    BY <1>1, <1>2, <2>1, <2>2 DEF IInv, Budget
  <2> QED BY <2>3, <2>4, <2>5 DEF Kept
<1>4. CASE ~Refused
  <2> DEFINE w == Write("ask", Head(mutex), reqId')
  <2>1. /\ frames' = <<>> /\ air' = Others(air) /\ reqId' = reqId + 1
        /\ req' = [NoTrip EXCEPT !.phase = "writing", !.id = reqId']
        /\ waiter' = reqId' /\ txq' = Append(Others(txq), w)
        /\ UNCHANGED <<mutex, task>>
    BY <1>4 DEF TripStart
  <2>2. Head(mutex) \in Owners /\ Len(mutex) >= 1
    BY <1>1, Taken DEF IInv, Data, Queues
  <2>3. reqId' \in 0..MaxId
    BY <1>1, <1>2, <2>1, <2>2 DEF IInv, Budget
  <2>4. w \in Writes /\ w.kind = "ask"
    BY <2>2, <2>3 DEF Write, Writes
  <2> HIDE DEF w
  <2>5. /\ Others(txq) \in Seq(Writes) /\ Len(Others(txq)) = Len(txq)
        /\ \A i \in 1..Len(txq) : Others(txq)[i].kind = txq[i].kind
    BY OthersOfWrites DEF IInv, Data, Queues
  <2>6. /\ txq' \in Seq(Writes) /\ Len(txq') = Len(txq) + 1
        /\ \A i \in 1..Len(txq) : txq'[i].kind = txq[i].kind
        /\ txq'[Len(txq) + 1].kind = "ask"
    BY <2>1, <2>4, <2>5, Added
  <2>7. air' \in Seq(Answers)
    BY <2>1, OthersOfAnswers DEF IInv, Data, Queues
  <2>8. /\ req' \in Trips /\ req'.phase = "writing" /\ req'.id = reqId'
    <3>1. req' = [phase |-> "writing", id |-> reqId', attempt |-> 0, outcome |-> "none"]
      BY <2>1 DEF NoTrip
    <3> QED BY <2>3, <3>1 DEF Trips
  <2>9. Data'
    BY <2>1, <2>3, <2>6, <2>7, <2>8 DEF IInv, Data, Scalars, Queues
  <2>10. Round'
    <3>1. \A i \in 1..Len(txq') : txq'[i].kind = "ask" => i = Len(txq) + 1
      BY <1>1, <1>2, <2>6 DEF IInv, Round
    <3> QED BY <1>1, <2>1, <2>8, <3>1 DEF Round, WaiterOwned
  <2>11. Budget'
    BY <1>1, <1>2, <2>1, <2>8 DEF IInv, Budget
  <2>12. Halting'
    BY <1>1, <1>2, <2>6, SameHalting
  <2> QED BY <2>9, <2>10, <2>11, <2>12 DEF Kept
<1> QED BY <1>3, <1>4

LEMMA TripSettlesKeeps ==
  ASSUME IInv, TripSettles
  PROVE  Kept
<1>1. /\ UNCHANGED <<air, moving, haltLost, debugging, waiter, frames, stopped, reqId>>
      /\ UNCHANGED <<txq, halted>> /\ TripEnds /\ req.phase = "waiting"
  BY DEF TripSettles, link
<1>2. task' \in [Programs -> Places]
  BY TaskTyped DEF TripSettles
<1>3. \A i \in 1..Len(txq') : txq'[i].kind # "ask"
  BY <1>1 DEF IInv, Round
<1>4. Halting'
  BY <1>1 DEF IInv, Halting
<1>5. waiter' \in 0..MaxId /\ air' \in Seq(Answers) /\ txq' \in Seq(Writes)
  BY <1>1 DEF IInv, Data, Scalars, Queues
<1> QED BY <1>1, <1>2, <1>3, <1>4, <1>5, TripOver

LEMMA TimeoutKeeps ==
  ASSUME IInv, Timeout
  PROVE  Kept
<1>1. /\ UNCHANGED <<air, moving, haltLost, debugging, frames, stopped, reqId, halted>>
      /\ req.phase = "waiting" /\ req.outcome = "none"
  BY DEF Timeout, link
<1>2. \A i \in 1..Len(txq) : txq[i].kind # "ask"
  BY <1>1 DEF IInv, Round
<1>3. CASE req.attempt = 0
  <2> DEFINE w == Write("ask", Head(mutex), req.id)
  <2>1. /\ req' = [req EXCEPT !.attempt = 1, !.phase = "writing"]
        /\ waiter' = req.id /\ txq' = Append(txq, w) /\ UNCHANGED <<mutex, task>>
    BY <1>3 DEF Timeout
  <2>2. mutex # <<>> /\ Head(mutex) \in Owners /\ req.id \in 0..MaxId
    BY <1>1, Taken DEF IInv, Data, Queues, Scalars, Round, Trips
  <2>3. w \in Writes /\ w.kind = "ask"
    BY <2>2 DEF Write, Writes
  <2> HIDE DEF w
  <2>4. /\ txq' \in Seq(Writes) /\ Len(txq') = Len(txq) + 1 /\ Len(txq) \in Nat
        /\ \A i \in 1..Len(txq) : txq'[i] = txq[i]
        /\ txq'[Len(txq) + 1] = w
    BY <2>1, <2>3, Added DEF IInv, Data, Queues
  <2>5. /\ req' \in Trips /\ req'.phase = "writing" /\ req'.id = req.id
    <3>1. /\ req.phase \in {"none", "writing", "waiting"} /\ req.id \in 0..MaxId
          /\ req.outcome \in {"none", "answer", "stranger", "stopped", "lost"}
          /\ req = [phase |-> req.phase, id |-> req.id, attempt |-> req.attempt,
                    outcome |-> req.outcome]
      BY DEF IInv, Data, Scalars, Trips
    <3>2. req' = [phase |-> "writing", id |-> req.id, attempt |-> 1, outcome |-> req.outcome]
      BY <2>1, <3>1
    <3> QED BY <3>1, <3>2 DEF Trips
  <2>6. Data'
    BY <1>1, <2>1, <2>2, <2>4, <2>5 DEF IInv, Data, Scalars, Queues
  <2>7. Round'
    <3>1. \A i \in 1..Len(txq') : txq'[i].kind = "ask" => i = Len(txq) + 1
      BY <1>2, <2>4
    <3> QED BY <2>1, <2>2, <2>5, <3>1 DEF Round, WaiterOwned
  <2>8. Budget'
    BY <1>1, <2>1, <2>5 DEF IInv, Budget
  <2>9. Halting'
    BY <1>1, <2>3, <2>4, SameHalting
  <2> QED BY <2>6, <2>7, <2>8, <2>9 DEF Kept
<1>4. CASE req.attempt # 0
  <2>1. TripEnds /\ waiter' = 0 /\ TripFails(Head(mutex)) /\ UNCHANGED txq
    BY <1>4 DEF Timeout
  <2>2. task' \in [Programs -> Places]
    BY <2>1, TaskTyped
  <2>3. Halting'
    BY <1>1, <2>1 DEF IInv, Halting
  <2>4. waiter' \in 0..MaxId /\ air' \in Seq(Answers) /\ txq' \in Seq(Writes)
    BY <1>1, <2>1 DEF IInv, Data, Scalars, Queues
  <2> QED BY <1>1, <1>2, <2>1, <2>2, <2>3, <2>4, TripOver
<1> QED BY <1>3, <1>4

LEMMA NotifyKeeps ==
  ASSUME IInv, Notify
  PROVE  Kept
<1> DEFINE inbox == Append(frames, Head(air))
           matches == {i \in 1..Len(inbox) : waiter # 0 /\ inbox[i].id = waiter}
<1>1. /\ UNCHANGED <<moving, haltLost, debugging, task, mutex, stopped, reqId, txq, halted>>
      /\ air # <<>> /\ air' = Tail(air)
  BY DEF Notify, page
<1>2. air' \in Seq(Answers) /\ inbox \in Seq(Answers)
  BY <1>1, Taken, Added DEF IInv, Data, Queues
<1>3. Halting'
  BY <1>1 DEF IInv, Halting
<1>4. CASE frames' = inbox /\ UNCHANGED <<req, waiter>>
  BY <1>1, <1>2, <1>3, <1>4 DEF IInv, Kept, Data, Scalars, Queues, Round, WaiterOwned, Budget
<1>5. ASSUME NEW i \in matches, frames' = RemoveAt(inbox, i), waiter' = 0,
             req' = IF req.phase = "none" THEN req
                    ELSE [req EXCEPT !.outcome =
                            IF inbox[i].mine THEN "answer" ELSE "stranger"]
      PROVE  Kept
  <2>1. i \in 1..Len(inbox)
    OBVIOUS
  <2>2. frames' \in Seq(Answers)
    BY <1>2, <1>5, <2>1, Removed
  <2>3. /\ req' \in Trips /\ req'.phase = req.phase /\ req'.id = req.id
        /\ req'.phase # "none" => req'.outcome # "none"
    BY <1>5 DEF IInv, Data, Scalars, Trips
  <2>4. Data'
    <3>1. task \in [Programs -> Places] /\ reqId \in 0..MaxId /\ 0 \in 0..MaxId
      BY DEF IInv, Data, Scalars
    <3>2. Scalars'
      BY <1>1, <1>5, <2>3, <3>1 DEF Scalars
    <3>3. Queues'
      BY <1>1, <1>2, <2>2 DEF IInv, Data, Queues
    <3> QED BY <3>2, <3>3 DEF Data
  <2>5. Round' /\ Budget'
    BY <1>1, <2>3 DEF IInv, Round, WaiterOwned, Budget
  <2> QED BY <1>3, <2>4, <2>5 DEF Kept
<1>6. \/ frames' = inbox /\ UNCHANGED <<req, waiter>>
      \/ \E i \in matches :
           /\ frames' = RemoveAt(inbox, i) /\ waiter' = 0
           /\ req' = IF req.phase = "none" THEN req
                     ELSE [req EXCEPT !.outcome =
                             IF inbox[i].mine THEN "answer" ELSE "stranger"]
  BY DEF Notify
<1> HIDE DEF inbox, matches
<1> QED BY <1>4, <1>5, <1>6

-----------------------------------------------------------------------------
(* The link takes or refuses the first write.                              *)

LEMMA FirstWrite ==
  ASSUME IInv, txq # <<>>, txq' = Tail(txq)
  PROVE  /\ txq' \in Seq(Writes) /\ Head(txq) \in Writes /\ Head(txq) = txq[1]
         /\ Len(txq') = Len(txq) - 1 /\ Len(txq) \in Nat \ {0}
         /\ \A i \in 1..Len(txq') : txq'[i] = txq[i + 1]
         /\ Head(txq).kind = "ask" =>
              req.phase = "writing" /\ \A i \in 1..Len(txq') : txq'[i].kind # "ask"
<1>1. /\ txq' \in Seq(Writes) /\ Head(txq) \in Writes /\ Head(txq) = txq[1]
      /\ Len(txq') = Len(txq) - 1 /\ Len(txq) \in Nat \ {0}
      /\ \A i \in 1..Len(txq') : txq'[i] = txq[i + 1]
  BY Taken DEF IInv, Data, Queues
<1>2. ASSUME txq[1].kind = "ask"
      PROVE  req.phase = "writing" /\ \A i \in 1..Len(txq') : txq'[i].kind # "ask"
  BY <1>1, <1>2 DEF IInv, Round
<1> QED BY <1>1, <1>2

LEMMA FirstHalting ==
  ASSUME IInv, txq # <<>>, txq' = Tail(txq), UNCHANGED <<debugging, stopped, halted>>,
         ~haltLost' => ~haltLost /\ (moving' => Head(txq).kind = "motor"
                                               \/ (moving /\ Head(txq).kind # "off"))
  PROVE  Halting'
<1>1. halted' => stopped'
  BY DEF IInv, Halting
<1>2. /\ Head(txq) = txq[1] /\ Len(txq') = Len(txq) - 1 /\ Len(txq) \in Nat \ {0}
      /\ \A i \in 1..Len(txq') : txq'[i] = txq[i + 1]
  BY FirstWrite
<1>3. ASSUME halted', ~haltLost'
      PROVE  /\ \A i \in 1..Len(txq') : txq'[i].kind = "motor" =>
                  \E j \in 1..Len(txq') : i < j /\ txq'[j].kind = "off"
             /\ moving' => \E j \in 1..Len(txq') : txq'[j].kind = "off"
  <2>1. /\ \A i \in 1..Len(txq) : txq[i].kind = "motor" =>
             \E j \in 1..Len(txq) : i < j /\ txq[j].kind = "off"
        /\ moving => \E j \in 1..Len(txq) : txq[j].kind = "off"
    BY <1>3 DEF IInv, Halting
  <2>2. \A j \in 1..Len(txq) : j > 1 => j - 1 \in 1..Len(txq') /\ txq'[j - 1] = txq[j]
    BY <1>2
  <2>3. ASSUME NEW i \in 1..Len(txq'), txq'[i].kind = "motor"
        PROVE  \E j \in 1..Len(txq') : i < j /\ txq'[j].kind = "off"
    <3>1. i + 1 \in 1..Len(txq) /\ txq[i + 1].kind = "motor"
      BY <1>2, <2>3
    <3>2. PICK j \in 1..Len(txq) : i + 1 < j /\ txq[j].kind = "off"
      BY <2>1, <3>1
    <3>3. j - 1 \in 1..Len(txq') /\ txq'[j - 1] = txq[j] /\ i < j - 1
      BY <1>2, <2>2, <3>2
    <3> QED BY <3>2, <3>3
  <2>4. ASSUME moving' PROVE \E j \in 1..Len(txq') : txq'[j].kind = "off"
    <3>1. 1 \in 1..Len(txq)
      BY <1>2
    <3>2. PICK j \in 1..Len(txq) : 1 < j /\ txq[j].kind = "off"
      <4>1. CASE txq[1].kind = "motor"
        BY <2>1, <3>1, <4>1
      <4>2. CASE moving /\ txq[1].kind # "off"
        <5>1. PICK j \in 1..Len(txq) : txq[j].kind = "off"
          BY <2>1, <4>2
        <5> QED BY <1>2, <4>2, <5>1
      <4> QED BY <1>2, <1>3, <2>4, <4>1, <4>2
    <3> QED BY <2>2, <3>2
  <2> QED BY <2>3, <2>4
<1> QED BY <1>1, <1>3 DEF Halting

LEMMA WriteDoneKeeps ==
  ASSUME IInv, WriteDone
  PROVE  Kept
<1> DEFINE w == Head(txq)
<1>1. /\ UNCHANGED <<haltLost, debugging, mutex, waiter, frames, stopped, reqId, halted>>
      /\ txq # <<>> /\ txq' = Tail(txq)
      /\ moving' = (w.kind = "motor" \/ (moving /\ w.kind # "off"))
  BY DEF WriteDone
<1>2. /\ txq' \in Seq(Writes) /\ w \in Writes /\ w = txq[1]
      /\ Len(txq') = Len(txq) - 1 /\ Len(txq) \in Nat \ {0}
      /\ \A i \in 1..Len(txq') : txq'[i] = txq[i + 1]
      /\ w.kind = "ask" =>
           req.phase = "writing" /\ \A i \in 1..Len(txq') : txq'[i].kind # "ask"
  BY <1>1, FirstWrite
<1>3. Halting'
  BY <1>1, FirstHalting
<1>4. task' \in [Programs -> Places]
  <2>1. (\E where \in Places : Goto(w.by, where)) \/ UNCHANGED task
    BY DEF WriteDone, Places
  <2> QED BY <2>1, TaskTyped
<1>5. air' \in Seq(Answers)
  <2>1. [id |-> w.id, mine |-> w.mine] \in Answers
    BY <1>2 DEF Writes, Answers
  <2>2. air' = air \/ air' = Append(air, [id |-> w.id, mine |-> w.mine])
    BY DEF WriteDone
  <2>3. air \in Seq(Answers)
    BY DEF IInv, Data, Queues
  <2> HIDE DEF w
  <2>4. Append(air, [id |-> w.id, mine |-> w.mine]) \in Seq(Answers)
    BY <2>1, <2>3, Added
  <2> QED BY <2>2, <2>3, <2>4
<1>6. req' = IF w.kind = "ask" THEN [req EXCEPT !.phase = "waiting"] ELSE req
  BY DEF WriteDone
<1> HIDE DEF w
<1>7. /\ req' \in Trips /\ (req'.phase = "none" <=> req.phase = "none")
      /\ req'.id = req.id /\ req'.outcome = req.outcome
      /\ w.kind # "ask" => req'.phase = req.phase
  BY <1>2, <1>6 DEF IInv, Data, Scalars, Trips
<1>8. Data'
  BY <1>1, <1>2, <1>4, <1>5, <1>7 DEF IInv, Data, Scalars, Queues
<1>9. Round'
  <2>1. CASE w.kind = "ask"
    BY <1>1, <1>2, <1>7, <2>1 DEF IInv, Round, WaiterOwned
  <2>2. CASE w.kind # "ask"
    <3>1. \A i \in 1..Len(txq') : i + 1 \in 1..Len(txq)
      BY <1>2
    <3>2. \A i, j \in 1..Len(txq') : txq'[i].kind = "ask" /\ txq'[j].kind = "ask" => i = j
      <4>1. \A i, j \in 1..Len(txq') : txq'[i].kind = "ask" /\ txq'[j].kind = "ask" =>
               i + 1 = j + 1
        BY <1>2, <3>1 DEF IInv, Round
      <4> QED BY <1>2, <4>1
    <3>3. \A i \in 1..Len(txq') : txq'[i].kind = "ask" => req'.phase = "writing"
      BY <1>2, <1>7, <2>2, <3>1 DEF IInv, Round
    <3>4. WaiterOwned' /\ (req'.phase # "none" => mutex' # <<>>)
      BY <1>1, <1>7 DEF IInv, Round, WaiterOwned
    <3> QED BY <3>2, <3>3, <3>4 DEF Round
  <2> QED BY <2>1, <2>2
<1>10. Budget'
  BY <1>1, <1>7 DEF IInv, Budget
<1> QED BY <1>3, <1>8, <1>9, <1>10 DEF Kept

LEMMA WriteFailsKeeps ==
  ASSUME IInv, WriteFails
  PROVE  Kept
<1> DEFINE w == Head(txq)
<1>1. /\ UNCHANGED <<air, moving, debugging, waiter, frames, stopped, reqId, halted>>
      /\ txq # <<>> /\ txq' = Tail(txq)
      /\ haltLost' = (haltLost \/ w.kind = "off")
  BY DEF WriteFails
<1>2. /\ txq' \in Seq(Writes) /\ w \in Writes /\ w = txq[1]
      /\ Len(txq') = Len(txq) - 1 /\ Len(txq) \in Nat \ {0}
      /\ \A i \in 1..Len(txq') : txq'[i] = txq[i + 1]
      /\ w.kind = "ask" =>
           req.phase = "writing" /\ \A i \in 1..Len(txq') : txq'[i].kind # "ask"
  BY <1>1, FirstWrite
<1>3. Halting'
  BY <1>1, FirstHalting
<1>4. task' \in [Programs -> Places]
  <2>1. TripFails(w.by) \/ (\E where \in Places : Goto(w.by, where)) \/ UNCHANGED task
    BY DEF WriteFails, Places
  <2> QED BY <2>1, TaskTyped
<1>5. CASE w.kind = "ask"
  <2>1. TripEnds
    BY <1>5 DEF WriteFails
  <2>2. waiter' \in 0..MaxId /\ air' \in Seq(Answers)
    BY <1>1 DEF IInv, Data, Scalars, Queues
  <2> HIDE DEF w
  <2> QED BY <1>1, <1>2, <1>3, <1>4, <1>5, <2>1, <2>2, TripOver
<1>6. CASE w.kind # "ask"
  <2>1. UNCHANGED <<req, mutex>>
    BY <1>6 DEF WriteFails
  <2> HIDE DEF w
  <2>2. Data'
    BY <1>1, <1>2, <1>4, <2>1 DEF IInv, Data, Scalars, Queues
  <2>3. Round'
    <3>1. \A i \in 1..Len(txq') : i + 1 \in 1..Len(txq)
      BY <1>2
    <3>2. \A i, j \in 1..Len(txq') : txq'[i].kind = "ask" /\ txq'[j].kind = "ask" => i = j
      <4>1. \A i, j \in 1..Len(txq') : txq'[i].kind = "ask" /\ txq'[j].kind = "ask" =>
               i + 1 = j + 1
        BY <1>2, <3>1 DEF IInv, Round
      <4> QED BY <1>2, <4>1
    <3>3. \A i \in 1..Len(txq') : txq'[i].kind = "ask" => req'.phase = "writing"
      BY <1>2, <2>1, <3>1 DEF IInv, Round
    <3> QED BY <1>1, <2>1, <3>2, <3>3 DEF IInv, Round, WaiterOwned
  <2>4. Budget'
    BY <1>1, <2>1 DEF IInv, Budget
  <2> QED BY <1>3, <2>2, <2>3, <2>4 DEF Kept
<1> QED BY <1>5, <1>6

LEMMA NextKeeps == IInv /\ [Next]_vars => IInv'
<1> SUFFICES ASSUME IInv, [Next]_vars PROVE IInv'
  OBVIOUS
<1>1. CASE Next
  <2>1. Flags'
    BY <1>1, FlagsKept DEF IInv
  <2>2. Kept
    <3>1. ASSUME NEW p \in Programs, ClickRun(p) \/ Transpiled(p) \/ TranspileFails(p)
                                     \/ Settled(p) \/ TaskStep(p)
          PROVE  Kept
      BY <3>1, ProgramsKeep, CmdKeeps, WaitersKeep DEF TaskStep
    <3>2. CASE Stop \/ DebugMotor \/ LeaveDebug \/ PollTick
      BY <3>2, StopKeeps, DebugKeeps, WaitersKeep
    <3>3. CASE TripStart \/ TripSettles \/ Timeout \/ Notify
      BY <3>3, TripStartKeeps, TripSettlesKeeps, TimeoutKeeps, NotifyKeeps
    <3>4. CASE WriteDone \/ WriteFails \/ LinkDrops \/ Reconnect
      BY <3>4, WriteDoneKeeps, WriteFailsKeeps, LinkDropsKeeps, ReconnectKeeps
    <3> QED BY <1>1, <3>1, <3>2, <3>3, <3>4 DEF Next
  <2> QED BY <2>1, <2>2 DEF IInv, Kept
<1>2. CASE UNCHANGED vars
  BY <1>2 DEF vars, link, page, timer, trip, IInv, Flags, Data, Scalars, Queues, Round,
              WaiterOwned, Budget, Halting
<1> QED BY <1>1, <1>2

LEMMA Invariance == Spec => []IInv
  BY Initially, NextKeeps, PTL DEF Spec

-----------------------------------------------------------------------------
(* What follows.                                                           *)

(* The runtime's state keeps its types: in particular no request takes an  *)
(* id past the bound and a request is sent twice at most.                  *)
THEOREM TypeCorrect == Spec => []TypeOK
<1>1. IInv => TypeOK
  BY Types DEF IInv, Data
<1> QED BY <1>1, Invariance, PTL

(* The one waiter of whale_ble.js is that of the round trip under way for  *)
(* as long as the trip is undecided.                                       *)
THEOREM WaiterIsOwned == Spec => []WaiterOwned
<1>1. IInv => WaiterOwned
  BY DEF IInv, Round
<1> QED BY <1>1, Invariance, PTL

(* A halt that was sent takes effect, for any number of programs that run, *)
(* stop and lose the link, but for what passes the stop flag because the   *)
(* debug tab is open.                                                      *)
THEOREM HaltsTakeEffect == Spec => []HaltTakesEffect
<1>1. IInv => HaltTakesEffect
  <2> SUFFICES ASSUME IInv, halted, ~haltLost, txq = <<>> PROVE ~moving
    BY DEF HaltTakesEffect
  <2>1. Len(txq) = 0
    OBVIOUS
  <2>2. moving => \E j \in 1..Len(txq) : txq[j].kind = "off"
    BY DEF IInv, Halting
  <2> QED BY <2>1, <2>2
<1> QED BY <1>1, Invariance, PTL

-----------------------------------------------------------------------------
(* One program: the numbers of its session.                                *)

(* Nothing was asked before the program began.                             *)
Unbegun == \A p \in Programs : task[p] \in {"idle", "starting"}
Silent ==
  /\ ~polling /\ mutex = <<>> /\ frames = <<>> /\ air = <<>> /\ req = NoTrip /\ waiter = 0
  /\ \A i \in 1..Len(txq) : txq[i].kind # "ask"

\* What came of earlier round trips has another id than this one's.
Older(e) == e.id <= reqId /\ (req.phase # "none" /\ ~e.mine => e.id # req.id)

Numbered ==
  /\ req.id <= reqId
  /\ req.phase # "none" => waiter \in {0, req.id}
  /\ \A i \in 1..Len(frames) : Older(frames[i])
  /\ \A i \in 1..Len(air) : Older(air[i])
  /\ \A i \in 1..Len(txq) : txq[i].kind = "ask" => Older(txq[i])
  /\ AnswerMatches

Ids == Numbered /\ (Unbegun => Silent)

(* A request or answer that moves on, or is sent once more.                *)
LEMMA Flows ==
  ASSUME IInv, IInv', Numbered, reqId <= reqId',
         \A i \in 1..Len(frames') :
            \/ \E k \in 1..Len(frames) : frames'[i] = frames[k]
            \/ \E k \in 1..Len(air) : frames'[i] = air[k],
         \A i \in 1..Len(air') :
            \/ \E k \in 1..Len(air) : air'[i] = air[k]
            \/ \E k \in 1..Len(txq) : /\ txq[k].kind = "ask" /\ air'[i].id = txq[k].id
                                      /\ air'[i].mine = txq[k].mine,
         \A i \in 1..Len(txq') : txq'[i].kind = "ask" =>
            \/ \E k \in 1..Len(txq) : txq'[i] = txq[k]
            \/ txq'[i].mine /\ txq'[i].id = req.id,
         req'.phase # "none" =>
            req.phase # "none" /\ req'.id = req.id /\ waiter' \in {0, req.id},
         req'.id \in {0, req.id}, req'.outcome # "stranger"
  PROVE  Numbered'
<1>1. reqId \in Nat /\ reqId' \in Nat /\ req.id \in Nat
  BY DEF IInv, Data, Scalars, Trips
<1>2. /\ \A i \in 1..Len(frames) : frames[i].id \in Nat
      /\ \A i \in 1..Len(air) : air[i].id \in Nat
      /\ \A i \in 1..Len(txq) : txq[i].id \in Nat
  <2>1. frames \in Seq(Answers) /\ air \in Seq(Answers) /\ txq \in Seq(Writes)
    BY DEF IInv, Data, Queues
  <2>2. \A e \in Answers : e.id \in Nat
    BY DEF Answers
  <2>3. \A w \in Writes : w.id \in Nat
    BY DEF Writes
  <2>4. /\ \A i \in 1..Len(frames) : frames[i] \in Answers
        /\ \A i \in 1..Len(air) : air[i] \in Answers
        /\ \A i \in 1..Len(txq) : txq[i] \in Writes
    BY <2>1, ElementOfSeq
  <2> QED BY <2>2, <2>3, <2>4
<1>3. req'.id <= reqId'
  BY <1>1 DEF Numbered
<1>4. ASSUME NEW e, Older(e), e.id \in Nat, NEW f, f.id = e.id, f.mine = e.mine
      PROVE  f.id <= reqId' /\ (req'.phase # "none" /\ ~f.mine => f.id # req'.id)
  BY <1>1, <1>4 DEF Older
<1>5. ASSUME NEW i \in 1..Len(frames') PROVE Older(frames[i])'
  <2>1. CASE \E k \in 1..Len(frames) : frames'[i] = frames[k]
    <3>1. PICK k \in 1..Len(frames) : frames'[i] = frames[k]
      BY <2>1
    <3>2. Older(frames[k]) /\ frames[k].id \in Nat
      BY <1>2 DEF Numbered
    <3> QED BY <1>4, <3>1, <3>2 DEF Older
  <2>2. CASE \E k \in 1..Len(air) : frames'[i] = air[k]
    <3>1. PICK k \in 1..Len(air) : frames'[i] = air[k]
      BY <2>2
    <3>2. Older(air[k]) /\ air[k].id \in Nat
      BY <1>2 DEF Numbered
    <3> QED BY <1>4, <3>1, <3>2 DEF Older
  <2> QED BY <2>1, <2>2
<1>6. ASSUME NEW i \in 1..Len(air') PROVE Older(air[i])'
  <2>1. CASE \E k \in 1..Len(air) : air'[i] = air[k]
    <3>1. PICK k \in 1..Len(air) : air'[i] = air[k]
      BY <2>1
    <3>2. Older(air[k]) /\ air[k].id \in Nat
      BY <1>2 DEF Numbered
    <3> QED BY <1>4, <3>1, <3>2 DEF Older
  <2>2. CASE \E k \in 1..Len(txq) : /\ txq[k].kind = "ask" /\ air'[i].id = txq[k].id
                                    /\ air'[i].mine = txq[k].mine
    <3>1. PICK k \in 1..Len(txq) : /\ txq[k].kind = "ask" /\ air'[i].id = txq[k].id
                                  /\ air'[i].mine = txq[k].mine
      BY <2>2
    <3>2. Older(txq[k]) /\ txq[k].id \in Nat
      BY <1>2, <3>1 DEF Numbered
    <3> QED BY <1>4, <3>1, <3>2 DEF Older
  <2> QED BY <2>1, <2>2
<1>7. ASSUME NEW i \in 1..Len(txq'), txq'[i].kind = "ask" PROVE Older(txq[i])'
  <2>1. CASE \E k \in 1..Len(txq) : txq'[i] = txq[k]
    <3>1. PICK k \in 1..Len(txq) : txq'[i] = txq[k]
      BY <2>1
    <3>2. Older(txq[k]) /\ txq[k].id \in Nat
      BY <1>2, <1>7, <3>1 DEF Numbered
    <3> QED BY <1>4, <3>1, <3>2 DEF Older
  <2>2. CASE txq'[i].mine /\ txq'[i].id = req.id
    BY <1>1, <2>2 DEF Numbered, Older
  <2> QED BY <1>7, <2>1, <2>2
<1> QED BY <1>3, <1>5, <1>6, <1>7 DEF Numbered, AnswerMatches

LEMMA BeganStays ==
  ASSUME IInv, Next, Unbegun'
  PROVE  Unbegun
<1> SUFFICES ASSUME NEW p \in Programs, task[p] \notin {"idle", "starting"} PROVE FALSE
  BY DEF Unbegun
<1>1. task \in [Programs -> Places] /\ task'[p] \in {"idle", "starting"}
  BY DEF IInv, Data, Scalars, Unbegun
<1>2. ASSUME NEW q, NEW where \in Places \ {"idle", "starting"}, Goto(q, where) PROVE FALSE
  BY <1>1, <1>2 DEF Goto, Places
<1>3. ASSUME NEW q \in Programs, ClickRun(q) PROVE FALSE
  <2>1. task[q] = "idle" /\ \E where \in Places : Goto(q, where)
    BY <1>3 DEF ClickRun, Begin, Places
  <2> QED BY <1>1, <2>1 DEF Goto
<1>4. \/ UNCHANGED task
      \/ \E q \in Programs : ClickRun(q)
      \/ \E q, where : where \in Places \ {"idle", "starting"} /\ Goto(q, where)
  <2>1. ASSUME NEW q \in Programs,
               Transpiled(q) \/ TranspileFails(q) \/ Settled(q) \/ TaskStep(q)
        PROVE  \E where \in Places \ {"idle", "starting"} : Goto(q, where)
    BY <2>1 DEF Transpiled, TranspileFails, Begin, Settled, TaskStep, Cmd, Ask, WakeOrReturn, Places
  <2>2. CASE Stop \/ DebugMotor \/ LeaveDebug \/ PollTick \/ Notify \/ LinkDrops \/ Reconnect
    BY <2>2 DEF Stop, DebugMotor, LeaveDebug, PollTick, Notify, LinkDrops, Reconnect, page
  <2>3. CASE TripStart \/ TripSettles \/ Timeout
    BY <2>3 DEF TripStart, TripSettles, Timeout, TripFails, TripSucceeds, Places
  <2>4. CASE WriteDone \/ WriteFails
    BY <2>4 DEF WriteDone, WriteFails, TripFails, Places
  <2> QED BY <2>1, <2>2, <2>3, <2>4 DEF Next
<1> QED BY <1>1, <1>2, <1>3, <1>4

LEMMA SilentStays ==
  ASSUME IInv, IInv', Unbegun, Silent, Next, Unbegun'
  PROVE  Silent'
<1>0. req' = NoTrip => \A i \in 1..Len(txq') : txq'[i].kind # "ask"
  BY DEF NoTrip, IInv, Round
<1>1. ASSUME NEW p \in Programs, TaskStep(p) \/ Settled(p) \/ TranspileFails(p) PROVE FALSE
  <2>1. CASE TranspileFails(p)
    BY <2>1 DEF TranspileFails, Goto, Unbegun, IInv, Data, Scalars
  <2> QED BY <1>1, <2>1 DEF TaskStep, Cmd, Ask, WakeOrReturn, Settled, Unbegun
<1>2. ASSUME NEW p \in Programs, ClickRun(p) \/ Transpiled(p) PROVE Silent'
  <2>1. UNCHANGED <<mutex, frames, air, req, waiter, txq>>
    BY <1>2 DEF ClickRun, Transpiled, trip, link
  <2>2. ~polling'
    <3>1. task \in [Programs -> Places] /\ task'[p] \in {"idle", "starting"}
      BY DEF IInv, Data, Scalars, Unbegun
    <3>2. ~Begin(p)
      BY <3>1 DEF Begin, Goto
    <3> QED BY <1>2, <3>2 DEF ClickRun, Transpiled, timer, Silent
  <2> QED BY <2>1, <2>2 DEF Silent
<1>3. CASE Stop
  <2>1. /\ UNCHANGED <<mutex, frames, air>> /\ ~polling' /\ req' = NoTrip /\ waiter' = 0
    BY <1>3 DEF Stop, RejectWaiter, Silent
  <2> QED BY <1>0, <2>1 DEF Silent
<1>4. CASE DebugMotor \/ LeaveDebug \/ PollTick \/ Reconnect \/ LinkDrops
  <2>1. UNCHANGED mutex /\ ~polling' /\ frames' = <<>> /\ air' = <<>>
        /\ req' = NoTrip /\ waiter' = 0
    BY <1>4 DEF DebugMotor, LeaveDebug, PollTick, Reconnect, LinkDrops, RejectWaiter,
                Silent, link, page, timer, trip
  <2> QED BY <1>0, <2>1 DEF Silent
<1>5. CASE TripStart \/ TripSettles \/ Timeout \/ Notify
  BY <1>5 DEF TripStart, TripSettles, Timeout, Notify, Silent, NoTrip
<1>6. CASE WriteDone \/ WriteFails
  <2>1. txq # <<>> /\ Head(txq).kind # "ask"
    BY <1>6, Taken DEF WriteDone, WriteFails, IInv, Data, Queues, Silent
  <2>2. UNCHANGED <<mutex, frames, air, req, waiter, polling>>
    BY <1>6, <2>1 DEF WriteDone, WriteFails, timer
  <2> QED BY <1>0, <2>2 DEF Silent
<1> QED BY <1>1, <1>2, <1>3, <1>4, <1>5, <1>6 DEF Next

LEMMA NumbersKept ==
  ASSUME IInv, IInv', Ids, Next, NEW only, Programs = {only}
  PROVE  Numbered'
<1> USE DEF Ids
<1>1. ASSUME NEW p \in Programs, ClickRun(p) \/ Transpiled(p) PROVE Numbered'
  <2>1. Silent
    BY <1>1 DEF ClickRun, Transpiled, Unbegun
  <2>2. UNCHANGED <<frames, air, req, waiter, txq>> /\ reqId' \in Nat
    BY <1>1 DEF ClickRun, Transpiled, trip, link, IInv, Data, Scalars
  <2>3. frames' = <<>> /\ air' = <<>> /\ req' = NoTrip
        /\ \A i \in 1..Len(txq') : txq'[i].kind # "ask"
    BY <2>1, <2>2 DEF Silent
  <2> QED BY <2>2, <2>3 DEF Numbered, NoTrip, AnswerMatches
<1>2. CASE UNCHANGED <<frames, air, req, waiter>> /\ reqId <= reqId'
           /\ \A i \in 1..Len(txq') : txq'[i].kind = "ask" =>
                \E k \in 1..Len(txq) : txq'[i] = txq[k]
  BY <1>2, Flows DEF Numbered, AnswerMatches
<1>3. reqId \in Nat /\ Len(txq) \in Nat
  BY LenProperties DEF IInv, Data, Scalars, Queues
<1>4. ASSUME NEW p \in Programs, Settled(p) \/ TranspileFails(p) \/ TaskStep(p)
      PROVE  Numbered'
  <2>1. CASE UNCHANGED <<txq, reqId>>
    BY <1>2, <1>3, <1>4, <2>1 DEF Settled, TranspileFails, TaskStep, Cmd, Ask,
       WakeOrReturn, link, trip
  <2>2. CASE Cmd(p) /\ txq' = Append(txq, Write("motor", p, 0)) /\ reqId' = reqId + 1
    <3>1. Write("motor", p, 0) \in Writes /\ Write("motor", p, 0).kind = "motor"
      BY DEF Write, Writes, Owners
    <3>2. /\ Len(txq') = Len(txq) + 1 /\ \A i \in 1..Len(txq) : txq'[i] = txq[i]
          /\ txq'[Len(txq) + 1].kind = "motor"
      BY <2>2, <3>1, Added DEF IInv, Data, Queues
    <3> QED BY <1>2, <1>3, <2>2, <3>2 DEF Cmd, link, trip
  <2> QED BY <1>4, <2>1, <2>2 DEF Settled, TranspileFails, TaskStep, Cmd, Ask,
          WakeOrReturn, trip
<1>5. CASE DebugMotor \/ LeaveDebug \/ PollTick
  <2>1. CASE UNCHANGED <<txq, reqId>>
    BY <1>2, <1>3, <1>5, <2>1 DEF DebugMotor, LeaveDebug, PollTick, link, trip
  <2>2. CASE /\ DebugMotor /\ txq' = Append(txq, Write("motor", "ui", 0))
             /\ reqId' = reqId + 1
    <3>1. Write("motor", "ui", 0) \in Writes /\ Write("motor", "ui", 0).kind = "motor"
      BY DEF Write, Writes
    <3>2. /\ Len(txq') = Len(txq) + 1 /\ \A i \in 1..Len(txq) : txq'[i] = txq[i]
          /\ txq'[Len(txq) + 1].kind = "motor"
      BY <2>2, <3>1, Added DEF IInv, Data, Queues
    <3> QED BY <1>2, <1>3, <2>2, <3>2 DEF DebugMotor, link, trip
  <2> QED BY <1>5, <2>1, <2>2 DEF DebugMotor, LeaveDebug, PollTick
<1>6. CASE Stop \/ LinkDrops
  <2>1. PICK reason \in {"stopped", "lost"} : RejectWaiter(reason)
    BY <1>6 DEF Stop, LinkDrops
  <2>2. req'.phase = req.phase /\ req'.id = req.id /\ waiter' = 0
    BY <2>1, Rejected DEF RejectWaiter
  <2>3. req'.outcome # "stranger"
    BY <2>1 DEF RejectWaiter, Numbered, AnswerMatches, IInv, Data, Scalars, Trips
  <2>4. UNCHANGED frames /\ (air' = air \/ air' = <<>>)
    BY <1>6 DEF Stop, LinkDrops
  <2>5. reqId <= reqId' /\ \A i \in 1..Len(txq') : txq'[i].kind = "ask" =>
                               \E k \in 1..Len(txq) : txq'[i] = txq[k]
    <3>1. CASE UNCHANGED <<txq, reqId>>
      BY <1>3, <3>1
    <3>2. CASE /\ txq' = txq \o <<Write("halt", "ui", 0), Write("off", "ui", 0)>>
               /\ reqId' = reqId + 2
      <4> DEFINE h == Write("halt", "ui", 0)
                 o == Write("off", "ui", 0)
      <4>1. h \in Writes /\ o \in Writes /\ h.kind # "ask" /\ o.kind # "ask"
        BY DEF Write, Writes
      <4> HIDE DEF h, o
      <4>2. <<h, o>> \in Seq(Writes) /\ Len(<<h, o>>) = 2 /\ <<h, o>>[1] = h /\ <<h, o>>[2] = o
        BY <4>1
      <4>3. txq \in Seq(Writes)
        BY DEF IInv, Data, Queues
      <4>4. Len(txq \o <<h, o>>) = Len(txq) + 2
            /\ \A i \in 1..Len(txq) + 2 : (txq \o <<h, o>>)[i] =
                 IF i <= Len(txq) THEN txq[i] ELSE <<h, o>>[i - Len(txq)]
        BY <4>2, <4>3, ConcatProperties
      <4>5. txq' = txq \o <<h, o>>
        BY <3>2 DEF h, o
      <4>6. ASSUME NEW i \in 1..Len(txq'), txq'[i].kind = "ask"
            PROVE  \E k \in 1..Len(txq) : txq'[i] = txq[k]
        BY <1>3, <4>1, <4>2, <4>4, <4>5, <4>6
      <4> QED BY <1>3, <3>2, <4>6
    <3> QED BY <1>6, <3>1, <3>2 DEF Stop, LinkDrops
  <2> QED BY <2>2, <2>3, <2>4, <2>5, Flows
<1>7. CASE Reconnect
  <2>1. UNCHANGED <<air, req, waiter, txq, reqId>> /\ frames' = <<>>
    BY <1>7 DEF Reconnect
  <2> QED BY <1>3, <2>1, Flows DEF Numbered, AnswerMatches
<1>8. CASE TripSettles
  <2>1. UNCHANGED <<air, frames, waiter, txq, reqId>> /\ req' = NoTrip
    BY <1>8 DEF TripSettles, TripEnds, link
  <2> QED BY <1>3, <2>1, Flows DEF NoTrip
<1>9. CASE Timeout
  <2>1. UNCHANGED <<air, frames, reqId>>
    BY <1>9 DEF Timeout, link
  <2>2. CASE req' = NoTrip /\ UNCHANGED txq
    BY <1>3, <2>1, <2>2, Flows DEF NoTrip
  <2>3. CASE /\ req' = [req EXCEPT !.attempt = 1, !.phase = "writing"] /\ waiter' = req.id
             /\ txq' = Append(txq, Write("ask", Head(mutex), req.id))
    <3> DEFINE w == Write("ask", Head(mutex), req.id)
    <3>1. mutex # <<>> /\ req.phase = "waiting"
      BY <1>9 DEF Timeout, IInv, Round
    <3>2. Head(mutex) \in Owners /\ req.id \in 0..MaxId
      BY <3>1, Taken DEF IInv, Data, Queues, Scalars, Trips
    <3>3. w \in Writes /\ w.kind = "ask" /\ w.mine /\ w.id = req.id
      BY <3>2 DEF Write, Writes
    <3>4. req'.phase = "writing" /\ req'.id = req.id /\ req'.outcome = req.outcome
      BY <2>3 DEF IInv, Data, Scalars, Trips
    <3> HIDE DEF w
    <3>5. /\ Len(txq') = Len(txq) + 1 /\ \A i \in 1..Len(txq) : txq'[i] = txq[i]
          /\ txq'[Len(txq) + 1] = w
      BY <2>3, <3>3, Added DEF IInv, Data, Queues, w
    <3>6. \A i \in 1..Len(txq') : \/ \E k \in 1..Len(txq) : txq'[i] = txq[k]
                                  \/ txq'[i].mine /\ txq'[i].id = req.id
      BY <1>3, <3>3, <3>5
    <3>7. req'.outcome # "stranger" /\ reqId <= reqId'
      BY <1>3, <2>1, <3>4 DEF Numbered, AnswerMatches
    <3> QED BY <2>1, <2>3, <3>1, <3>4, <3>6, <3>7, Flows
  <2> QED BY <1>9, <2>2, <2>3 DEF Timeout, TripEnds
<1>10. CASE WriteDone \/ WriteFails
  <2> DEFINE w == Head(txq)
  <2>1. UNCHANGED <<frames, waiter, reqId>> /\ txq # <<>> /\ txq' = Tail(txq)
    BY <1>10 DEF WriteDone, WriteFails
  <2>2. /\ w = txq[1] /\ Len(txq') = Len(txq) - 1 /\ Len(txq) \in Nat \ {0}
        /\ \A i \in 1..Len(txq') : txq'[i] = txq[i + 1]
        /\ w \in Writes
        /\ w.kind = "ask" => req.phase = "writing"
    BY <2>1, FirstWrite
  <2>3. \A i \in 1..Len(txq') : \E k \in 1..Len(txq) : txq'[i] = txq[k]
    BY <2>2
  <2>4. \/ req' = NoTrip \/ req' = req
        \/ w.kind = "ask" /\ req' = [req EXCEPT !.phase = "waiting"]
    BY <1>10 DEF WriteDone, WriteFails, TripEnds
  <2>5. air' = air \/ (w.kind = "ask" /\ air' = Append(air, [id |-> w.id, mine |-> w.mine]))
    BY <1>10 DEF WriteDone, WriteFails
  <2> HIDE DEF w
  <2>6. /\ req'.phase # "none" =>
             req.phase # "none" /\ req'.id = req.id /\ waiter' \in {0, req.id}
        /\ req'.id \in {0, req.id} /\ req'.outcome # "stranger"
    <3>1. CASE req' = NoTrip
      BY <3>1 DEF NoTrip
    <3>2. CASE req' = req
      BY <2>1, <3>2 DEF Numbered, AnswerMatches
    <3>3. CASE w.kind = "ask" /\ req' = [req EXCEPT !.phase = "waiting"]
      <4>1. req.phase = "writing" /\ req'.id = req.id /\ req'.outcome = req.outcome
        BY <2>2, <3>3 DEF IInv, Data, Scalars, Trips
      <4> QED BY <2>1, <4>1 DEF Numbered, AnswerMatches
    <3> QED BY <2>4, <3>1, <3>2, <3>3
  <2>7. ASSUME NEW i \in 1..Len(air')
        PROVE  \/ \E k \in 1..Len(air) : air'[i] = air[k]
               \/ \E k \in 1..Len(txq) : /\ txq[k].kind = "ask" /\ air'[i].id = txq[k].id
                                         /\ air'[i].mine = txq[k].mine
    <3>1. CASE air' = air
      BY <3>1
    <3>2. CASE w.kind = "ask" /\ air' = Append(air, [id |-> w.id, mine |-> w.mine])
      <4>1. [id |-> w.id, mine |-> w.mine] \in Answers
        BY <2>2 DEF Writes, Answers
      <4> DEFINE e == [id |-> w.id, mine |-> w.mine]
      <4>2. e.id = w.id /\ e.mine = w.mine
        OBVIOUS
      <4> HIDE DEF e
      <4>3. /\ Len(air') = Len(air) + 1 /\ Len(air) \in Nat
            /\ \A k \in 1..Len(air) : air'[k] = air[k]
            /\ air'[Len(air) + 1] = e
        BY <3>2, <4>1, Added DEF IInv, Data, Queues, e
      <4>4. CASE i \in 1..Len(air)
        BY <4>3, <4>4
      <4>5. CASE i = Len(air) + 1
        <5>1. 1 \in 1..Len(txq) /\ txq[1].kind = "ask"
          BY <2>2, <3>2
        <5>2. air'[i].id = txq[1].id /\ air'[i].mine = txq[1].mine
          BY <2>2, <4>2, <4>3, <4>5
        <5> QED BY <5>1, <5>2
      <4> QED BY <4>3, <4>4, <4>5
    <3> QED BY <2>5, <3>1, <3>2
  <2>8. reqId <= reqId'
    BY <1>3, <2>1
  <2> QED BY <2>1, <2>3, <2>6, <2>7, <2>8, Flows
<1>11. CASE Notify
  <2> DEFINE inbox == Append(frames, Head(air))
             matches == {i \in 1..Len(inbox) : waiter # 0 /\ inbox[i].id = waiter}
  <2>1. UNCHANGED <<txq, reqId>> /\ air # <<>> /\ air' = Tail(air)
    BY <1>11 DEF Notify
  <2>2. /\ Head(air) \in Answers /\ Head(air) = air[1]
        /\ Len(air') = Len(air) - 1 /\ Len(air) \in Nat \ {0}
        /\ \A i \in 1..Len(air') : air'[i] = air[i + 1]
    BY <2>1, Taken DEF IInv, Data, Queues
  <2>3. /\ inbox \in Seq(Answers) /\ Len(inbox) = Len(frames) + 1 /\ Len(frames) \in Nat
        /\ \A i \in 1..Len(frames) : inbox[i] = frames[i]
        /\ inbox[Len(frames) + 1] = air[1]
    BY <2>2, Added DEF IInv, Data, Queues
  <2>4. \/ frames' = inbox /\ UNCHANGED <<req, waiter>>
        \/ \E i \in matches :
             /\ frames' = RemoveAt(inbox, i) /\ waiter' = 0
             /\ req' = IF req.phase = "none" THEN req
                       ELSE [req EXCEPT !.outcome =
                               IF inbox[i].mine THEN "answer" ELSE "stranger"]
    BY <1>11 DEF Notify
  <2> HIDE DEF inbox
  <2>5. \A m \in 1..Len(inbox) : \/ \E k \in 1..Len(frames) : inbox[m] = frames[k]
                                 \/ \E k \in 1..Len(air) : inbox[m] = air[k]
    BY <2>2, <2>3
  <2>6. \A i \in 1..Len(air') : \E k \in 1..Len(air) : air'[i] = air[k]
    BY <2>2
  <2>7. CASE frames' = inbox /\ UNCHANGED <<req, waiter>>
    BY <1>3, <2>1, <2>5, <2>6, <2>7, Flows DEF Numbered, AnswerMatches
  <2>8. ASSUME NEW i \in matches, frames' = RemoveAt(inbox, i), waiter' = 0,
               req' = IF req.phase = "none" THEN req
                      ELSE [req EXCEPT !.outcome =
                              IF inbox[i].mine THEN "answer" ELSE "stranger"]
        PROVE  Numbered'
    <3>1. i \in 1..Len(inbox) /\ waiter # 0 /\ inbox[i].id = waiter
      OBVIOUS
    <3>2. \A m \in 1..Len(frames') : \/ \E k \in 1..Len(frames) : frames'[m] = frames[k]
                                     \/ \E k \in 1..Len(air) : frames'[m] = air[k]
      <4> SUFFICES ASSUME NEW m \in 1..Len(frames')
                   PROVE  \/ \E k \in 1..Len(frames) : frames'[m] = frames[k]
                          \/ \E k \in 1..Len(air) : frames'[m] = air[k]
        OBVIOUS
      <4>1. PICK n \in 1..Len(inbox) : frames'[m] = inbox[n]
        BY <2>3, <2>8, <3>1, Removed
      <4>2. \/ \E k \in 1..Len(frames) : inbox[n] = frames[k]
            \/ \E k \in 1..Len(air) : inbox[n] = air[k]
        BY <2>5
      <4> QED BY <4>1, <4>2
    <3>3. Older(inbox[i])
      BY <2>5, <3>1 DEF Numbered
    <3>4. req.phase # "none" => inbox[i].mine
      BY <3>1, <3>3 DEF Numbered, Older
    <3>5. req'.phase = req.phase /\ req'.id = req.id /\ req'.outcome # "stranger"
      <4>1. CASE req.phase = "none"
        BY <2>8, <4>1 DEF Numbered, AnswerMatches
      <4>2. CASE req.phase # "none"
        <5>1. req' = [req EXCEPT !.outcome = "answer"]
          BY <2>8, <3>4, <4>2
        <5> QED BY <5>1 DEF IInv, Data, Scalars, Trips
      <4> QED BY <4>1, <4>2
    <3>6. waiter' = 0 /\ reqId <= reqId'
      BY <1>3, <2>1, <2>8
    <3>7. \A m \in 1..Len(txq') : \E k \in 1..Len(txq) : txq'[m] = txq[k]
      BY <2>1
    <3> QED BY <2>6, <3>2, <3>5, <3>6, <3>7, Flows
  <2> QED BY <2>4, <2>7, <2>8
<1>12. CASE TripStart
  <2>1. CASE UNCHANGED <<req, waiter, frames, reqId, txq, air>>
    BY <1>2, <1>3, <2>1
  <2>2. CASE ~UNCHANGED <<req, waiter, frames, reqId, txq, air>>
    <3> DEFINE w == Write("ask", Head(mutex), reqId')
    <3>1. /\ frames' = <<>> /\ air' = Others(air) /\ reqId' = reqId + 1
          /\ req' = [NoTrip EXCEPT !.phase = "writing", !.id = reqId']
          /\ waiter' = reqId' /\ txq' = Append(Others(txq), w)
      BY <1>12, <2>2 DEF TripStart
    <3>2. req'.id = reqId' /\ req'.outcome = "none"
      BY <3>1 DEF NoTrip
    <3>3. Head(mutex) \in Owners /\ reqId' \in 0..MaxId
      BY <1>12, Taken DEF TripStart, IInv, Data, Queues, Scalars
    <3>4. w \in Writes /\ w.mine /\ w.id = reqId'
      BY <3>3 DEF Write, Writes
    <3> HIDE DEF w
    <3>5. \A i \in 1..Len(txq) : txq[i].kind # "ask"
      BY <1>12 DEF TripStart, IInv, Round
    <3>6. /\ Others(txq) \in Seq(Writes) /\ Len(Others(txq)) = Len(txq)
          /\ \A i \in 1..Len(txq) : Others(txq)[i].kind = txq[i].kind
      BY OthersOfWrites DEF IInv, Data, Queues
    <3>7. /\ Len(txq') = Len(txq) + 1
          /\ \A i \in 1..Len(txq) : txq'[i].kind # "ask"
          /\ txq'[Len(txq) + 1] = w
      BY <3>1, <3>4, <3>5, <3>6, Added
    <3>8. \A i \in 1..Len(txq') : txq'[i].kind = "ask" => Older(txq[i])'
      BY <1>3, <3>1, <3>4, <3>7 DEF Older
    <3>9. \A i \in 1..Len(air') : air'[i].id \in Nat /\ air'[i].id <= reqId
      <4>1. air \in Seq(Answers)
        BY DEF IInv, Data, Queues
      <4>2. \A i \in 1..Len(air) : air[i].id \in Nat /\ air[i].id <= reqId
        <5>1. \A i \in 1..Len(air) : air[i] \in Answers
          BY <4>1, ElementOfSeq
        <5> QED BY <5>1 DEF Answers, Numbered, Older
      <4> QED BY <3>1, <4>1, <4>2, OthersOfAnswers
    <3>10. \A i \in 1..Len(air') : Older(air[i])'
      BY <1>3, <3>1, <3>2, <3>9 DEF Older
    <3> QED BY <1>3, <3>1, <3>2, <3>8, <3>10 DEF Numbered, AnswerMatches
  <2> QED BY <2>1, <2>2
<1> QED BY <1>1, <1>4, <1>5, <1>6, <1>7, <1>8, <1>9, <1>10, <1>11, <1>12 DEF Next

(* When only one program is ever run, a reader never gets the answer to    *)
(* another request: in whale_ble.js ids start anew with a program only.    *)
THEOREM AnswersMatch ==
  ASSUME NEW only, Programs = {only}
  PROVE  Spec => []AnswerMatches
<1>1. Init => Ids
  BY DEF Init, Ids, Numbered, Silent, NoTrip, AnswerMatches
<1>2. IInv /\ IInv' /\ Ids /\ [Next]_vars => Ids'
  <2> SUFFICES ASSUME IInv, IInv', Ids, [Next]_vars PROVE Ids'
    OBVIOUS
  <2>1. CASE Next
    BY <2>1, NumbersKept, BeganStays, SilentStays DEF Ids
  <2>2. CASE UNCHANGED vars
    BY <2>2 DEF vars, link, page, timer, trip, Ids, Numbered, Older, AnswerMatches,
                Unbegun, Silent
  <2> QED BY <2>1, <2>2
<1>3. Ids => AnswerMatches
  BY DEF Ids, Numbered
<1> QED BY <1>1, <1>2, <1>3, Invariance, PTL DEF Spec
=============================================================================
