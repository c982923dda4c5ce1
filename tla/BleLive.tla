-------------------------------- MODULE BleLive --------------------------------
(***************************************************************************)
(* Running a program live over Bluetooth: the whale runtime of             *)
(* static/js/whale_ble.js and the page's Run and Stop handlers of          *)
(* static/app.js.                                                          *)
(*                                                                         *)
(* JavaScript runs one callback at a time, so an action is the code from   *)
(* one await to the next.  Program tasks, the background poll and the      *)
(* debug tab share one queue of writes (_sendRaw) and one mutex for round  *)
(* trips (_request); the link delivers answers late or never.              *)
(*                                                                         *)
(* A program is the one task that user_main is; reads answered from the    *)
(* sensor cache change nothing and are not steps.                          *)
(***************************************************************************)
EXTENDS Integers, Sequences, SequencesExt

CONSTANTS
  Programs,   (* programs the user may run, each once                      *)
  MaxId,      (* bound: request ids used per session; below 256, so that   *)
              (* the wrap of _nextId is out of the picture                 *)
  MaxPolls,   (* bound: poll requests waiting for the mutex                *)
  DebugTab,   (* whether the user also drives motors from the debug tab    *)
  SlowStart   (* whether the program is transpiled by the server, so that  *)
              (* doRunLive awaits between its check and its start          *)

ASSUME BleLiveAssumption ==
  /\ MaxId \in Nat /\ MaxPolls \in Nat
  /\ DebugTab \in BOOLEAN /\ SlowStart \in BOOLEAN

VARIABLES
  connected,   (* isConnected()                                            *)
  stopped,     (* whale.stopped                                            *)
  debugging,   (* whale._debugging                                         *)
  live,        (* liveRunning, what the Run button shows                   *)
  polling,     (* the poll timer runs                                      *)
  registered,  (* _sensorDefs holds the sensor                             *)
  reqId,       (* _reqId                                                   *)
  task,        (* task[p]: where program p is                              *)
  txq,         (* queued writes; the first is in flight                    *)
  mutex,       (* who has and who waits for _reqMutex                      *)
  req,         (* the round trip of the holder, inside _requestInner       *)
  waiter,      (* id the _waiter waits for, 0 if there is none             *)
  frames,      (* _frames: answers nobody has taken                        *)
  air,         (* answers on their way back                                *)
  moving,      (* a motor of the controller runs                           *)
  halted,      (* history: stop() sent the halt, and since then nobody     *)
               (* began a program, drove a motor from the debug tab or got *)
               (* past the stop flag because that tab was open             *)
  haltLost     (* history: the write of a halt failed                      *)

link == <<connected, air, moving, haltLost>>
page == <<debugging, live, task>>
timer == <<polling, registered>>
trip == <<mutex, req, waiter, frames>>
vars == <<link, page, timer, trip, stopped, reqId, txq, halted>>

Poll == "poll"
Owners == Programs \cup {Poll}

(* An answer knows whether it belongs to the round trip under way.         *)
Answers == [id : 0..MaxId, mine : BOOLEAN]
Writes == [kind : {"motor", "ask", "halt", "off"},
           by : Owners \cup {"ui"}, id : 0..MaxId, mine : BOOLEAN]

NoTrip == [phase |-> "none", id |-> 0, attempt |-> 0, outcome |-> "none"]

Init ==
  /\ connected = TRUE /\ stopped = TRUE /\ debugging = FALSE /\ live = FALSE
  /\ polling = FALSE /\ registered = FALSE /\ reqId = 0
  /\ task = [p \in Programs |-> "idle"]
  /\ txq = <<>> /\ mutex = <<>> /\ req = NoTrip /\ waiter = 0
  /\ frames = <<>> /\ air = <<>>
  /\ moving = FALSE /\ halted = FALSE /\ haltLost = FALSE

Write(kind, by, id) == [kind |-> kind, by |-> by, id |-> id, mine |-> kind = "ask"]

Goto(p, where) == task' = [task EXCEPT ![p] = where]

\* The check at the head of _cmd, _request and _sensor.
Refused == stopped /\ ~debugging

\* There are ids left for what waits and n more.
Spare(n) == reqId + Len(mutex) + n <= MaxId

\* (mutant) the error is swallowed and the reader never resumes
TripFailsSilently(o) == UNCHANGED <<task, registered>>

\* The owner of a failed round trip: a task throws, the poll drops its sensor.
TripFails(o) ==
  IF o = Poll THEN registered' = FALSE /\ UNCHANGED task
  ELSE Goto(o, "over") /\ UNCHANGED registered

TripSucceeds(o) ==
  IF o = Poll THEN UNCHANGED task ELSE Goto(o, "ready")

-----------------------------------------------------------------------------
(* The page.                                                               *)

(* doRunLive from begin() on.                                              *)
Begin(p) ==
  IF connected
  THEN /\ stopped' = FALSE /\ registered' = FALSE /\ reqId' = 0
       /\ polling' = TRUE /\ live' = TRUE /\ halted' = FALSE
       /\ Goto(p, "ready")
  ELSE /\ live' = FALSE /\ polling' = FALSE
       /\ Goto(p, "ended")
       /\ UNCHANGED <<stopped, registered, reqId, halted>>

(* The Run button while it shows Run.                                      *)
ClickRun(p) ==
  /\ task[p] = "idle" /\ ~live /\ connected
  /\ IF SlowStart
     THEN /\ Goto(p, "starting")
          /\ UNCHANGED <<stopped, timer, reqId, live, halted>>
     ELSE Begin(p)
  /\ UNCHANGED <<link, debugging, trip, txq>>

Transpiled(p) ==
  /\ task[p] = "starting"
  /\ Begin(p)
  /\ UNCHANGED <<link, debugging, trip, txq>>

(* The transpiler rejects the program, and doRunLive returns or, if it was *)
(* the server that did, cleans up after a program that never began.        *)
TranspileFails(p) ==
  /\ task[p] = "starting" /\ Goto(p, "ended")
  /\ \/ UNCHANGED <<live, polling>>
     \/ live' = FALSE /\ polling' = FALSE
  /\ UNCHANGED <<link, debugging, registered, trip, stopped, reqId, txq, halted>>

(* Every task has settled.                                                 *)
Settled(p) ==
  /\ task[p] = "over"
  /\ Goto(p, "ended") /\ polling' = FALSE /\ live' = FALSE
  /\ UNCHANGED <<link, debugging, registered, trip, stopped, reqId, txq, halted>>

\* What stop() and _onDisconnect do to a round trip under way.
RejectWaiter(reason) ==
  /\ req' = IF waiter # 0 /\ req.phase # "none" /\ req.outcome = "none"
            THEN [req EXCEPT !.outcome = reason] ELSE req
  /\ waiter' = 0

\* (mutant) stop() does not raise the flag
StopWithoutFlag ==
  /\ connected => Spare(2)
  /\ polling' = FALSE
  /\ RejectWaiter("stopped")
  /\ UNCHANGED stopped
  /\ IF connected
     THEN /\ txq' = txq \o <<Write("halt", "ui", 0), Write("off", "ui", 0)>>
          /\ reqId' = reqId + 2 /\ halted' = TRUE /\ haltLost' = FALSE
     ELSE UNCHANGED <<txq, reqId, halted, haltLost>>
  /\ UNCHANGED <<connected, air, moving, page, registered, mutex, frames>>

(* stop(), from either button.                                             *)
Stop ==
  /\ connected => Spare(2)
  /\ stopped' = TRUE /\ polling' = FALSE
  /\ RejectWaiter("stopped")
  /\ IF connected
     THEN /\ txq' = txq \o <<Write("halt", "ui", 0), Write("off", "ui", 0)>>
          /\ reqId' = reqId + 2 /\ halted' = TRUE /\ haltLost' = FALSE
     ELSE UNCHANGED <<txq, reqId, halted, haltLost>>
  /\ UNCHANGED <<connected, air, moving, page, registered, mutex, frames>>

(* debugMotor.  The flag stays up until the tab is left.                   *)
DebugMotor ==
  /\ DebugTab /\ connected /\ Spare(1)
  /\ debugging' = (debugging \/ ~live)
  /\ IF stopped /\ ~debugging'
     THEN UNCHANGED <<txq, reqId, halted>>
     ELSE /\ txq' = Append(txq, Write("motor", "ui", 0))
          /\ reqId' = reqId + 1 /\ halted' = FALSE
  /\ UNCHANGED <<link, live, task, timer, trip, stopped>>

(* switchTab, stopAllSensorStreams.                                        *)
LeaveDebug ==
  /\ debugging /\ debugging' = FALSE
  /\ UNCHANGED <<link, live, task, timer, trip, stopped, reqId, txq, halted>>

-----------------------------------------------------------------------------
(* A program's task, between two awaits.                                   *)

(* A fire-and-forget command: motors, lights, sounds.                      *)
Cmd(p) ==
  /\ task[p] = "ready"
  /\ IF Refused
     THEN Goto(p, "over") /\ UNCHANGED <<txq, reqId>>
     ELSE /\ Spare(1)
          /\ txq' = Append(txq, Write("motor", p, 0))
          /\ reqId' = reqId + 1
          /\ Goto(p, "writing")
  /\ halted' = (halted /\ (Refused \/ ~stopped))
  /\ UNCHANGED <<link, debugging, live, timer, trip, stopped>>

(* A sensor read that the cache cannot answer.                             *)
Ask(p) ==
  /\ task[p] = "ready"
  /\ IF Refused
     THEN Goto(p, "over") /\ UNCHANGED <<registered, mutex>>
     ELSE /\ Spare(1)
          /\ registered' = TRUE
          /\ mutex' = Append(mutex, p)
          /\ Goto(p, "asking")
  /\ UNCHANGED <<link, debugging, live, polling, req, waiter, frames, stopped,
                 reqId, txq, halted>>

(* sleep() looks at the stop flag only; a task may also just return.       *)
WakeOrReturn(p) ==
  /\ task[p] = "ready"
  /\ Goto(p, "over")
  /\ UNCHANGED <<link, debugging, live, timer, trip, stopped, reqId, txq, halted>>

TaskStep(p) == Cmd(p) \/ Ask(p) \/ WakeOrReturn(p)

(* _pollTick: nothing waits for the answer, so ticks pile up in the mutex. *)
PollTick ==
  /\ polling /\ ~stopped /\ registered
  /\ Len(SelectSeq(mutex, LAMBDA o : o = Poll)) < MaxPolls /\ Spare(1)
  /\ mutex' = Append(mutex, Poll)
  /\ UNCHANGED <<link, page, timer, req, waiter, frames, stopped, reqId, txq, halted>>

-----------------------------------------------------------------------------
(* The round trip, _requestInner.                                          *)

Others(s) == [i \in 1..Len(s) |-> [s[i] EXCEPT !.mine = FALSE]]

\* (mutant) every round trip takes the same id
TripStartSameId ==
  /\ mutex # <<>> /\ req.phase = "none"
  /\ IF Refused
     THEN /\ mutex' = Tail(mutex) /\ TripFails(Head(mutex))
          /\ UNCHANGED <<req, waiter, frames, reqId, txq, air>>
     ELSE /\ frames' = <<>> /\ air' = Others(air)
          /\ reqId' = 1
          /\ req' = [NoTrip EXCEPT !.phase = "writing", !.id = reqId']
          /\ waiter' = reqId'
          /\ txq' = Append(Others(txq), Write("ask", Head(mutex), reqId'))
          /\ UNCHANGED <<mutex, task, registered>>
  /\ UNCHANGED <<connected, moving, haltLost, debugging, live, polling, stopped, halted>>

TripStart ==
  /\ mutex # <<>> /\ req.phase = "none"
  /\ IF Refused
     THEN /\ mutex' = Tail(mutex) /\ TripFails(Head(mutex))
          /\ UNCHANGED <<req, waiter, frames, reqId, txq, air>>
     ELSE /\ frames' = <<>> /\ air' = Others(air)
          /\ reqId' = reqId + 1
          /\ req' = [NoTrip EXCEPT !.phase = "writing", !.id = reqId']
          /\ waiter' = reqId'
          /\ txq' = Append(Others(txq), Write("ask", Head(mutex), reqId'))
          /\ UNCHANGED <<mutex, task, registered>>
  /\ UNCHANGED <<connected, moving, haltLost, debugging, live, polling, stopped, halted>>

TripEnds == req' = NoTrip /\ mutex' = Tail(mutex)

(* The race is decided by the waiter.                                      *)
TripSettles ==
  /\ req.phase = "waiting" /\ req.outcome # "none"
  /\ TripEnds
  /\ IF req.outcome \in {"answer", "stranger"}
     THEN TripSucceeds(Head(mutex)) /\ UNCHANGED registered
     ELSE TripFails(Head(mutex))
  /\ UNCHANGED <<link, debugging, live, polling, waiter, frames, stopped, reqId,
                 txq, halted>>

\* (mutant) a request is repeated without end
TimeoutRepeats ==
  /\ req.phase = "waiting" /\ req.outcome = "none"
  /\ req' = [req EXCEPT !.attempt = @ + 1, !.phase = "writing"]
  /\ waiter' = req.id
  /\ txq' = Append(txq, Write("ask", Head(mutex), req.id))
  /\ UNCHANGED <<link, debugging, live, polling, frames, stopped, reqId, halted,
                 mutex, task, registered>>

\* (mutant) the second attempt does not set a waiter
TimeoutForgetsWaiter ==
  /\ req.phase = "waiting" /\ req.outcome = "none"
  /\ waiter' = 0
  /\ IF req.attempt = 0
     THEN /\ req' = [req EXCEPT !.attempt = 1, !.phase = "writing"]
          /\ txq' = Append(txq, Write("ask", Head(mutex), req.id))
          /\ UNCHANGED <<mutex, task, registered>>
     ELSE TripEnds /\ TripFails(Head(mutex)) /\ UNCHANGED txq
  /\ UNCHANGED <<link, debugging, live, polling, frames, stopped, reqId, halted>>

(* The race is decided by the timer: one more attempt, then an error.      *)
Timeout ==
  /\ req.phase = "waiting" /\ req.outcome = "none"
  /\ IF req.attempt = 0
     THEN /\ req' = [req EXCEPT !.attempt = 1, !.phase = "writing"]
          /\ waiter' = req.id
          /\ txq' = Append(txq, Write("ask", Head(mutex), req.id))
          /\ UNCHANGED <<mutex, task, registered>>
     ELSE TripEnds /\ waiter' = 0 /\ TripFails(Head(mutex)) /\ UNCHANGED txq
  /\ UNCHANGED <<link, debugging, live, polling, frames, stopped, reqId, halted>>

(* _onNotify: the frame is filed, then the first that matches is taken.    *)
Notify ==
  /\ air # <<>> /\ air' = Tail(air)
  /\ LET inbox == Append(frames, Head(air))
         matches == {i \in 1..Len(inbox) : waiter # 0 /\ inbox[i].id = waiter}
     IN \/ matches = {} /\ frames' = inbox /\ UNCHANGED <<req, waiter>>
        \/ \E i \in matches :
             /\ \A k \in matches : i <= k
             /\ frames' = RemoveAt(inbox, i) /\ waiter' = 0
             /\ req' = IF req.phase = "none" THEN req
                       ELSE [req EXCEPT !.outcome =
                               IF inbox[i].mine THEN "answer" ELSE "stranger"]
  /\ UNCHANGED <<connected, moving, haltLost, page, timer, mutex, stopped, reqId,
                 txq, halted>>

-----------------------------------------------------------------------------
(* The link: writeValueWithResponse and the controller behind it.          *)

(* The first write is acknowledged; the controller may answer a request.   *)
WriteDone ==
  /\ txq # <<>> /\ connected
  /\ LET w == Head(txq)
     IN /\ txq' = Tail(txq)
        /\ moving' = (w.kind = "motor" \/ (moving /\ w.kind # "off"))
        /\ \/ air' = air
           \/ w.kind = "ask" /\ air' = Append(air, [id |-> w.id, mine |-> w.mine])
        /\ req' = IF w.kind = "ask" THEN [req EXCEPT !.phase = "waiting"] ELSE req
        /\ IF w.kind = "motor" /\ w.by # "ui"
           THEN Goto(w.by, "ready") ELSE UNCHANGED task
  /\ UNCHANGED <<connected, haltLost, debugging, live, timer, mutex, waiter,
                 frames, stopped, reqId, halted>>

(* The first write is rejected, always so without a connection.  A failed  *)
(* round trip leaves its waiter behind.                                    *)
WriteFails ==
  /\ txq # <<>>
  /\ LET w == Head(txq)
     IN /\ txq' = Tail(txq)
        /\ haltLost' = (haltLost \/ w.kind = "off")
        /\ IF w.kind = "ask"
           THEN TripEnds /\ TripFails(w.by)
           ELSE /\ UNCHANGED <<req, mutex, registered>>
                /\ IF w.kind = "motor" /\ w.by # "ui"
                   THEN Goto(w.by, "over") ELSE UNCHANGED task
  /\ UNCHANGED <<connected, air, moving, debugging, live, polling, waiter, frames,
                 stopped, reqId, halted>>

(* gattserverdisconnected, or disconnect() when a cable is plugged in.     *)
LinkDrops ==
  /\ connected /\ connected' = FALSE
  /\ stopped' = TRUE /\ polling' = FALSE /\ live' = FALSE
  /\ RejectWaiter("lost")
  /\ air' = <<>> /\ halted' = FALSE
  /\ UNCHANGED <<moving, haltLost, debugging, task, registered, mutex, frames,
                 reqId, txq>>

(* connect() takes a dialog: whatever was under way has failed by then.    *)
Reconnect ==
  /\ ~connected /\ connected' = TRUE
  /\ txq = <<>> /\ mutex = <<>>
  /\ \A p \in Programs : task[p] \in {"idle", "starting", "ended"}
  /\ frames' = <<>>
  /\ UNCHANGED <<air, moving, haltLost, page, timer, mutex, req, waiter, stopped,
                 reqId, txq, halted>>

Next ==
  \/ \E p \in Programs :
       \/ ClickRun(p) \/ Transpiled(p) \/ TranspileFails(p)
       \/ Settled(p) \/ TaskStep(p)
  \/ Stop \/ DebugMotor \/ LeaveDebug \/ PollTick
  \/ TripStart \/ TripSettles \/ Timeout \/ Notify
  \/ WriteDone \/ WriteFails \/ LinkDrops \/ Reconnect

Spec == Init /\ [][Next]_vars

(* The event loop runs what is ready: tasks, settled promises and timers;  *)
(* a write is acknowledged or rejected.  Nothing is owed by the user, by   *)
(* the poll timer or by the controller's answers.                          *)
FairSpec ==
  /\ Spec
  /\ \A p \in Programs : WF_vars(TaskStep(p)) /\ WF_vars(Settled(p))
  /\ WF_vars(TripStart) /\ WF_vars(TripSettles) /\ WF_vars(Timeout)
  /\ WF_vars(WriteDone \/ WriteFails)

-----------------------------------------------------------------------------
(* Properties.                                                             *)

(* The types.                                                              *)
TypeOK ==
  /\ {connected, stopped, debugging, live, polling, registered,
      moving, halted, haltLost} \subseteq BOOLEAN
  /\ reqId \in 0..MaxId /\ waiter \in 0..MaxId
  /\ task \in [Programs -> {"idle", "starting", "ready", "writing", "asking",
                            "over", "ended"}]
  /\ txq \in Seq(Writes) /\ mutex \in Seq(Owners)
  /\ frames \in Seq(Answers) /\ air \in Seq(Answers)
  /\ req \in [phase : {"none", "writing", "waiting"}, id : 0..MaxId,
              attempt : 0..1,
              outcome : {"none", "answer", "stranger", "stopped", "lost"}]

(* A round trip that is still undecided can be decided: the one waiter is  *)
(* its own, whatever stops, losses and other requests came between.        *)
WaiterOwned == req.phase # "none" /\ req.outcome = "none" => waiter = req.id

(* A reader is handed the answer to its own request, never the late one of *)
(* a request that timed out.                                               *)
AnswerMatches == req.outcome # "stranger"

(* Once stop() has sent its halt and every write has reached the           *)
(* controller, nothing moves: no command of the program that was queued or *)
(* past its check follows the halt.                                        *)
HaltTakesEffect == halted /\ ~haltLost /\ txq = <<>> => ~moving

(* After stop() no program sends a command.  Not so while the debug tab is *)
(* open, whose flag lets every caller past the check.                      *)
StoppedSendsNothing ==
  [][stopped => \A p \in Programs : task[p] = "ready" => task'[p] # "writing"]_vars

(* While the link is up, the Run button shows Stop as long as a program    *)
(* runs.                                                                   *)
ShowsStop ==
  connected /\ (\E p \in Programs : task[p] \in {"ready", "writing", "asking"})
    => live

(* Every sensor read of a program ends, by answer, error or stop, behind   *)
(* any backlog of polls.                                                   *)
ReadEnds == \A p \in Programs : task[p] = "asking" ~> task[p] # "asking"

(* After a stop or a lost link every program ends, unless one is begun     *)
(* anew or the debug tab overrides the stop flag.                          *)
StopEnds ==
  stopped ~> \/ ~stopped \/ debugging
             \/ \A p \in Programs : task[p] \in {"idle", "starting", "ended"}

=============================================================================
