--------------------------------- MODULE UsbLink ---------------------------------
(***************************************************************************)
(* The USB side of the IDE: sessions of whale_cli.Controller (upload, stop *)
(* the motors, read a sensor, probe) that open the controller, send frames *)
(* one at a time and wait for the answer of each.                          *)
(*                                                                         *)
(* Sessions are processes or request handlers and may overlap, except that *)
(* only one upload or motor stop runs at a time (upload_job_running        *)
(* refuses the second).  The kernel hands every report of the controller   *)
(* to every session that is open.                                          *)
(* The controller (external) takes the frames in the order they arrive,    *)
(* may answer late, with a bad checksum or not at all, and keeps frames    *)
(* whose session has given up.                                             *)
(***************************************************************************)
EXTENDS Integers, Sequences, FiniteSets, SequencesExt

CONSTANTS
  Hosts,   (* the sessions, each used once                                 *)
  Plan,    (* Plan[h]: the kinds session h may be of                       *)
  Sizes,   (* sizes of the images, in packets                              *)
  Ports,   (* number of motor ports stop_all goes through                  *)
  Wrap     (* 256: where the 8-bit sequence number wraps                   *)

ASSUME UsbLinkAssumption ==
  /\ Hosts \subseteq Nat \ {0}
  /\ Plan \in [Hosts -> SUBSET {"upload", "stop", "read", "probe"}]
  /\ Sizes \subseteq Nat /\ Ports \in Nat \ {0}
  /\ Wrap \in Nat /\ Wrap > 2

VARIABLES
  host,    (* host[h]: the session's kind, size, place and frame number    *)
  inbox,   (* inbox[h]: the reports its open device holds                  *)
  usb,     (* frames the controller has not looked at                      *)
  stored,  (* packets stored since the last upload began                   *)
  image,   (* the image that was finalized last, and by whom               *)
  stopped  (* stopped[h]: motors stopped since session h was opened        *)

vars == <<host, inbox, usb, stored, image, stopped>>

Kinds == {"upload", "stop", "read", "probe"}
New == [kind |-> "none", size |-> 0, at |-> "new", k |-> 0]
NoImage == [by |-> 0, packets |-> <<>>]
Ended == {"done", "failed"}

Init ==
  /\ host = [h \in Hosts |-> New]
  /\ inbox = [h \in Hosts |-> <<>>]
  /\ usb = <<>> /\ stored = <<>> /\ image = NoImage
  /\ stopped = [h \in Hosts |-> {}]

-----------------------------------------------------------------------------
(* Frames and answers.                                                     *)

\* (mutant) the first block is one packet too long
Block0Long == Wrap - 1

\* BLOCK0_PACKETS: the begin frame has taken number 1, so 2..Wrap-1 are left.
Block0 == Wrap - 2

\* The block of an image's i-th packet: block 0 is shorter than the others.
BlockOf(i) == IF i <= Block0 THEN 0 ELSE 1 + (i - Block0 - 1) \div Wrap

FrameCount(s) == CASE s.kind = "upload" -> s.size + 2
                   [] s.kind = "stop" -> Ports
                   [] OTHER -> 1

\* The k-th frame of a session: the first of an upload begins it, the last
\* finalizes it, skipping a sequence number.  Numbers start anew in every
\* session.
Frame(h, k) ==
  LET s == host[h]
      F(op, tag, arg, no) == [h |-> h, op |-> op, tag |-> tag, arg |-> arg, no |-> no]
  IN CASE s.kind = "upload" /\ k = 1 -> F("begin", 1, 0, 0)
       [] s.kind = "upload" /\ k \in 2..(s.size + 1) ->
            F("data", k % Wrap, BlockOf(k - 1), k - 1)
       [] s.kind = "upload" /\ k > s.size + 1 -> F("finish", (k + 1) % Wrap, BlockOf(s.size), 0)
       [] s.kind = "stop" -> F("motor", k, k, 0)
       [] s.kind = "read" -> F("read", 1, 1, 0)
       [] OTHER -> F("probe", 1, 0, 0)

\* What answers frame f; of is history, no session looks at it.
Answer(f, good) ==
  [op |-> IF f.op \in {"begin", "data", "finish"} THEN "ack" ELSE f.op,
   tag |-> f.tag, arg |-> f.arg, good |-> good, of |-> f]

\* (mutant) any answer of the right kind will do
MatchesAny(h, r) == r.op = Answer(Frame(h, host[h].k), TRUE).op

\* Is the report the answer the session waits for?  An acknowledgement's
\* block and a sensor answer's counter are not looked at.
Matches(h, r) ==
  LET f == Frame(h, host[h].k) IN
  /\ r.op = Answer(f, TRUE).op
  /\ f.op # "read" => r.tag = f.tag
  /\ f.op \in {"motor", "read"} => r.arg = f.arg

-----------------------------------------------------------------------------
(* The sessions.                                                           *)

Kind(h) == host[h].kind
At(h, where) == host[h].at = where
Jobs == {"upload", "stop"}
JobRuns == \E h \in Hosts : Kind(h) \in Jobs /\ host[h].at \notin Ended
IsOpen(h) == host[h].at \in {"send", "wait"}

(* A session opens the device; whatever was pending is drained.            *)
Open(h, kind, size) ==
  /\ At(h, "new")
  /\ kind \in Jobs => ~JobRuns
  /\ host' = [host EXCEPT ![h] = [kind |-> kind, size |-> size, at |-> "send", k |-> 1]]
  /\ UNCHANGED <<inbox, usb, stored, image, stopped>>

\* The session is over and the device closed.
End(h, how) ==
  /\ host' = [host EXCEPT ![h].at = how]
  /\ inbox' = [inbox EXCEPT ![h] = <<>>]

(* An image without packets has no last block to name: the upload ends     *)
(* with an error after the controller was told to begin.                   *)
NothingToFinish(h) ==
  /\ At(h, "send") /\ Kind(h) = "upload" /\ host[h].size = 0 /\ host[h].k = 2
  /\ End(h, "failed")
  /\ UNCHANGED <<usb, stored, image, stopped>>

Send(h) ==
  /\ At(h, "send")
  /\ ~(Kind(h) = "upload" /\ host[h].size = 0 /\ host[h].k = 2)
  /\ usb' = Append(usb, Frame(h, host[h].k))
  /\ host' = [host EXCEPT ![h].at = "wait"]
  /\ UNCHANGED <<inbox, stored, image, stopped>>

\* The frame was answered: on to the next one, or the call returns.
NextFrame(h) ==
  IF host[h].k < FrameCount(host[h])
  THEN /\ host' = [host EXCEPT ![h].at = "send", ![h].k = @ + 1]
       /\ inbox' = [inbox EXCEPT ![h] = Tail(@)]
  ELSE End(h, "done")

\* A motor command and the probe read one report and reject any other than
\* theirs; an upload and a sensor read skip it.  Every answer's checksum is
\* tested but a motor echo's.
OneRead(h) == Kind(h) \in {"stop", "probe"}

Accepts(h, r) == Matches(h, r) /\ (r.good \/ Kind(h) = "stop")
Rejects(h, r) == ~Accepts(h, r) /\ (Matches(h, r) \/ OneRead(h))

Skip(h) == inbox' = [inbox EXCEPT ![h] = Tail(@)] /\ UNCHANGED host

(* The next report is read.                                                *)
Take(h) ==
  /\ At(h, "wait") /\ inbox[h] # <<>>
  /\ LET r == Head(inbox[h]) IN
     \/ Accepts(h, r) /\ NextFrame(h)
     \/ Rejects(h, r) /\ End(h, "failed")
     \/ ~Accepts(h, r) /\ ~Rejects(h, r) /\ Skip(h)
  /\ UNCHANGED <<usb, stored, image, stopped>>

(* The session waited long enough.                                         *)
Timeout(h) ==
  /\ At(h, "wait") /\ (OneRead(h) => inbox[h] = <<>>)
  /\ End(h, "failed")
  /\ UNCHANGED <<usb, stored, image, stopped>>

-----------------------------------------------------------------------------
(* The controller.                                                         *)

Effect(f) ==
  CASE f.op = "begin" -> stored' = <<>> /\ UNCHANGED <<image, stopped>>
    [] f.op = "data" -> stored' = Append(stored, f.no) /\ UNCHANGED <<image, stopped>>
    [] f.op = "finish" -> image' = [by |-> f.h, packets |-> stored]
                          /\ UNCHANGED <<stored, stopped>>
    [] f.op = "motor" ->
         /\ stopped' = [h \in Hosts |->
                          IF IsOpen(h) THEN stopped[h] \cup {f.arg} ELSE stopped[h]]
         /\ UNCHANGED <<stored, image>>
    [] OTHER -> UNCHANGED <<stored, image, stopped>>

\* The report reaches every open session.
Report(r) ==
  inbox' = [h \in Hosts |-> IF IsOpen(h) THEN Append(inbox[h], r) ELSE inbox[h]]

(* The controller acts on its next frame and answers, rightly or with a    *)
(* bad checksum, or does not answer.                                       *)
Serve ==
  /\ usb # <<>> /\ usb' = Tail(usb)
  /\ Effect(Head(usb))
  /\ \/ \E good \in BOOLEAN : Report(Answer(Head(usb), good))
     \/ UNCHANGED inbox
  /\ UNCHANGED host

Next ==
  \/ \E h \in Hosts :
       \/ \E kind \in Plan[h] : \E size \in IF kind = "upload" THEN Sizes ELSE {0} :
            Open(h, kind, size)
       \/ NothingToFinish(h) \/ Send(h) \/ Take(h) \/ Timeout(h)
  \/ Serve

Spec == Init /\ [][Next]_vars

-----------------------------------------------------------------------------
(* Properties.                                                             *)

TypeOK ==
  /\ \A h \in Hosts :
       /\ host[h].kind \in Kinds \cup {"none"} /\ host[h].size \in Sizes \cup {0}
       /\ host[h].at \in {"new", "send", "wait"} \cup Ended
       /\ host[h].k \in 0..FrameCount(host[h])
       /\ ~IsOpen(h) => inbox[h] = <<>>
  /\ \A i \in DOMAIN usb : usb[i].tag < Wrap \/ usb[i].op = "motor"

(* An upload that reports success has put exactly its packets, once each   *)
(* and in order, into the image it finalized: late acknowledgements of an  *)
(* upload that gave up never stand in for missing ones.                    *)
UploadHonest ==
  [][\A h \in Hosts : Kind(h) = "upload" /\ ~At(h, "done") /\ host'[h].at = "done" =>
       image' = [by |-> h, packets |-> [i \in 1..host[h].size |-> i]]]_vars

(* stop_all reports success only if every motor was stopped after it was   *)
(* called, whatever other sessions' reports came in between.               *)
StopHonest ==
  \A h \in Hosts : Kind(h) = "stop" /\ At(h, "done") => stopped[h] = 1..Ports

(* The packets' block numbers follow the sequence number: a packet is in   *)
(* the block of its number of wraps.                                       *)
BlocksSeqAligned ==
  \A i \in DOMAIN usb : usb[i].op = "data" => usb[i].arg = (usb[i].no + 1) \div Wrap

(* A session never has two frames in the controller at once: it waits for  *)
(* each acknowledgement.                                                   *)
OneFrameEach ==
  \A h \in Hosts : IsOpen(h) =>
    Cardinality({i \in DOMAIN usb : usb[i].h = h}) <= 1
=============================================================================
