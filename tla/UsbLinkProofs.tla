------------------------------ MODULE UsbLinkProofs ------------------------------
(***************************************************************************)
(* The USB sessions for every number of them, every image and every wrap   *)
(* of the sequence number.                                                 *)
(*                                                                         *)
(* That a reported stop stopped every motor and that blocks follow the     *)
(* sequence numbers holds without condition.  That a reported upload was   *)
(* stored holds as long as fewer frames wait in the controller when an     *)
(* upload is opened than the image has frames: each late acknowledgement   *)
(* can bring a session at most one frame ahead of the controller.          *)
(***************************************************************************)
EXTENDS UsbLink, FiniteSetTheorems, TLAPS

USE UsbLinkAssumption

Ops == {"begin", "data", "finish", "motor", "read", "probe"}
Frames == [h : Hosts, op : Ops, tag : Nat, arg : Nat, no : Nat]
Reports == [op : {"ack", "motor", "read", "probe"}, tag : Nat, arg : Nat,
            good : BOOLEAN, of : Frames]
Session == [kind : Kinds \cup {"none"}, size : Nat,
            at : {"new", "send", "wait"} \cup Ended, k : Nat]

Types ==
  /\ host \in [Hosts -> Session]
  /\ inbox \in [Hosts -> Seq(Reports)]
  /\ usb \in Seq(Frames) /\ stored \in Seq(Nat)
  /\ image \in [by : Nat, packets : Seq(Nat)]
  /\ stopped \in [Hosts -> SUBSET Nat]

\* An upload's frame.
Uploads(f) == f.op \in {"begin", "data", "finish"}

\* What the session a frame came from says of it.
Sent(f) ==
  /\ ~At(f.h, "new")
  /\ Uploads(f) => Kind(f.h) = "upload"
  /\ f.op = "motor" => f.arg \in 1..Ports
  /\ f.op # "motor" => f.tag < Wrap
  /\ f.op = "data" => f.arg = (f.no + 1) \div Wrap

\* A session, its reports and the motors stopped since it was opened.
Lives(h) ==
  /\ Kind(h) = "none" <=> At(h, "new")
  /\ host[h].size \in Sizes \cup {0}
  /\ IF At(h, "new") THEN host[h].k = 0 ELSE host[h].k \in 1..FrameCount(host[h])
  /\ Kind(h) = "upload" /\ host[h].size = 0 /\ At(h, "wait") => host[h].k = 1
  /\ ~IsOpen(h) => inbox[h] = <<>>
  /\ stopped[h] \subseteq 1..Ports
  /\ Kind(h) = "stop" /\ IsOpen(h) => 1..(host[h].k - 1) \subseteq stopped[h]
  /\ Kind(h) = "stop" /\ At(h, "done") => 1..Ports \subseteq stopped[h]

\* A report answers a frame; a motor echo came when its motor was stopped.
Echoes(h) ==
  \A i \in 1..Len(inbox[h]) :
    LET r == inbox[h][i] IN
    /\ r = Answer(r.of, r.good)
    /\ r.op = "motor" => r.arg \in stopped[h]

SInv ==
  /\ Types
  /\ \A i \in 1..Len(usb) : Sent(usb[i])
  /\ \A h \in Hosts : Lives(h) /\ Echoes(h)

-----------------------------------------------------------------------------
(* One upload among the others.                                            *)

\* At most one upload or motor stop is open.
OneJob ==
  \A g, h \in Hosts :
    Kind(g) \in Jobs /\ Kind(h) \in Jobs /\ IsOpen(g) /\ IsOpen(h) => g = h

\* Session h uploads n packets and has sent its first m frames; q is what waits in
\* the controller, a what waits in the inbox of h.
Mine(h, f) == Uploads(f) /\ f.h = h

\* The number of a frame within its upload, and what the p-th frame looks like.
Number(n, f) == CASE f.op = "begin" -> 1
                  [] f.op = "data" -> f.no + 1
                  [] OTHER -> n + 2

IsNth(n, f, p) ==
  /\ p \in 1..(n + 2)
  /\ p = 1 => f.op = "begin" /\ f.tag = 1
  /\ p \in 2..(n + 1) => f.op = "data" /\ f.tag = p % Wrap /\ f.no = p - 1
  /\ p = n + 2 => f.op = "finish" /\ f.tag = (p + 1) % Wrap

Own(h, n, m, f) ==
  Mine(h, f) => Number(n, f) \in 1..m /\ IsNth(n, f, Number(n, f))

\* Behind a frame of h come only later ones of h.
Follows(h, n, f, g) ==
  Mine(h, f) /\ Uploads(g) => Mine(h, g) /\ Number(n, f) < Number(n, g)

\* The first frame of h that must still be behind frame f of an upload.
From(h, n, f) == IF Mine(h, f) THEN Number(n, f) ELSE 1

\* The frames of h the controller holds: the last ones sent, in order, behind
\* those of other uploads.
Holds(h, n, m, q) ==
  /\ \A i \in 1..Len(q) : Own(h, n, m, q[i])
  /\ \A i, j \in 1..Len(q) : i < j => Follows(h, n, q[i], q[j])
  /\ \A i \in 1..Len(q) : Uploads(q[i]) =>
       \A p \in From(h, n, q[i])..m :
         \E j \in i..Len(q) : Mine(h, q[j]) /\ Number(n, q[j]) = p

Upto(n) == [i \in 1..n |-> i]
Whole(h, n) == [by |-> h, packets |-> Upto(n)]

\* The upload frame at i is the first one in q.
First(q, i) == Uploads(q[i]) /\ \A j \in 1..(i - 1) : ~Uploads(q[j])
None(q) == \A i \in 1..Len(q) : ~Uploads(q[i])

\* What the controller, with packets s and image x, has of the image of h.
Stores(h, n, m, q, s, x) ==
  /\ \A i \in 1..Len(q) :
       First(q, i) /\ Mine(h, q[i]) /\ Number(n, q[i]) > 1 => s = Upto(Number(n, q[i]) - 2)
  /\ None(q) /\ m \in 1..(n + 1) => s = Upto(m - 1)
  /\ None(q) /\ m > n + 1 => x = Whole(h, n)

\* The acknowledgements h holds: late ones of others, then its own, in order.
Heard(h, n, m, q, a) ==
  \A i \in 1..Len(a) :
    /\ Own(h, n, m, a[i].of)
    /\ \A j \in 1..Len(q) : Follows(h, n, a[i].of, q[j])
    /\ \A j \in 1..Len(a) : i < j => Follows(h, n, a[i].of, a[j].of)

\* How many late acknowledgements an upload of n packets bears.
Slack(n) == IF n + 1 < Wrap - 2 THEN n + 1 ELSE Wrap - 2

\* The session, at its k-th frame, is ahead of frame f with d others in between.
Near(h, n, k, d, f) ==
  /\ Uploads(f) /\ ~Mine(h, f) => k + d <= Slack(n)
  /\ Mine(h, f) => k <= Number(n, f) + Slack(n)

\* A session gets ahead of the controller by one frame for each acknowledgement
\* of another session, and keeps that lead.
Ahead(h, n, k, q, a) ==
  /\ \A i \in 1..Len(a) : Near(h, n, k, i - 1, a[i].of)
  /\ \A i \in 1..Len(q) : Near(h, n, k, Len(a) + i - 1, q[i])

SentBy(h) == IF At(h, "send") THEN host[h].k - 1 ELSE host[h].k
Uploading(h) == Kind(h) = "upload" /\ IsOpen(h) /\ host[h].size > 0

Tracks(h, n, m, k, q, a, s, x) ==
  Holds(h, n, m, q) /\ Stores(h, n, m, q, s, x) /\ Heard(h, n, m, q, a) /\ Ahead(h, n, k, q, a)

Tracked(h) ==
  Tracks(h, host[h].size, SentBy(h), host[h].k, usb, inbox[h], stored, image)

UInv == OneJob /\ \A h \in Hosts : Uploading(h) => Tracked(h)

\* When an upload begins, no more frames wait in the controller than its image
\* has packets and one more, nor than there are sequence numbers less two.
ShortQueue ==
  \A h \in Hosts :
    Uploading(h) /\ At(h, "send") /\ host[h].k = 1 => Len(usb) <= Slack(host[h].size)

-----------------------------------------------------------------------------
(* Frames and answers.                                                     *)

LEMMA Mod ==
  ASSUME NEW a \in Nat
  PROVE  a % Wrap \in 0..(Wrap - 1) /\ a \div Wrap \in Nat
OBVIOUS

\* The block of a packet is the number of wraps before its frame.
LEMMA BlockIsWraps ==
  ASSUME NEW i \in Nat
  PROVE  BlockOf(i) = (i + 1) \div Wrap /\ BlockOf(i) \in Nat
<1>1. CASE i <= Block0
  BY <1>1 DEF BlockOf, Block0
<1>2. CASE i > Block0
  <2> DEFINE a == i + 1 - Wrap
  <2>1. a \in Nat /\ i - Block0 - 1 = a /\ i + 1 = a + Wrap /\ ~(i <= Block0)
    BY <1>2 DEF Block0
  <2>2. (a + Wrap) \div Wrap = 1 + a \div Wrap
    BY <2>1
  <2>3. BlockOf(i) = 1 + a \div Wrap
    BY <2>1 DEF BlockOf
  <2>4. a \div Wrap \in Nat /\ (i + 1) \div Wrap = (a + Wrap) \div Wrap
    BY <2>1, Mod
  <2> QED BY <2>2, <2>3, <2>4
<1> QED BY <1>1, <1>2 DEF Block0

LEMMA FrameIs ==
  ASSUME NEW h \in Hosts, NEW k \in Nat, k > 0, host[h] \in Session
  PROVE  LET f == Frame(h, k) IN
         /\ f \in Frames /\ f.h = h
         /\ f.op = "begin" <=> Kind(h) = "upload" /\ k = 1
         /\ f.op = "data" <=> Kind(h) = "upload" /\ k \in 2..(host[h].size + 1)
         /\ f.op = "finish" <=> Kind(h) = "upload" /\ k > host[h].size + 1 /\ k > 1
         /\ f.op = "motor" <=> Kind(h) = "stop"
         /\ f.op = "read" <=> Kind(h) = "read"
         /\ f.op = "begin" => f.tag = 1
         /\ f.op = "data" => f.tag = k % Wrap /\ f.no = k - 1 /\ f.arg = k \div Wrap
         /\ f.op = "finish" => f.tag = (k + 1) % Wrap
         /\ f.op = "motor" => f.tag = k /\ f.arg = k
         /\ f.op \in {"read", "probe"} => f.tag = 1
<1> DEFINE s == host[h]
<1>1. s.size \in Nat /\ s.kind \in Kinds \cup {"none"}
  BY DEF Session
<1>2. BlockOf(s.size) \in Nat /\ BlockOf(k - 1) = k \div Wrap
      /\ k % Wrap \in Nat /\ (k + 1) % Wrap \in Nat /\ k \div Wrap \in Nat
  <2>1. k - 1 \in Nat /\ k - 1 + 1 = k /\ k + 1 \in Nat
    OBVIOUS
  <2>2. BlockOf(k - 1) = k \div Wrap
    BY <2>1, BlockIsWraps
  <2>3. BlockOf(s.size) \in Nat
    BY <1>1, BlockIsWraps
  <2>4. k % Wrap \in Nat /\ (k + 1) % Wrap \in Nat /\ k \div Wrap \in Nat
    BY <2>1, Mod
  <2> QED BY <2>2, <2>3, <2>4
<1>3. CASE Kind(h) = "upload" /\ k = 1
  <2>1. Frame(h, k) = [h |-> h, op |-> "begin", tag |-> 1, arg |-> 0, no |-> 0]
    BY <1>1, <1>3 DEF Frame, Kind
  <2> QED BY <1>1, <1>3, <2>1 DEF Frames, Ops
<1>4. CASE Kind(h) = "upload" /\ k \in 2..(s.size + 1)
  <2>1. Frame(h, k) = [h |-> h, op |-> "data", tag |-> k % Wrap, arg |-> BlockOf(k - 1),
                       no |-> k - 1]
    BY <1>1, <1>4 DEF Frame, Kind
  <2>2. k > 1 /\ k - 1 \in Nat /\ ~(k > s.size + 1)
    BY <1>1, <1>4
  <2> QED BY <1>1, <1>2, <1>4, <2>1, <2>2 DEF Frames, Ops
<1>5. CASE Kind(h) = "upload" /\ k > s.size + 1 /\ k > 1
  BY <1>1, <1>2, <1>5 DEF Frame, Kind, Frames, Ops
<1>6. CASE Kind(h) # "upload"
  BY <1>1, <1>6 DEF Frame, Kind, Frames, Ops
<1> QED BY <1>1, <1>3, <1>4, <1>5, <1>6

LEMMA TagFits ==
  ASSUME NEW h \in Hosts, NEW k \in Nat, k > 0, host[h] \in Session
  PROVE  Frame(h, k).op # "motor" => Frame(h, k).tag < Wrap
<1>1. PICK f \in Frames : f = Frame(h, k)
  BY FrameIs
<1>2. /\ f.op = "begin" => f.tag = 1
      /\ f.op = "data" => f.tag = k % Wrap
      /\ f.op = "finish" => f.tag = (k + 1) % Wrap
      /\ f.op \in {"read", "probe"} => f.tag = 1
  BY <1>1, FrameIs
<1>3. k % Wrap < Wrap /\ (k + 1) % Wrap < Wrap
  BY Mod
<1>4. f.op \in {"begin", "data", "finish", "motor", "read", "probe"}
  BY DEF Frames, Ops
<1> QED BY <1>1, <1>2, <1>3, <1>4

LEMMA AnswerIs ==
  ASSUME NEW f \in Frames, NEW good \in BOOLEAN
  PROVE  LET r == Answer(f, good) IN
         /\ r \in Reports /\ r.of = f /\ r.good = good
         /\ r.tag = f.tag /\ r.arg = f.arg
         /\ r.op = "ack" <=> Uploads(f)
         /\ r.op = "motor" <=> f.op = "motor"
         /\ ~Uploads(f) => r.op = f.op
BY DEF Frames, Reports, Answer, Uploads, Ops

-----------------------------------------------------------------------------
(* Sessions and stops.                                                     *)

\* A session that becomes s, and its inbox q, while nothing else changes.
Becomes(h, s, q) ==
  /\ host' = [host EXCEPT ![h] = s]
  /\ inbox' = [inbox EXCEPT ![h] = q]
  /\ UNCHANGED <<stored, image, stopped>>

LEMMA BecomesKeeps ==
  ASSUME SInv, NEW h \in Hosts, NEW s \in Session, NEW q \in Seq(Reports),
         Becomes(h, s, q), s.at # "new", ~At(h, "new") => s.kind = Kind(h),
         usb' \in Seq(Frames), \A i \in 1..Len(usb') : Sent(usb[i])',
         Lives(h)', Echoes(h)'
  PROVE  SInv'
<1>1. /\ host' \in [Hosts -> Session] /\ inbox' \in [Hosts -> Seq(Reports)]
      /\ \A g \in Hosts \ {h} : host'[g] = host[g] /\ inbox'[g] = inbox[g]
  BY DEF SInv, Types, Becomes
<1>2. ASSUME NEW g \in Hosts \ {h} PROVE Lives(g)' /\ Echoes(g)'
  <2>1. host'[g] = host[g] /\ inbox'[g] = inbox[g] /\ stopped'[g] = stopped[g]
    BY <1>1, <1>2 DEF Becomes
  <2>2. Lives(g) /\ Echoes(g)
    BY <1>2 DEF SInv
  <2> QED BY <2>1, <2>2 DEF Lives, Echoes, Kind, At, IsOpen
<1>3. \A g \in Hosts : Lives(g)' /\ Echoes(g)'
  BY <1>2
<1> QED BY <1>1, <1>3 DEF SInv, Types, Becomes

LEMMA SentKept ==
  ASSUME SInv, NEW h \in Hosts, NEW s \in Session, host' = [host EXCEPT ![h] = s],
         s.at # "new", ~At(h, "new") => s.kind = Kind(h)
  PROVE  \A f \in Frames : Sent(f) => Sent(f)'
<1>1. \A g \in Hosts : host'[g] = IF g = h THEN s ELSE host[g]
  BY DEF SInv, Types
<1>2. \A f \in Frames : f.h \in Hosts
  BY DEF Frames
<1> QED BY <1>1, <1>2 DEF Sent, At, Kind

\* What SInv says of one session.
LEMMA SessionIs ==
  ASSUME SInv, NEW h \in Hosts
  PROVE  /\ host[h] \in Session /\ host[h].kind \in Kinds \cup {"none"}
         /\ host[h].size \in Nat /\ host[h].k \in Nat
         /\ inbox[h] \in Seq(Reports) /\ stopped[h] \subseteq Nat
         /\ FrameCount(host[h]) \in Nat
         /\ IsOpen(h) => Kind(h) \in Kinds /\ host[h].k > 0
<1>1. /\ host[h] \in Session /\ inbox[h] \in Seq(Reports) /\ stopped[h] \subseteq Nat
      /\ Lives(h)
  BY DEF SInv, Types
<1>2. /\ host[h].kind \in Kinds \cup {"none"} /\ host[h].size \in Nat /\ host[h].k \in Nat
  BY <1>1 DEF Session
<1>3. FrameCount(host[h]) \in Nat
  BY <1>2 DEF FrameCount
<1>4. IsOpen(h) => ~At(h, "new")
  BY DEF IsOpen, At
<1>5. IsOpen(h) => Kind(h) \in Kinds /\ host[h].k > 0
  BY <1>1, <1>2, <1>3, <1>4 DEF Lives, Kind
<1> QED BY <1>1, <1>2, <1>3, <1>5

LEMMA OpenKeeps ==
  ASSUME SInv, NEW h \in Hosts, NEW kind \in Plan[h],
         NEW size \in IF kind = "upload" THEN Sizes ELSE {0}, Open(h, kind, size)
  PROVE  SInv'
<1> DEFINE s == [kind |-> kind, size |-> size, at |-> "send", k |-> 1]
<1>1. kind \in Kinds /\ kind # "none" /\ size \in Nat /\ size \in Sizes \cup {0}
  BY DEF Kinds
<1>2. s \in Session /\ s.at = "send" /\ s.kind = kind /\ s.k = 1 /\ s.size = size
  BY <1>1 DEF Session
<1>3. FrameCount(s) \in Nat /\ FrameCount(s) >= 1
  BY <1>1, <1>2 DEF FrameCount
<1> HIDE DEF s
<1>4. At(h, "new") /\ Lives(h) /\ inbox[h] = <<>> /\ inbox[h] \in Seq(Reports)
  BY SessionIs DEF Open, SInv, Lives, IsOpen, At
<1>5. Becomes(h, s, inbox[h]) /\ usb' = usb /\ host' = [host EXCEPT ![h] = s]
  BY <1>4 DEF Open, Becomes, SInv, Types, s
<1>6. usb \in Seq(Frames) /\ \A i \in 1..Len(usb) : Sent(usb[i])'
  <2>1. usb \in Seq(Frames) /\ \A i \in 1..Len(usb) : usb[i] \in Frames /\ Sent(usb[i])
    BY DEF SInv, Types
  <2>2. \A g \in Frames : Sent(g) => Sent(g)'
    BY <1>2, <1>4, <1>5, SentKept
  <2> QED BY <1>5, <2>1, <2>2
<1>7. host'[h] = s /\ inbox'[h] = <<>> /\ stopped'[h] = stopped[h]
  BY <1>4, <1>5 DEF SInv, Types, Becomes
<1>8. Lives(h)' /\ Echoes(h)'
  BY <1>1, <1>2, <1>3, <1>4, <1>7 DEF Lives, Echoes, At, Kind, IsOpen
<1> QED BY <1>2, <1>4, <1>5, <1>6, <1>8, BecomesKeeps

LEMMA SendKeeps ==
  ASSUME SInv, NEW h \in Hosts, Send(h)
  PROVE  SInv'
<1> DEFINE s == [host[h] EXCEPT !.at = "wait"]
<1>1. /\ host[h] \in Session /\ inbox[h] \in Seq(Reports) /\ IsOpen(h) /\ Lives(h) /\ Echoes(h)
      /\ Kind(h) \in Kinds /\ host[h].k \in Nat /\ host[h].k > 0 /\ host[h].size \in Nat
      /\ ~At(h, "new") /\ At(h, "send")
  BY SessionIs DEF Send, SInv, IsOpen, At
<1>2. /\ s \in Session /\ s.at = "wait"
      /\ s.kind = Kind(h) /\ s.k = host[h].k /\ s.size = host[h].size
  BY <1>1 DEF Session, Kind
<1>3. FrameCount(s) = FrameCount(host[h])
  BY <1>2 DEF FrameCount, Kind
<1>4. PICK f \in Frames : f = Frame(h, host[h].k)
  BY <1>1, FrameIs
<1>5. host' = [host EXCEPT ![h] = s] /\ usb' = Append(usb, f) /\ Becomes(h, s, inbox[h])
  BY <1>1, <1>4 DEF Send, Becomes, SInv, Types
<1>6. host'[h] = s /\ inbox'[h] = inbox[h] /\ stopped'[h] = stopped[h]
  BY <1>5 DEF SInv, Types, Becomes
<1> HIDE DEF s
<1>7. Sent(f)'
  <2>1. host[h].k \in 1..FrameCount(host[h])
    BY <1>1 DEF Lives
  <2>2. f.h = h
    BY <1>1, <1>4, FrameIs
  <2>3. Uploads(f) => Kind(h) = "upload"
    BY <1>1, <1>4, FrameIs DEF Uploads
  <2>4. f.op = "motor" => f.arg \in 1..Ports
    <3>1. f.op = "motor" => Kind(h) = "stop" /\ f.arg = host[h].k
      BY <1>1, <1>4, FrameIs
    <3> QED BY <2>1, <3>1 DEF FrameCount, Kind
  <2>5. f.op # "motor" => f.tag < Wrap
    BY <1>1, <1>4, TagFits
  <2>6. f.op = "data" => f.arg = (f.no + 1) \div Wrap
    <3>1. f.op = "data" => f.no = host[h].k - 1 /\ f.arg = host[h].k \div Wrap
      <4>1. host[h].k \in Nat /\ host[h].k > 0 /\ host[h] \in Session
        BY <1>1
      <4>2. LET g == Frame(h, host[h].k) IN
              g.op = "data" => g.no = host[h].k - 1 /\ g.arg = host[h].k \div Wrap
        BY <4>1, FrameIs
      <4> QED BY <1>4, <4>2, Zenon
    <3>2. host[h].k - 1 + 1 = host[h].k
      BY <1>1
    <3> QED BY <3>1, <3>2
  <2>7. ~At(h, "new")' /\ Kind(h)' = Kind(h)
    BY <1>2, <1>6 DEF At, Kind
  <2> QED BY <2>2, <2>3, <2>4, <2>5, <2>6, <2>7 DEF Sent
<1>8. usb' \in Seq(Frames) /\ \A i \in 1..Len(usb') : Sent(usb[i])'
  <2>1. usb \in Seq(Frames) /\ \A i \in 1..Len(usb) : Sent(usb[i])
    BY DEF SInv, Types
  <2>2. \A i \in 1..Len(usb) : usb[i] \in Frames
    BY <2>1
  <2>3. \A g \in Frames : Sent(g) => Sent(g)'
    BY <1>1, <1>2, <1>5, SentKept
  <2>4. /\ usb' \in Seq(Frames) /\ Len(usb') = Len(usb) + 1 /\ usb'[Len(usb) + 1] = f
        /\ \A i \in 1..Len(usb) : usb'[i] = usb[i]
    BY <1>4, <1>5, <2>1
  <2>5. ASSUME NEW i \in 1..Len(usb') PROVE Sent(usb[i])'
    <3>1. CASE i = Len(usb) + 1
      BY <1>7, <2>4, <3>1
    <3>2. CASE i \in 1..Len(usb)
      BY <2>1, <2>2, <2>3, <2>4, <3>2
    <3> QED BY <2>1, <2>4, <3>1, <3>2
  <2> QED BY <2>4, <2>5
<1>9. Lives(h)' /\ Echoes(h)'
  <2>1. Kind(h) = "upload" /\ host[h].size = 0 => host[h].k = 1
    <3>1. Kind(h) = "upload" => host[h].k \in 1..(host[h].size + 2)
      BY <1>1 DEF Lives, FrameCount, Kind
    <3>2. ~(Kind(h) = "upload" /\ host[h].size = 0 /\ host[h].k = 2)
      BY DEF Send
    <3> QED BY <1>1, <3>1, <3>2
  <2> QED BY <1>1, <1>2, <1>3, <1>6, <2>1 DEF Lives, Echoes, At, Kind, IsOpen
<1> QED BY <1>1, <1>2, <1>5, <1>8, <1>9, BecomesKeeps

\* A session ends, a motor stop successfully only when every motor is stopped.
LEMMA EndKeeps ==
  ASSUME SInv, NEW h \in Hosts, IsOpen(h), NEW how \in Ended, End(h, how),
         Kind(h) = "stop" /\ how = "done" => 1..Ports \subseteq stopped[h],
         UNCHANGED <<usb, stored, image, stopped>>
  PROVE  SInv'
<1> DEFINE s == [host[h] EXCEPT !.at = how]
<1>1. /\ host[h] \in Session /\ host[h].k \in Nat /\ ~At(h, "new") /\ Lives(h)
      /\ how \notin {"new", "send", "wait"}
  BY SessionIs DEF SInv, IsOpen, At, Ended
<1>2. /\ s \in Session /\ s.at = how
      /\ s.kind = Kind(h) /\ s.k = host[h].k /\ s.size = host[h].size
  BY <1>1 DEF Session, Kind
<1>3. FrameCount(s) = FrameCount(host[h])
  BY <1>2 DEF FrameCount, Kind
<1>4. <<>> \in Seq(Reports)
  OBVIOUS
<1>5. host' = [host EXCEPT ![h] = s] /\ Becomes(h, s, <<>>)
  BY <1>1 DEF End, Becomes, SInv, Types
<1>6. host'[h] = s /\ inbox'[h] = <<>> /\ stopped'[h] = stopped[h]
  BY <1>5 DEF SInv, Types, Becomes
<1> HIDE DEF s
<1>7. usb' \in Seq(Frames) /\ \A i \in 1..Len(usb') : Sent(usb[i])'
  <2>1. usb \in Seq(Frames) /\ \A i \in 1..Len(usb) : usb[i] \in Frames /\ Sent(usb[i])
    BY DEF SInv, Types
  <2>2. \A g \in Frames : Sent(g) => Sent(g)'
    BY <1>1, <1>2, <1>5, SentKept
  <2> QED BY <2>1, <2>2
<1>8. Lives(h)' /\ Echoes(h)'
  BY <1>1, <1>2, <1>3, <1>6 DEF Lives, Echoes, At, Kind, IsOpen, Ended
<1> QED BY <1>1, <1>2, <1>4, <1>5, <1>7, <1>8, BecomesKeeps

LEMMA Tails ==
  ASSUME NEW S, NEW q \in Seq(S), q # <<>>
  PROVE  /\ Tail(q) \in Seq(S) /\ Len(Tail(q)) = Len(q) - 1 /\ Len(q) \in Nat \ {0}
         /\ Head(q) = q[1] /\ Head(q) \in S
         /\ \A i \in 1..(Len(q) - 1) : Tail(q)[i] = q[i + 1]
OBVIOUS

LEMMA Advanced ==
  ASSUME NEW x \in Session
  PROVE  LET s == [x EXCEPT !.at = "send", !.k = @ + 1] IN
         /\ s \in Session /\ s.at = "send"
         /\ s.kind = x.kind /\ s.k = x.k + 1 /\ s.size = x.size
<1>1. \A K, N, A : \A p \in [kind : K, size : N, at : A, k : N], v \in A, n \in N :
        [p EXCEPT !.at = v, !.k = n] \in [kind : K, size : N, at : A, k : N]
  OBVIOUS
<1>2. x.k + 1 \in Nat /\ "send" \in {"new", "send", "wait"} \cup Ended
  BY DEF Session
<1>3. [x EXCEPT !.at = "send", !.k = @ + 1] = [x EXCEPT !.at = "send", !.k = x.k + 1]
  OBVIOUS
<1>4. [x EXCEPT !.at = "send", !.k = @ + 1] \in Session
  BY <1>1, <1>2, <1>3 DEF Session
<1>5. DOMAIN x = {"kind", "size", "at", "k"}
  BY DEF Session
<1> QED BY <1>4, <1>5

LEMMA TakeKeeps ==
  ASSUME SInv, NEW h \in Hosts, Take(h)
  PROVE  SInv'
<1> DEFINE r == Head(inbox[h])
           k == host[h].k
           q == Tail(inbox[h])
<1>1. /\ host[h] \in Session /\ inbox[h] \in Seq(Reports) /\ IsOpen(h) /\ Lives(h) /\ Echoes(h)
      /\ k \in Nat /\ k > 0 /\ host[h].size \in Nat /\ FrameCount(host[h]) \in Nat
      /\ ~At(h, "new") /\ At(h, "wait") /\ inbox[h] # <<>>
      /\ stopped[h] \subseteq 1..Ports
  BY SessionIs DEF Take, SInv, IsOpen, At, Lives
<1>2. /\ q \in Seq(Reports) /\ Len(q) = Len(inbox[h]) - 1 /\ Len(inbox[h]) \in Nat \ {0}
      /\ r = inbox[h][1] /\ \A i \in 1..Len(q) : q[i] = inbox[h][i + 1]
  BY <1>1, Tails
<1>3. k \in 1..FrameCount(host[h]) /\ (Kind(h) = "stop" => FrameCount(host[h]) = Ports)
  BY <1>1 DEF Lives, FrameCount, Kind
<1>4. Kind(h) = "stop" /\ Accepts(h, r) => k \in stopped[h]
  <2>1. Kind(h) = "stop" =>
          Frame(h, k) \in Frames /\ Frame(h, k).op = "motor" /\ Frame(h, k).arg = k
    BY <1>1, FrameIs
  <2>2. Answer(Frame(h, k), TRUE).op = "motor" <=> Frame(h, k).op = "motor"
    BY <1>1, FrameIs, AnswerIs
  <2>3. Accepts(h, r) /\ Kind(h) = "stop" => r.op = "motor" /\ r.arg = k
    BY <2>1, <2>2 DEF Accepts, Matches
  <2>4. r.op = "motor" => r.arg \in stopped[h]
    BY <1>1, <1>2 DEF Echoes
  <2> QED BY <2>3, <2>4
<1>5. UNCHANGED <<usb, stored, image, stopped>>
  BY DEF Take
<1>6. CASE Accepts(h, r) /\ k < FrameCount(host[h])
  <2> DEFINE s == [host[h] EXCEPT !.at = "send", !.k = @ + 1]
  <2>1. /\ s \in Session /\ s.at = "send"
        /\ s.kind = Kind(h) /\ s.k = k + 1 /\ s.size = host[h].size
    BY <1>1, Advanced DEF Kind
  <2>2. FrameCount(s) = FrameCount(host[h])
    BY <2>1 DEF FrameCount, Kind
  <2>3. NextFrame(h)
    BY <1>6 DEF Take, Rejects
  <2>4. host' = [host EXCEPT ![h] = s] /\ Becomes(h, s, q)
    BY <1>1, <1>5, <1>6, <2>3 DEF NextFrame, Becomes, SInv, Types
  <2>5. host'[h] = s /\ inbox'[h] = q /\ stopped'[h] = stopped[h]
    BY <2>4 DEF SInv, Types, Becomes
  <2> HIDE DEF s
  <2>6. usb' \in Seq(Frames) /\ \A i \in 1..Len(usb') : Sent(usb[i])'
    <3>1. usb \in Seq(Frames) /\ \A i \in 1..Len(usb) : usb[i] \in Frames /\ Sent(usb[i])
      BY DEF SInv, Types
    <3>2. \A g \in Frames : Sent(g) => Sent(g)'
      BY <1>1, <2>1, <2>4, SentKept
    <3> QED BY <1>5, <3>1, <3>2
  <2>7. Echoes(h)'
    <3>1. \A i \in 1..Len(q) : i + 1 \in 1..Len(inbox[h]) /\ q[i] = inbox[h][i + 1]
      BY <1>2
    <3>2. \A i \in 1..Len(inbox[h]) :
            LET x == inbox[h][i] IN
            x = Answer(x.of, x.good) /\ (x.op = "motor" => x.arg \in stopped[h])
      BY <1>1 DEF Echoes
    <3> HIDE DEF q
    <3> QED BY <2>5, <3>1, <3>2 DEF Echoes
  <2>8. Kind(h) = "stop" => 1..k \subseteq stopped[h]
    <3>1. Kind(h) = "stop" => 1..(k - 1) \subseteq stopped[h]
      BY <1>1 DEF Lives
    <3>2. 1..k = 1..(k - 1) \cup {k}
      BY <1>1
    <3> QED BY <1>4, <1>6, <3>1, <3>2
  <2>9. Lives(h)'
    <3>1. k + 1 \in 1..FrameCount(host[h]) /\ k + 1 - 1 = k
      BY <1>1, <1>6
    <3> QED BY <1>1, <2>1, <2>2, <2>5, <2>8, <3>1 DEF Lives, At, Kind, IsOpen, Ended
  <2> QED BY <1>1, <1>2, <2>1, <2>4, <2>6, <2>7, <2>9, BecomesKeeps
<1>7. CASE Accepts(h, r) /\ ~(k < FrameCount(host[h]))
  <2>1. End(h, "done")
    BY <1>7 DEF Take, Rejects, NextFrame
  <2>2. Kind(h) = "stop" => 1..Ports \subseteq stopped[h]
    <3>1. Kind(h) = "stop" => k = Ports
      BY <1>3, <1>7
    <3>2. Kind(h) = "stop" => 1..(k - 1) \subseteq stopped[h]
      BY <1>1 DEF Lives
    <3>3. 1..k = 1..(k - 1) \cup {k}
      BY <1>1
    <3> QED BY <1>4, <1>7, <3>1, <3>2, <3>3
  <2> QED BY <1>1, <1>5, <2>1, <2>2, EndKeeps DEF Ended
<1>8. CASE Rejects(h, r)
  BY <1>1, <1>5, <1>8, EndKeeps DEF Take, Rejects, Ended
<1>9. CASE ~Accepts(h, r) /\ ~Rejects(h, r)
  <2>1. UNCHANGED <<host, stored, image, stopped, usb>> /\ inbox' = [inbox EXCEPT ![h] = q]
    BY <1>9 DEF Take, Skip
  <2>2. host[h] \in Session /\ host' = [host EXCEPT ![h] = host[h]]
    BY <1>1, <2>1 DEF SInv, Types
  <2>3. Becomes(h, host[h], q)
    BY <2>1, <2>2 DEF Becomes
  <2>4. inbox'[h] = q
    BY <2>1 DEF SInv, Types
  <2>5. Lives(h)' /\ Echoes(h)'
    BY <1>1, <1>2, <2>1, <2>4 DEF Lives, Echoes, At, Kind, IsOpen
  <2>6. usb' \in Seq(Frames) /\ \A i \in 1..Len(usb') : Sent(usb[i])'
    BY <2>1 DEF SInv, Types, Sent, At, Kind
  <2> QED BY <1>1, <1>2, <2>2, <2>3, <2>5, <2>6, BecomesKeeps DEF At, Kind
<1> QED BY <1>6, <1>7, <1>8, <1>9

\* What the controller's step does to the motors stopped.
LEMMA EffectIs ==
  ASSUME SInv, Serve, NEW f \in Frames, f = Head(usb), Sent(f)
  PROVE  /\ stored' \in Seq(Nat) /\ image' \in [by : Nat, packets : Seq(Nat)]
         /\ stopped' \in [Hosts -> SUBSET Nat]
         /\ \A h \in Hosts :
              /\ stopped[h] \subseteq stopped'[h]
              /\ stopped'[h] \subseteq stopped[h] \cup 1..Ports
              /\ f.op = "motor" /\ IsOpen(h) => f.arg \in stopped'[h]
<1>1. /\ f.op \in Ops /\ f.no \in Nat /\ f.h \in Nat /\ f.arg \in Nat
      /\ f.op = "motor" => f.arg \in 1..Ports
  BY DEF Frames, Sent
<1>2. /\ stored \in Seq(Nat) /\ image \in [by : Nat, packets : Seq(Nat)]
      /\ stopped \in [Hosts -> SUBSET Nat]
  BY DEF SInv, Types
<1>3. Effect(f)
  BY DEF Serve
<1>4. CASE f.op = "motor"
  <2>1. /\ stopped' = [h \in Hosts |-> IF IsOpen(h) THEN stopped[h] \cup {f.arg} ELSE stopped[h]]
        /\ UNCHANGED <<stored, image>>
    BY <1>3, <1>4 DEF Effect
  <2> QED BY <1>1, <1>2, <1>4, <2>1
<1>5. CASE f.op # "motor"
  <2>1. stopped' = stopped
    BY <1>3, <1>5 DEF Effect
  <2>2. stored' \in Seq(Nat)
    <3>1. \/ stored' = stored \/ stored' = <<>> \/ stored' = Append(stored, f.no)
      BY <1>1, <1>3, <1>5 DEF Effect, Ops
    <3>2. stored \in Seq(Nat) /\ f.no \in Nat
      BY <1>1, <1>2
    <3>3. <<>> \in Seq(Nat) /\ Append(stored, f.no) \in Seq(Nat)
      BY <3>2
    <3> QED BY <3>1, <3>2, <3>3
  <2>3. image' \in [by : Nat, packets : Seq(Nat)]
    <3>1. image' = image \/ image' = [by |-> f.h, packets |-> stored]
      BY <1>1, <1>3, <1>5 DEF Effect, Ops
    <3> QED BY <1>1, <1>2, <3>1
  <2> QED BY <1>2, <1>5, <2>1, <2>2, <2>3
<1> QED BY <1>4, <1>5

LEMMA ServeKeeps ==
  ASSUME SInv, Serve
  PROVE  SInv'
<1>1. usb \in Seq(Frames) /\ usb # <<>> /\ usb' = Tail(usb) /\ host' = host
  BY DEF SInv, Types, Serve
<1>2. /\ Tail(usb) \in Seq(Frames) /\ Len(Tail(usb)) = Len(usb) - 1 /\ Len(usb) \in Nat \ {0}
      /\ Head(usb) = usb[1] /\ Head(usb) \in Frames
      /\ \A i \in 1..(Len(usb) - 1) : Tail(usb)[i] = usb[i + 1]
  BY <1>1, Tails
<1>3. PICK f \in Frames : f = Head(usb)
  BY <1>2
<1>4. Sent(f)
  BY <1>2, <1>3 DEF SInv
<1>5. /\ stored' \in Seq(Nat) /\ image' \in [by : Nat, packets : Seq(Nat)]
      /\ stopped' \in [Hosts -> SUBSET Nat]
      /\ \A h \in Hosts :
           /\ stopped[h] \subseteq stopped'[h]
           /\ stopped'[h] \subseteq stopped[h] \cup 1..Ports
           /\ f.op = "motor" /\ IsOpen(h) => f.arg \in stopped'[h]
  BY <1>3, <1>4, EffectIs
<1>6. usb' \in Seq(Frames) /\ \A i \in 1..Len(usb') : Sent(usb[i])'
  <2>1. \A i \in 1..Len(usb') : i + 1 \in 1..Len(usb) /\ usb'[i] = usb[i + 1]
    BY <1>1, <1>2
  <2>2. \A i \in 1..Len(usb) : Sent(usb[i])
    BY DEF SInv
  <2> QED BY <1>1, <1>2, <2>1, <2>2 DEF Sent, At, Kind
<1>7. ASSUME NEW h \in Hosts PROVE Lives(h)' /\ Echoes(h)' /\ inbox'[h] \in Seq(Reports)
  <2>1. /\ inbox[h] \in Seq(Reports) /\ inbox \in [Hosts -> Seq(Reports)]
        /\ host'[h] = host[h] /\ Lives(h) /\ Echoes(h)
    BY <1>1 DEF SInv, Types
  <2>2. \/ inbox'[h] = inbox[h]
        \/ \E good \in BOOLEAN : IsOpen(h) /\ inbox'[h] = Append(inbox[h], Answer(f, good))
    BY <1>3, <2>1 DEF Serve, Report
  <2>3. Lives(h)'
    <3>1. /\ stopped[h] \subseteq stopped'[h] /\ stopped'[h] \subseteq 1..Ports
          /\ ~IsOpen(h) => inbox'[h] = <<>>
      BY <1>5, <2>1, <2>2 DEF Lives
    <3> QED BY <2>1, <3>1 DEF Lives, At, Kind, IsOpen
  <2>4. \A i \in 1..Len(inbox[h]) :
          LET r == inbox[h][i] IN
          r = Answer(r.of, r.good) /\ (r.op = "motor" => r.arg \in stopped'[h])
    BY <1>5, <2>1 DEF Echoes
  <2>5. CASE inbox'[h] = inbox[h]
    BY <2>1, <2>3, <2>4, <2>5 DEF Echoes
  <2>6. ASSUME NEW good \in BOOLEAN, IsOpen(h), inbox'[h] = Append(inbox[h], Answer(f, good))
        PROVE  Echoes(h)' /\ inbox'[h] \in Seq(Reports)
    <3>1. PICK r \in Reports : r = Answer(f, good)
      BY AnswerIs
    <3>2. /\ r = Answer(r.of, r.good)
          /\ r.op = "motor" => r.arg \in stopped'[h]
      BY <1>5, <2>6, <3>1, AnswerIs
    <3>3. /\ inbox'[h] \in Seq(Reports) /\ Len(inbox'[h]) = Len(inbox[h]) + 1
          /\ inbox'[h][Len(inbox[h]) + 1] = r
          /\ \A i \in 1..Len(inbox[h]) : inbox'[h][i] = inbox[h][i]
      BY <2>1, <2>6, <3>1
    <3>4. ASSUME NEW i \in 1..Len(inbox'[h])
          PROVE  LET x == inbox'[h][i] IN
                 x = Answer(x.of, x.good) /\ (x.op = "motor" => x.arg \in stopped'[h])
      <4>1. i \in 1..Len(inbox[h]) \/ i = Len(inbox[h]) + 1
        BY <2>1, <3>3
      <4> QED BY <2>4, <3>2, <3>3, <4>1
    <3> QED BY <3>3, <3>4 DEF Echoes
  <2> QED BY <2>2, <2>3, <2>5, <2>6
<1>8. inbox' \in [Hosts -> Seq(Reports)]
  <2>1. \E S : inbox' = [h \in Hosts |-> S[h]]
    BY DEF Serve, Report, SInv, Types
  <2> QED BY <1>7, <2>1
<1> QED BY <1>1, <1>5, <1>6, <1>7, <1>8 DEF SInv, Types

LEMMA SInit ==
  ASSUME Init
  PROVE  SInv
<1>1. New \in Session /\ NoImage \in [by : Nat, packets : Seq(Nat)]
  BY DEF New, NoImage, Session
<1>2. Types
  BY <1>1 DEF Init, Types
<1>3. ASSUME NEW h \in Hosts PROVE Lives(h) /\ Echoes(h)
  <2>1. host[h] = New /\ inbox[h] = <<>> /\ stopped[h] = {}
    BY DEF Init
  <2> QED BY <2>1 DEF New, Lives, Echoes, Kind, At, IsOpen
<1> QED BY <1>2, <1>3 DEF Init, SInv

LEMMA SStep ==
  ASSUME SInv, [Next]_vars
  PROVE  SInv'
<1>1. ASSUME NEW h \in Hosts, NothingToFinish(h) PROVE SInv'
  BY <1>1, EndKeeps DEF NothingToFinish, IsOpen, At, Kind, Ended
<1>2. ASSUME NEW h \in Hosts, Timeout(h) PROVE SInv'
  BY <1>2, EndKeeps DEF Timeout, IsOpen, At, Ended
<1>3. CASE UNCHANGED vars
  BY <1>3 DEF vars, SInv, Types, Sent, Lives, Echoes, Kind, At, IsOpen
<1> QED BY <1>1, <1>2, <1>3, OpenKeeps, SendKeeps, TakeKeeps, ServeKeeps DEF Next

THEOREM SessionsKept == Spec => []SInv
<1>1. Init => SInv
  BY SInit
<1>2. SInv /\ [Next]_vars => SInv'
  BY SStep
<1> QED BY <1>1, <1>2, PTL DEF Spec

LEMMA FrameSent ==
  ASSUME SInv, NEW i \in DOMAIN usb
  PROVE  Sent(usb[i])
<1>1. usb \in Seq(Frames) /\ \A j \in 1..Len(usb) : Sent(usb[j])
  BY DEF SInv, Types
<1>2. DOMAIN usb = 1..Len(usb)
  BY <1>1
<1> QED BY <1>1, <1>2

\* Sessions, frames and reports are what they should be; no session counts beyond
\* its last frame, a closed one holds no reports, and sequence numbers fit a byte.
THEOREM TypeCorrect == Spec => []TypeOK
<1>1. SInv => TypeOK
  <2>1. ASSUME SInv, NEW h \in Hosts
        PROVE  /\ host[h].kind \in Kinds \cup {"none"} /\ host[h].size \in Sizes \cup {0}
               /\ host[h].at \in {"new", "send", "wait"} \cup Ended
               /\ host[h].k \in 0..FrameCount(host[h])
               /\ ~IsOpen(h) => inbox[h] = <<>>
    <3>1. host[h] \in Session /\ Lives(h) /\ FrameCount(host[h]) \in Nat
      BY <2>1, SessionIs DEF SInv
    <3> QED BY <3>1 DEF Lives, Session
  <2>2. ASSUME SInv, NEW i \in DOMAIN usb
        PROVE  usb[i].tag < Wrap \/ usb[i].op = "motor"
    <3>1. Sent(usb[i])
      BY <2>2, FrameSent
    <3> QED BY <3>1 DEF Sent
  <2> QED BY <2>1, <2>2 DEF TypeOK
<1> QED BY <1>1, SessionsKept, PTL

\* stop_all reports success only if every motor was stopped after it was called.
THEOREM StopIsHonest == Spec => []StopHonest
<1>1. SInv => StopHonest
  BY DEF SInv, Lives, StopHonest
<1> QED BY <1>1, SessionsKept, PTL

\* Every packet waiting in the controller is in the block of its number of wraps.
THEOREM BlocksFollowNumbers == Spec => []BlocksSeqAligned
<1>1. SInv => BlocksSeqAligned
  <2>1. ASSUME SInv, NEW i \in DOMAIN usb PROVE Sent(usb[i])
    BY <2>1, FrameSent
  <2> QED BY <2>1 DEF Sent, BlocksSeqAligned
<1> QED BY <1>1, SessionsKept, PTL

-----------------------------------------------------------------------------
(* The queue of one upload.                                                *)

LEMMA Tailed ==
  ASSUME NEW S, NEW q \in Seq(S), q # <<>>
  PROVE  /\ \A i \in 1..Len(Tail(q)) : i + 1 \in 1..Len(q) /\ Tail(q)[i] = q[i + 1]
         /\ \A j \in 2..Len(q) : j - 1 \in 1..Len(Tail(q)) /\ Tail(q)[j - 1] = q[j]
         /\ 1 \in 1..Len(q)
         /\ \A i \in 1..Len(q) : i = 1 \/ i \in 2..Len(q)
OBVIOUS

LEMMA Appended ==
  ASSUME NEW S, NEW q \in Seq(S), NEW x \in S
  PROVE  /\ Append(q, x) \in Seq(S) /\ Len(Append(q, x)) = Len(q) + 1
         /\ Append(q, x)[Len(q) + 1] = x
         /\ \A i \in 1..Len(q) : i \in 1..(Len(q) + 1) /\ Append(q, x)[i] = q[i]
         /\ \A i \in 1..(Len(q) + 1) : i = Len(q) + 1 \/ i \in 1..Len(q)
         /\ Len(q) + 1 \in 1..(Len(q) + 1) /\ Len(q) \in Nat
OBVIOUS

LEMMA ReportOf ==
  ASSUME NEW a \in Seq(Reports), NEW i \in 1..Len(a)
  PROVE  a[i] \in Reports /\ a[i].of \in Frames
<1>1. a[i] \in Reports
  OBVIOUS
<1> QED BY <1>1 DEF Reports

LEMMA HoldsTail ==
  ASSUME NEW h, NEW n \in Nat, NEW m \in Nat, NEW q \in Seq(Frames), q # <<>>,
         Holds(h, n, m, q)
  PROVE  Holds(h, n, m, Tail(q))
<1> DEFINE t == Tail(q)
<1>1. /\ \A i \in 1..Len(t) : i + 1 \in 1..Len(q) /\ t[i] = q[i + 1]
      /\ \A j \in 2..Len(q) : j - 1 \in 1..Len(t) /\ t[j - 1] = q[j]
      /\ Len(q) \in Nat /\ Len(t) \in Nat
  BY Tailed
<1> HIDE DEF t
<1>2. \A i \in 1..Len(t) : Own(h, n, m, t[i])
  BY <1>1 DEF Holds
<1>3. ASSUME NEW i \in 1..Len(t), NEW j \in 1..Len(t), i < j
      PROVE  Follows(h, n, t[i], t[j])
  <2>1. i + 1 \in 1..Len(q) /\ j + 1 \in 1..Len(q) /\ i + 1 < j + 1
    BY <1>1, <1>3
  <2> QED BY <1>1, <2>1 DEF Holds
<1>4. ASSUME NEW i \in 1..Len(t), Uploads(t[i]), NEW p \in From(h, n, t[i])..m
      PROVE  \E j \in i..Len(t) : Mine(h, t[j]) /\ Number(n, t[j]) = p
  <2>1. i + 1 \in 1..Len(q) /\ t[i] = q[i + 1]
    BY <1>1
  <2>2. PICK j \in (i + 1)..Len(q) : Mine(h, q[j]) /\ Number(n, q[j]) = p
    BY <1>4, <2>1 DEF Holds
  <2>3. j \in 2..Len(q) /\ j - 1 \in i..Len(t)
    BY <1>1, <2>1
  <2> QED BY <1>1, <2>2, <2>3
<1> QED BY <1>2, <1>3, <1>4 DEF Holds, t

\* A frame of another kind of session.
LEMMA HoldsOther ==
  ASSUME NEW h, NEW n \in Nat, NEW m \in Nat, NEW q \in Seq(Frames),
         Holds(h, n, m, q), NEW f \in Frames, ~Uploads(f)
  PROVE  Holds(h, n, m, Append(q, f))
<1> DEFINE t == Append(q, f)
<1>1. /\ Len(t) = Len(q) + 1 /\ t[Len(q) + 1] = f /\ Len(q) \in Nat
      /\ \A i \in 1..Len(q) : i \in 1..Len(t) /\ t[i] = q[i]
      /\ \A i \in 1..Len(t) : i = Len(q) + 1 \/ i \in 1..Len(q)
  BY Appended
<1> HIDE DEF t
<1>2. ~Mine(h, f)
  BY DEF Mine
<1>3. \A i \in 1..Len(t) : Own(h, n, m, t[i])
  BY <1>1, <1>2 DEF Holds, Own
<1>4. ASSUME NEW i \in 1..Len(t), NEW j \in 1..Len(t), i < j
      PROVE  Follows(h, n, t[i], t[j])
  BY <1>1, <1>4 DEF Holds, Follows
<1>5. ASSUME NEW i \in 1..Len(t), Uploads(t[i]), NEW p \in From(h, n, t[i])..m
      PROVE  \E j \in i..Len(t) : Mine(h, t[j]) /\ Number(n, t[j]) = p
  <2>1. i \in 1..Len(q) /\ t[i] = q[i]
    BY <1>1, <1>5
  <2>2. PICK j \in i..Len(q) : Mine(h, q[j]) /\ Number(n, q[j]) = p
    BY <1>5, <2>1 DEF Holds
  <2>3. j \in 1..Len(q) /\ j \in i..Len(t)
    BY <1>1, <2>1
  <2> QED BY <1>1, <2>2, <2>3
<1> QED BY <1>3, <1>4, <1>5 DEF Holds, t

\* The next frame of the upload.
LEMMA HoldsNext ==
  ASSUME NEW h, NEW n \in Nat, NEW m \in Nat, NEW q \in Seq(Frames),
         Holds(h, n, m, q), NEW f \in Frames, Mine(h, f), Number(n, f) = m + 1,
         IsNth(n, f, m + 1)
  PROVE  Holds(h, n, m + 1, Append(q, f))
<1> DEFINE t == Append(q, f)
<1>1. /\ Len(t) = Len(q) + 1 /\ t[Len(q) + 1] = f /\ Len(q) \in Nat
      /\ \A i \in 1..Len(q) : i \in 1..Len(t) /\ t[i] = q[i]
      /\ \A i \in 1..Len(t) : i = Len(q) + 1 \/ i \in 1..Len(q)
  BY Appended
<1> HIDE DEF t
<1>2. \A i \in 1..Len(q) : Mine(h, q[i]) => Number(n, q[i]) \in 1..m
  BY DEF Holds, Own
<1>3. \A i \in 1..Len(t) : Own(h, n, m + 1, t[i])
  <2>1. ASSUME NEW i \in 1..Len(q) PROVE Own(h, n, m + 1, q[i])
    BY DEF Holds, Own
  <2>2. Own(h, n, m + 1, f)
    BY DEF Own
  <2> QED BY <1>1, <2>1, <2>2
<1>4. ASSUME NEW i \in 1..Len(t), NEW j \in 1..Len(t), i < j
      PROVE  Follows(h, n, t[i], t[j])
  <2>1. i \in 1..Len(q)
    BY <1>1, <1>4
  <2>2. CASE j \in 1..Len(q)
    BY <1>1, <1>4, <2>1, <2>2 DEF Holds
  <2>3. CASE j = Len(q) + 1
    BY <1>1, <1>2, <2>1, <2>3 DEF Follows
  <2> QED BY <1>1, <2>2, <2>3
<1>5. ASSUME NEW i \in 1..Len(t), Uploads(t[i]), NEW p \in From(h, n, t[i])..(m + 1)
      PROVE  \E j \in i..Len(t) : Mine(h, t[j]) /\ Number(n, t[j]) = p
  <2>1. CASE p = m + 1
    BY <1>1, <2>1
  <2>2. CASE p # m + 1
    <3>1. i # Len(q) + 1
      BY <1>1, <2>2 DEF From
    <3>2. i \in 1..Len(q) /\ t[i] = q[i]
      BY <1>1, <3>1
    <3>3. p \in From(h, n, q[i])..m
      BY <1>2, <2>2, <3>2 DEF From
    <3>4. PICK j \in i..Len(q) : Mine(h, q[j]) /\ Number(n, q[j]) = p
      BY <1>5, <3>2, <3>3 DEF Holds
    <3>5. j \in 1..Len(q) /\ j \in i..Len(t)
      BY <1>1, <3>2
    <3> QED BY <1>1, <3>4, <3>5
  <2> QED BY <2>1, <2>2
<1> QED BY <1>3, <1>4, <1>5 DEF Holds, t

\* The controller takes a frame of an upload, with what it does to the packets and
\* the image.
Served(f, s, x, st, xt) ==
  /\ st = CASE f.op = "begin" -> <<>>
            [] f.op = "data" -> Append(s, f.no)
            [] OTHER -> s
  /\ xt = IF f.op = "finish" THEN [by |-> f.h, packets |-> s] ELSE x

LEMMA UptoNext ==
  ASSUME NEW n \in Nat
  PROVE  Append(Upto(n), n + 1) = Upto(n + 1) /\ Upto(0) = <<>>
BY DEF Upto

\* What the controller has after it took a frame of h.
LEMMA ServedIs ==
  ASSUME NEW h, NEW n \in Nat \ {0}, NEW m \in 0..(n + 2), NEW q \in Seq(Frames), q # <<>>,
         NEW s, NEW x, NEW st, NEW xt,
         Holds(h, n, m, q), Stores(h, n, m, q, s, x), Served(q[1], s, x, st, xt),
         Mine(h, q[1])
  PROVE  LET p == Number(n, q[1]) IN
         /\ p \in 1..m
         /\ p < n + 2 => st = Upto(p - 1)
         /\ p = n + 2 => xt = Whole(h, n)
<1> DEFINE f == q[1]
           p == Number(n, f)
<1>1. 1 \in 1..Len(q) /\ f \in Frames
  OBVIOUS
<1>2. p \in 1..m /\ IsNth(n, f, p) /\ p \in 1..(n + 2)
  BY <1>1 DEF Holds, Own
<1>3. f.h = h /\ First(q, 1)
  BY DEF Mine, First
<1>4. p > 1 => s = Upto(p - 2)
  BY <1>1, <1>3 DEF Stores
<1>5. CASE p = 1
  <2>1. f.op = "begin"
    BY <1>2, <1>5 DEF IsNth
  <2> QED BY <1>2, <1>5, <2>1, UptoNext DEF Served
<1>6. CASE p \in 2..(n + 1)
  <2>1. f.op = "data" /\ f.no = p - 1
    BY <1>2, <1>6 DEF IsNth
  <2>2. st = Append(Upto(p - 2), p - 1)
    BY <1>4, <1>6, <2>1 DEF Served
  <2>3. p - 2 \in Nat /\ p - 2 + 1 = p - 1
    BY <1>6
  <2>4. st = Upto(p - 1)
    BY <2>2, <2>3, UptoNext
  <2> QED BY <1>2, <1>6, <2>4
<1>7. CASE p = n + 2
  <2>1. f.op = "finish"
    BY <1>2, <1>7 DEF IsNth
  <2>2. s = Upto(n)
    BY <1>4, <1>7
  <2> QED BY <1>2, <1>3, <1>7, <2>1, <2>2 DEF Served, Whole
<1> QED BY <1>2, <1>5, <1>6, <1>7

\* The first upload frame behind the head: of h, and the one after the head's.
LEMMA NextIs ==
  ASSUME NEW h, NEW n \in Nat, NEW m \in Nat, NEW q \in Seq(Frames), q # <<>>,
         Holds(h, n, m, q), Uploads(q[1])
  PROVE  /\ ~Mine(h, q[1]) => \A i \in 1..Len(Tail(q)) :
              First(Tail(q), i) /\ Mine(h, Tail(q)[i]) => Number(n, Tail(q)[i]) = 1
         /\ ~Mine(h, q[1]) /\ m > 0 => ~None(Tail(q))
         /\ Mine(h, q[1]) => \A i \in 1..Len(Tail(q)) :
              First(Tail(q), i) =>
                Mine(h, Tail(q)[i]) /\ Number(n, Tail(q)[i]) = Number(n, q[1]) + 1
         /\ Mine(h, q[1]) /\ None(Tail(q)) => Number(n, q[1]) = m
<1> DEFINE t == Tail(q)
           b == From(h, n, q[1])
           c == IF Mine(h, q[1]) THEN b + 1 ELSE 1
<1>1. /\ \A i \in 1..Len(t) : i + 1 \in 1..Len(q) /\ t[i] = q[i + 1]
      /\ \A j \in 2..Len(q) : j - 1 \in 1..Len(t) /\ t[j - 1] = q[j]
      /\ 1 \in 1..Len(q) /\ Len(q) \in Nat /\ Len(t) \in Nat
      /\ \A i \in 1..Len(q) : i = 1 \/ i \in 2..Len(q)
  BY Tailed
<1> HIDE DEF t
<1>2. Holds(h, n, m, t)
  BY HoldsTail DEF t
<1>3. \A i \in 1..Len(t) : Mine(h, t[i]) => Number(n, t[i]) \in 1..m
  BY <1>2 DEF Holds, Own
<1>4. Mine(h, q[1]) => Number(n, q[1]) \in 1..m
  BY <1>1 DEF Holds, Own
<1>5. ASSUME c \in 1..m
      PROVE  \E j \in 1..Len(t) : Mine(h, t[j]) /\ Number(n, t[j]) = c
  <2>1. c \in b..m /\ (Mine(h, q[1]) => Number(n, q[1]) # c)
    BY <1>4, <1>5 DEF From
  <2>2. PICK j \in 1..Len(q) : Mine(h, q[j]) /\ Number(n, q[j]) = c
    BY <1>1, <2>1 DEF Holds
  <2>3. j # 1
    BY <2>1, <2>2
  <2> QED BY <1>1, <2>2, <2>3
<1>6. ASSUME NEW i \in 1..Len(t), First(t, i), Mine(h, t[i]), c \in 1..m
      PROVE  Number(n, t[i]) <= c
  <2>1. PICK j \in 1..Len(t) : Mine(h, t[j]) /\ Number(n, t[j]) = c
    BY <1>5, <1>6
  <2>2. ~(j < i)
    BY <1>6, <2>1 DEF First, Mine
  <2>3. i < j => Number(n, t[i]) < Number(n, t[j])
    BY <1>2, <1>6, <2>1 DEF Holds, Follows, Mine
  <2> QED BY <1>3, <1>6, <2>1, <2>2, <2>3
<1>7. ASSUME NEW i \in 1..Len(t), Mine(h, q[1]), Uploads(t[i])
      PROVE  Mine(h, t[i]) /\ Number(n, q[1]) < Number(n, t[i])
  <2>1. i + 1 \in 1..Len(q) /\ 1 < i + 1 /\ t[i] = q[i + 1]
    BY <1>1
  <2> QED BY <1>1, <1>7, <2>1 DEF Holds, Follows
<1>8. ASSUME ~Mine(h, q[1]), NEW i \in 1..Len(t), First(t, i), Mine(h, t[i])
      PROVE  Number(n, t[i]) = 1
  BY <1>3, <1>6, <1>8
<1>9. ASSUME ~Mine(h, q[1]), m > 0
      PROVE  ~None(t)
  BY <1>5, <1>9 DEF None, Mine
<1>10. ASSUME Mine(h, q[1]), NEW i \in 1..Len(t), First(t, i)
       PROVE  Mine(h, t[i]) /\ Number(n, t[i]) = Number(n, q[1]) + 1
  <2>1. Mine(h, t[i]) /\ Number(n, q[1]) < Number(n, t[i])
    BY <1>7, <1>10 DEF First
  <2>2. Number(n, t[i]) \in 1..m /\ Number(n, q[1]) \in 1..m
    BY <1>3, <1>4, <1>10, <2>1
  <2>3. c = Number(n, q[1]) + 1 /\ c \in 1..m
    BY <1>10, <2>1, <2>2 DEF From
  <2>4. Number(n, t[i]) <= c
    BY <1>6, <1>10, <2>1, <2>3
  <2> QED BY <2>1, <2>2, <2>3, <2>4
<1>11. ASSUME Mine(h, q[1]), None(t)
       PROVE  Number(n, q[1]) = m
  <2>1. CASE Number(n, q[1]) < m
    <3>1. c \in 1..m
      BY <1>4, <1>11, <2>1 DEF From
    <3> QED BY <1>5, <1>11, <3>1 DEF None, Mine
  <2> QED BY <1>4, <1>11, <2>1
<1> QED BY <1>8, <1>9, <1>10, <1>11 DEF t

LEMMA StoresTail ==
  ASSUME NEW h, NEW n \in Nat \ {0}, NEW m \in 0..(n + 2), NEW q \in Seq(Frames), q # <<>>,
         NEW s, NEW x, NEW st, NEW xt,
         Holds(h, n, m, q), Stores(h, n, m, q, s, x), Served(q[1], s, x, st, xt)
  PROVE  Stores(h, n, m, Tail(q), st, xt)
<1> DEFINE t == Tail(q)
<1>1. /\ \A i \in 1..Len(t) : i + 1 \in 1..Len(q) /\ t[i] = q[i + 1]
      /\ \A j \in 2..Len(q) : j - 1 \in 1..Len(t) /\ t[j - 1] = q[j]
      /\ 1 \in 1..Len(q) /\ Len(q) \in Nat /\ Len(t) \in Nat
      /\ \A i \in 1..Len(q) : i = 1 \/ i \in 2..Len(q)
  BY Tailed
<1>2. \A i \in 1..Len(t) : Mine(h, t[i]) => Number(n, t[i]) \in 1..m
  BY HoldsTail DEF Holds, Own
<1> HIDE DEF t
<1>3. Uploads(q[1]) =>
         /\ ~Mine(h, q[1]) => \A i \in 1..Len(t) :
              First(t, i) /\ Mine(h, t[i]) => Number(n, t[i]) = 1
         /\ ~Mine(h, q[1]) /\ m > 0 => ~None(t)
         /\ Mine(h, q[1]) => \A i \in 1..Len(t) :
              First(t, i) => Mine(h, t[i]) /\ Number(n, t[i]) = Number(n, q[1]) + 1
         /\ Mine(h, q[1]) /\ None(t) => Number(n, q[1]) = m
  <2>1. m \in Nat
    OBVIOUS
  <2> QED BY <2>1, NextIs DEF t
<1>4. Mine(h, q[1]) => Uploads(q[1])
  BY DEF Mine
<1>5. CASE ~Uploads(q[1])
  <2>1. st = s /\ xt = x
    BY <1>5 DEF Served, Uploads
  <2>2. ASSUME NEW i \in 1..Len(t), First(t, i)
        PROVE  First(q, i + 1)
    <3>1. ASSUME NEW j \in 1..(i + 1 - 1) PROVE ~Uploads(q[j])
      <4>1. j = 1 \/ (j - 1 \in 1..(i - 1) /\ j \in 2..Len(q))
        BY <1>1
      <4> QED BY <1>1, <1>5, <2>2, <4>1 DEF First
    <3> QED BY <1>1, <2>2, <3>1 DEF First
  <2>3. None(t) => None(q)
    BY <1>1, <1>5 DEF None
  <2> QED BY <1>1, <2>1, <2>2, <2>3 DEF Stores, t
<1>6. CASE Uploads(q[1]) /\ ~Mine(h, q[1])
  <2>1. \A i \in 1..Len(t) : First(t, i) /\ Mine(h, t[i]) => Number(n, t[i]) = 1
    BY <1>6, <1>3
  <2>2. m > 0 => ~None(t)
    BY <1>6, <1>3
  <2>3. ~(None(t) /\ m \in 1..(n + 1)) /\ ~(None(t) /\ m > n + 1)
    BY <2>2
  <2> QED BY <2>1, <2>3 DEF Stores, t
<1>7. CASE Mine(h, q[1])
  <2> DEFINE p == Number(n, q[1])
  <2>1. /\ p \in 1..m
        /\ p < n + 2 => st = Upto(p - 1)
        /\ p = n + 2 => xt = Whole(h, n)
    BY <1>7, ServedIs
  <2>2. /\ \A i \in 1..Len(t) : First(t, i) => Mine(h, t[i]) /\ Number(n, t[i]) = p + 1
        /\ None(t) => p = m
    BY <1>7, <1>3, <1>4
  <2> HIDE DEF p
  <2>3. ASSUME NEW i \in 1..Len(t), First(t, i)
        PROVE  st = Upto(Number(n, t[i]) - 2)
    <3>1. Number(n, t[i]) = p + 1 /\ p + 1 <= m
      BY <1>2, <2>2, <2>3
    <3>2. p < n + 2 /\ p + 1 - 2 = p - 1
      BY <2>1, <3>1
    <3> QED BY <2>1, <3>1, <3>2
  <2>4. None(t) /\ m \in 1..(n + 1) => st = Upto(m - 1)
    BY <2>1, <2>2
  <2>5. None(t) /\ m > n + 1 => xt = Whole(h, n)
    BY <2>1, <2>2
  <2> QED BY <2>3, <2>4, <2>5 DEF Stores, t
<1> QED BY <1>5, <1>6, <1>7

LEMMA FirstAppended ==
  ASSUME NEW q \in Seq(Frames), NEW f \in Frames
  PROVE  LET t == Append(q, f) IN
         /\ \A i \in 1..Len(q) : First(t, i) => First(q, i)
         /\ First(t, Len(q) + 1) => None(q)
         /\ None(t) => None(q) /\ ~Uploads(f)
<1> DEFINE t == Append(q, f)
<1>1. /\ Len(t) = Len(q) + 1 /\ t[Len(q) + 1] = f /\ Len(q) \in Nat
      /\ \A i \in 1..Len(q) : i \in 1..Len(t) /\ t[i] = q[i]
      /\ Len(q) + 1 \in 1..Len(t)
  BY Appended
<1> HIDE DEF t
<1>2. ASSUME NEW i \in 1..Len(q), First(t, i)
      PROVE  First(q, i)
  <2>1. \A j \in 1..(i - 1) : j \in 1..Len(q)
    BY <1>1
  <2> QED BY <1>1, <1>2, <2>1 DEF First
<1>3. First(t, Len(q) + 1) => None(q)
  <2>1. Len(q) + 1 - 1 = Len(q)
    BY <1>1
  <2> QED BY <1>1, <2>1 DEF First, None
<1>4. None(t) => None(q) /\ ~Uploads(f)
  BY <1>1 DEF None
<1> QED BY <1>2, <1>3, <1>4 DEF t

LEMMA StoresOther ==
  ASSUME NEW h, NEW n \in Nat, NEW m \in Nat, NEW q \in Seq(Frames), NEW s, NEW x,
         Stores(h, n, m, q, s, x), NEW f \in Frames, ~Uploads(f)
  PROVE  Stores(h, n, m, Append(q, f), s, x)
<1> DEFINE t == Append(q, f)
<1>1. /\ Len(t) = Len(q) + 1 /\ t[Len(q) + 1] = f
      /\ \A i \in 1..Len(q) : t[i] = q[i]
      /\ \A i \in 1..Len(t) : i = Len(q) + 1 \/ i \in 1..Len(q)
  BY Appended
<1>2. /\ \A i \in 1..Len(q) : First(t, i) => First(q, i)
      /\ None(t) => None(q)
  BY FirstAppended
<1> HIDE DEF t
<1>3. ~First(t, Len(q) + 1)
  BY <1>1 DEF First
<1> QED BY <1>1, <1>2, <1>3 DEF Stores, t

LEMMA StoresNext ==
  ASSUME NEW h, NEW n \in Nat, NEW m \in 0..(n + 1), NEW q \in Seq(Frames), NEW s, NEW x,
         Stores(h, n, m, q, s, x), NEW f \in Frames, Mine(h, f), Number(n, f) = m + 1
  PROVE  Stores(h, n, m + 1, Append(q, f), s, x)
<1> DEFINE t == Append(q, f)
<1>1. /\ Len(t) = Len(q) + 1 /\ t[Len(q) + 1] = f
      /\ \A i \in 1..Len(q) : t[i] = q[i]
      /\ \A i \in 1..Len(t) : i = Len(q) + 1 \/ i \in 1..Len(q)
  BY Appended
<1>2. /\ \A i \in 1..Len(q) : First(t, i) => First(q, i)
      /\ First(t, Len(q) + 1) => None(q)
      /\ ~None(t)
  BY FirstAppended DEF Mine
<1> HIDE DEF t
<1>3. First(t, Len(q) + 1) /\ m + 1 > 1 => s = Upto(m + 1 - 2)
  <2>1. m + 1 - 2 = m - 1
    OBVIOUS
  <2> QED BY <1>2, <2>1 DEF Stores
<1> QED BY <1>1, <1>2, <1>3 DEF Stores, t

\* The controller takes a frame: the session hears its answer, or nothing.
LEMMA HeardTail ==
  ASSUME NEW h, NEW n \in Nat, NEW m \in Nat, NEW q \in Seq(Frames), q # <<>>,
         NEW a \in Seq(Reports), Heard(h, n, m, q, a)
  PROVE  Heard(h, n, m, Tail(q), a)
<1>1. \A i \in 1..Len(Tail(q)) : i + 1 \in 1..Len(q) /\ Tail(q)[i] = q[i + 1]
  BY Tailed
<1> QED BY <1>1 DEF Heard

LEMMA HeardAnswer ==
  ASSUME NEW h, NEW n \in Nat, NEW m \in Nat, NEW q \in Seq(Frames), q # <<>>,
         NEW a \in Seq(Reports), Heard(h, n, m, q, a), Holds(h, n, m, q),
         NEW r \in Reports, r.of = q[1]
  PROVE  Heard(h, n, m, Tail(q), Append(a, r))
<1> DEFINE t == Tail(q)
           b == Append(a, r)
<1>1. /\ \A i \in 1..Len(t) : i + 1 \in 1..Len(q) /\ t[i] = q[i + 1] /\ 1 < i + 1
      /\ 1 \in 1..Len(q)
  BY Tailed
<1>2. /\ Len(b) = Len(a) + 1 /\ b[Len(a) + 1] = r /\ Len(a) \in Nat
      /\ \A i \in 1..Len(a) : b[i] = a[i]
      /\ \A i \in 1..Len(b) : i = Len(a) + 1 \/ i \in 1..Len(a)
  BY Appended
<1>3. Heard(h, n, m, t, a)
  BY HeardTail
<1> HIDE DEF t, b
<1>4. ASSUME NEW i \in 1..Len(b)
      PROVE  /\ Own(h, n, m, b[i].of)
             /\ \A j \in 1..Len(t) : Follows(h, n, b[i].of, t[j])
             /\ \A j \in 1..Len(b) : i < j => Follows(h, n, b[i].of, b[j].of)
  <2>1. CASE i = Len(a) + 1
    <3>1. Own(h, n, m, b[i].of) /\ \A j \in 1..Len(t) : Follows(h, n, b[i].of, t[j])
      BY <1>1, <1>2, <2>1 DEF Holds
    <3> QED BY <1>2, <2>1, <3>1
  <2>2. CASE i \in 1..Len(a)
    <3>1. /\ Own(h, n, m, b[i].of)
          /\ \A j \in 1..Len(t) : Follows(h, n, b[i].of, t[j])
          /\ \A j \in 1..Len(a) : i < j => Follows(h, n, b[i].of, b[j].of)
      BY <1>2, <1>3, <2>2 DEF Heard
    <3>2. Follows(h, n, b[i].of, b[Len(a) + 1].of)
      BY <1>1, <1>2, <2>2 DEF Heard
    <3> QED BY <1>2, <3>1, <3>2
  <2> QED BY <1>2, <2>1, <2>2
<1> QED BY <1>4 DEF Heard, t, b

LEMMA HeardOther ==
  ASSUME NEW h, NEW n \in Nat, NEW m \in Nat, NEW q \in Seq(Frames),
         NEW a \in Seq(Reports), Heard(h, n, m, q, a), NEW f \in Frames, ~Uploads(f)
  PROVE  Heard(h, n, m, Append(q, f), a)
<1> DEFINE t == Append(q, f)
<1>1. /\ t[Len(q) + 1] = f
      /\ \A i \in 1..Len(q) : t[i] = q[i]
      /\ \A i \in 1..Len(t) : i = Len(q) + 1 \/ i \in 1..Len(q)
  BY Appended
<1> HIDE DEF t
<1>2. \A g \in Frames : Follows(h, n, g, f)
  BY DEF Follows
<1>3. \A i \in 1..Len(a) : a[i].of \in Frames
  BY ReportOf
<1> QED BY <1>1, <1>2, <1>3 DEF Heard, t

LEMMA HeardNext ==
  ASSUME NEW h, NEW n \in Nat, NEW m \in Nat, NEW q \in Seq(Frames),
         NEW a \in Seq(Reports), Heard(h, n, m, q, a), NEW f \in Frames,
         Mine(h, f), Number(n, f) = m + 1
  PROVE  Heard(h, n, m + 1, Append(q, f), a)
<1> DEFINE t == Append(q, f)
<1>1. /\ t[Len(q) + 1] = f
      /\ \A i \in 1..Len(q) : t[i] = q[i]
      /\ \A i \in 1..Len(t) : i = Len(q) + 1 \/ i \in 1..Len(q)
  BY Appended
<1> HIDE DEF t
<1>2. ASSUME NEW i \in 1..Len(a)
      PROVE  Own(h, n, m + 1, a[i].of) /\ Follows(h, n, a[i].of, f)
  <2>1. Own(h, n, m, a[i].of)
    BY DEF Heard
  <2> QED BY <2>1 DEF Own, Follows
<1> QED BY <1>1, <1>2 DEF Heard, t

LEMMA HeardTaken ==
  ASSUME NEW h, NEW n \in Nat, NEW m \in Nat, NEW q \in Seq(Frames),
         NEW a \in Seq(Reports), a # <<>>, Heard(h, n, m, q, a)
  PROVE  Heard(h, n, m, q, Tail(a))
<1> DEFINE b == Tail(a)
<1>1. \A i \in 1..Len(b) : i + 1 \in 1..Len(a) /\ b[i] = a[i + 1]
  BY Tailed
<1> HIDE DEF b
<1>2. \A i, j \in 1..Len(b) : i < j => i + 1 < j + 1
  OBVIOUS
<1> QED BY <1>1, <1>2 DEF Heard, b

LEMMA SlackIs ==
  ASSUME NEW n \in Nat
  PROVE  Slack(n) \in Nat \ {0} /\ Slack(n) <= n + 1 /\ Slack(n) <= Wrap - 2
BY DEF Slack

LEMMA AheadTail ==
  ASSUME NEW h, NEW n \in Nat, NEW k \in Nat, NEW q \in Seq(Frames), q # <<>>,
         NEW a \in Seq(Reports), Ahead(h, n, k, q, a)
  PROVE  Ahead(h, n, k, Tail(q), a)
<1> DEFINE t == Tail(q)
<1>1. \A i \in 1..Len(t) : i + 1 \in 1..Len(q) /\ t[i] = q[i + 1]
  BY Tailed
<1>2. Len(a) \in Nat /\ Slack(n) \in Nat
  BY SlackIs
<1> HIDE DEF t
<1>3. ASSUME NEW i \in 1..Len(t)
      PROVE  Near(h, n, k, Len(a) + i - 1, t[i])
  <2>1. Near(h, n, k, Len(a) + (i + 1) - 1, t[i])
    BY <1>1 DEF Ahead
  <2> QED BY <1>2, <2>1 DEF Near
<1> QED BY <1>3 DEF Ahead, t

LEMMA AheadAnswer ==
  ASSUME NEW h, NEW n \in Nat, NEW k \in Nat, NEW q \in Seq(Frames), q # <<>>,
         NEW a \in Seq(Reports), Ahead(h, n, k, q, a),
         NEW r \in Reports, r.of = q[1]
  PROVE  Ahead(h, n, k, Tail(q), Append(a, r))
<1> DEFINE t == Tail(q)
           b == Append(a, r)
<1>1. /\ \A i \in 1..Len(t) : i + 1 \in 1..Len(q) /\ t[i] = q[i + 1]
      /\ 1 \in 1..Len(q)
  BY Tailed
<1>2. /\ Len(b) = Len(a) + 1 /\ b[Len(a) + 1] = r /\ Len(a) \in Nat
      /\ \A i \in 1..Len(a) : b[i] = a[i]
      /\ \A i \in 1..Len(b) : i = Len(a) + 1 \/ i \in 1..Len(a)
  BY Appended
<1> HIDE DEF t, b
<1>3. ASSUME NEW i \in 1..Len(t)
      PROVE  Near(h, n, k, Len(b) + i - 1, t[i])
  <2>1. Near(h, n, k, Len(a) + (i + 1) - 1, t[i])
    BY <1>1 DEF Ahead
  <2>2. Len(a) + (i + 1) - 1 = Len(b) + i - 1
    BY <1>2
  <2> QED BY <2>1, <2>2
<1>4. ASSUME NEW i \in 1..Len(b)
      PROVE  Near(h, n, k, i - 1, b[i].of)
  <2>1. CASE i = Len(a) + 1
    <3>1. Near(h, n, k, Len(a) + 1 - 1, q[1])
      BY <1>1 DEF Ahead
    <3> QED BY <1>2, <2>1, <3>1
  <2>2. CASE i \in 1..Len(a)
    BY <1>2, <2>2 DEF Ahead
  <2> QED BY <1>2, <2>1, <2>2
<1> QED BY <1>3, <1>4 DEF Ahead, t, b

\* Another frame in the queue, of the session itself or none of an upload.
LEMMA AheadMore ==
  ASSUME NEW h, NEW n \in Nat, NEW k \in Nat, NEW q \in Seq(Frames),
         NEW a \in Seq(Reports), Ahead(h, n, k, q, a), NEW f \in Frames,
         Uploads(f) => Mine(h, f) /\ Number(n, f) = k
  PROVE  Ahead(h, n, k, Append(q, f), a)
<1> DEFINE t == Append(q, f)
<1>1. /\ t[Len(q) + 1] = f
      /\ \A i \in 1..Len(q) : t[i] = q[i]
      /\ \A i \in 1..Len(t) : i = Len(q) + 1 \/ i \in 1..Len(q)
  BY Appended
<1> HIDE DEF t
<1>2. Near(h, n, k, Len(a) + (Len(q) + 1) - 1, f)
  <2>1. Slack(n) \in Nat /\ k <= k + Slack(n)
    BY SlackIs
  <2> QED BY <2>1 DEF Near, Mine
<1> QED BY <1>1, <1>2 DEF Ahead, t

\* A report is taken, whether it carries the session on or not.
LEMMA AheadTaken ==
  ASSUME NEW h, NEW n \in Nat, NEW m \in Nat, NEW k \in Nat, NEW q \in Seq(Frames),
         NEW a \in Seq(Reports), a # <<>>, Ahead(h, n, k, q, a)
  PROVE  Ahead(h, n, k, q, Tail(a))
<1> DEFINE b == Tail(a)
<1>1. /\ \A i \in 1..Len(b) : i + 1 \in 1..Len(a) /\ b[i] = a[i + 1]
      /\ Len(b) = Len(a) - 1 /\ Len(a) \in Nat /\ Slack(n) \in Nat
  BY Tailed, Tails, SlackIs
<1> HIDE DEF b
<1>2. ASSUME NEW i \in 1..Len(b) PROVE Near(h, n, k, i - 1, b[i].of)
  <2>1. Near(h, n, k, i + 1 - 1, b[i].of)
    BY <1>1 DEF Ahead
  <2> QED BY <1>1, <2>1 DEF Near
<1>3. ASSUME NEW i \in 1..Len(q) PROVE Near(h, n, k, Len(b) + i - 1, q[i])
  <2>1. Near(h, n, k, Len(a) + i - 1, q[i])
    BY DEF Ahead
  <2> QED BY <1>1, <2>1 DEF Near
<1> QED BY <1>2, <1>3 DEF Ahead, b

LEMMA AheadAccepted ==
  ASSUME NEW h, NEW n \in Nat, NEW m \in Nat, NEW k \in Nat, NEW q \in Seq(Frames),
         NEW a \in Seq(Reports), a # <<>>, Ahead(h, n, k, q, a),
         Holds(h, n, m, q), Heard(h, n, m, q, a), Uploads(a[1].of)
  PROVE  Ahead(h, n, k + 1, q, Tail(a))
<1> DEFINE b == Tail(a)
           f == a[1].of
<1>1. /\ \A i \in 1..Len(b) : i + 1 \in 1..Len(a) /\ b[i] = a[i + 1] /\ 1 < i + 1
      /\ Len(b) = Len(a) - 1 /\ Len(a) \in Nat /\ Slack(n) \in Nat \ {0} /\ 1 \in 1..Len(a)
  BY Tailed, Tails, SlackIs
<1> HIDE DEF b
<1>2. /\ ~Mine(h, f) => k <= Slack(n)
      /\ Mine(h, f) => k <= Number(n, f) + Slack(n) /\ Number(n, f) \in 1..m
  <2>1. Near(h, n, k, 1 - 1, f) /\ Own(h, n, m, f)
    BY <1>1 DEF Ahead, Heard
  <2> QED BY <1>1, <2>1 DEF Near, Own
<1>3. ASSUME NEW d \in Nat, NEW g \in Frames, Near(h, n, k, d + 1, g), Own(h, n, m, g),
             Follows(h, n, f, g)
      PROVE  Near(h, n, k + 1, d, g)
  <2>1. CASE Uploads(g) /\ ~Mine(h, g)
    <3>1. k + (d + 1) <= Slack(n)
      BY <1>3, <2>1 DEF Near
    <3> QED BY <1>1, <2>1, <3>1 DEF Near
  <2>2. CASE Mine(h, g)
    <3>1. Number(n, g) \in 1..m
      BY <1>3, <2>2 DEF Own
    <3>2. Mine(h, f) => Number(n, f) < Number(n, g)
      BY <1>3, <2>2 DEF Follows, Mine
    <3>3. k + 1 <= Number(n, g) + Slack(n)
      BY <1>1, <1>2, <3>1, <3>2
    <3> QED BY <2>2, <3>3 DEF Near
  <2> QED BY <2>1, <2>2 DEF Near, Mine
<1>4. ASSUME NEW i \in 1..Len(b) PROVE Near(h, n, k + 1, i - 1, b[i].of)
  <2>1. Near(h, n, k, i + 1 - 1, b[i].of) /\ Own(h, n, m, b[i].of) /\ Follows(h, n, f, b[i].of)
    <3>1. /\ \A j \in 1..Len(a) : Near(h, n, k, j - 1, a[j].of) /\ Own(h, n, m, a[j].of)
          /\ \A j \in 1..Len(a) : 1 < j => Follows(h, n, f, a[j].of)
      BY <1>1 DEF Ahead, Heard
    <3>2. i + 1 \in 1..Len(a) /\ b[i] = a[i + 1] /\ 1 < i + 1
      BY <1>1
    <3> QED BY <3>1, <3>2
  <2>2. b[i].of \in Frames /\ i - 1 \in Nat /\ i + 1 - 1 = i - 1 + 1
    <3>1. i + 1 \in 1..Len(a) /\ b[i] = a[i + 1]
      BY <1>1
    <3> QED BY <3>1, ReportOf
  <2> QED BY <1>3, <2>1, <2>2
<1>5. ASSUME NEW i \in 1..Len(q) PROVE Near(h, n, k + 1, Len(b) + i - 1, q[i])
  <2>1. Near(h, n, k, Len(a) + i - 1, q[i]) /\ Own(h, n, m, q[i]) /\ Follows(h, n, f, q[i])
    BY <1>1 DEF Ahead, Heard, Holds
  <2>2. q[i] \in Frames /\ Len(b) + i - 1 \in Nat /\ Len(a) + i - 1 = Len(b) + i - 1 + 1
    BY <1>1
  <2> QED BY <1>3, <2>1, <2>2
<1> QED BY <1>4, <1>5 DEF Ahead, b

-----------------------------------------------------------------------------
(* The upload as the sessions and the controller go on.                    *)

LEMMA FrameNth ==
  ASSUME NEW h \in Hosts, host[h] \in Session, Kind(h) = "upload",
         NEW k \in 1..(host[h].size + 2), host[h].size > 0
  PROVE  LET f == Frame(h, k) IN
         f \in Frames /\ Mine(h, f) /\ Number(host[h].size, f) = k /\ IsNth(host[h].size, f, k)
<1> DEFINE n == host[h].size
<1>1. n \in Nat \ {0} /\ k \in Nat /\ k > 0 /\ k <= n + 2
  BY DEF Session
<1>2. PICK f \in Frames : f = Frame(h, k)
  BY <1>1, FrameIs
<1>3. /\ f.h = h
      /\ f.op = "begin" <=> k = 1
      /\ f.op = "data" <=> k \in 2..(n + 1)
      /\ f.op = "finish" <=> k > n + 1 /\ k > 1
      /\ f.op = "begin" => f.tag = 1
      /\ f.op = "data" => f.tag = k % Wrap /\ f.no = k - 1
      /\ f.op = "finish" => f.tag = (k + 1) % Wrap
  BY <1>1, <1>2, FrameIs
<1> HIDE DEF n
<1>4. f.op \in {"begin", "data", "finish"}
  BY <1>1, <1>3
<1>5. Mine(h, f)
  BY <1>3, <1>4 DEF Mine, Uploads
<1>6. Number(n, f) = k
  BY <1>1, <1>3, <1>4 DEF Number
<1>7. IsNth(n, f, k)
  BY <1>1, <1>3 DEF IsNth, n
<1> QED BY <1>2, <1>5, <1>6, <1>7 DEF n

LEMMA TracksOther ==
  ASSUME NEW h, NEW n \in Nat, NEW m \in Nat, NEW k \in Nat, NEW q \in Seq(Frames),
         NEW a \in Seq(Reports), NEW s, NEW x, Tracks(h, n, m, k, q, a, s, x),
         NEW f \in Frames, ~Uploads(f)
  PROVE  Tracks(h, n, m, k, Append(q, f), a, s, x)
BY HoldsOther, StoresOther, HeardOther, AheadMore DEF Tracks

LEMMA TracksNext ==
  ASSUME NEW h, NEW n \in Nat, NEW k \in 1..(n + 2), NEW q \in Seq(Frames),
         NEW a \in Seq(Reports), NEW s, NEW x, Tracks(h, n, k - 1, k, q, a, s, x),
         NEW f \in Frames, Mine(h, f), Number(n, f) = k, IsNth(n, f, k)
  PROVE  Tracks(h, n, k, k, Append(q, f), a, s, x)
<1>1. PICK m \in 0..(n + 1) : m = k - 1 /\ k = m + 1
  OBVIOUS
<1>2. m \in Nat /\ k \in Nat
  OBVIOUS
<1>3. Holds(h, n, m + 1, Append(q, f))
  BY <1>1, <1>2, HoldsNext DEF Tracks
<1>4. Stores(h, n, m + 1, Append(q, f), s, x)
  BY <1>1, <1>2, StoresNext DEF Tracks
<1>5. Heard(h, n, m + 1, Append(q, f), a)
  BY <1>1, <1>2, HeardNext DEF Tracks
<1>6. Ahead(h, n, k, Append(q, f), a)
  BY <1>2, AheadMore DEF Tracks
<1> QED BY <1>1, <1>3, <1>4, <1>5, <1>6 DEF Tracks

LEMMA TracksServed ==
  ASSUME NEW h, NEW n \in Nat \ {0}, NEW m \in 0..(n + 2), NEW k \in Nat,
         NEW q \in Seq(Frames), q # <<>>, NEW a \in Seq(Reports), NEW s, NEW x,
         Tracks(h, n, m, k, q, a, s, x), NEW st, NEW xt, Served(q[1], s, x, st, xt)
  PROVE  /\ Tracks(h, n, m, k, Tail(q), a, st, xt)
         /\ \A r \in Reports : r.of = q[1] => Tracks(h, n, m, k, Tail(q), Append(a, r), st, xt)
<1>1. m \in Nat /\ n \in Nat
  OBVIOUS
<1>2. Holds(h, n, m, Tail(q))
  BY <1>1, HoldsTail DEF Tracks
<1>3. Stores(h, n, m, Tail(q), st, xt)
  BY StoresTail DEF Tracks
<1>4. Heard(h, n, m, Tail(q), a) /\ Ahead(h, n, k, Tail(q), a)
  BY <1>1, HeardTail, AheadTail DEF Tracks
<1>5. ASSUME NEW r \in Reports, r.of = q[1]
      PROVE  Heard(h, n, m, Tail(q), Append(a, r)) /\ Ahead(h, n, k, Tail(q), Append(a, r))
  BY <1>1, <1>5, HeardAnswer, AheadAnswer DEF Tracks
<1> QED BY <1>2, <1>3, <1>4, <1>5 DEF Tracks

LEMMA TracksTaken ==
  ASSUME NEW h, NEW n \in Nat, NEW m \in Nat, NEW k \in Nat, NEW q \in Seq(Frames),
         NEW a \in Seq(Reports), a # <<>>, NEW s, NEW x, Tracks(h, n, m, k, q, a, s, x)
  PROVE  /\ Tracks(h, n, m, k, q, Tail(a), s, x)
         /\ Uploads(a[1].of) => Tracks(h, n, m, k + 1, q, Tail(a), s, x)
BY HeardTaken, AheadTaken, AheadAccepted DEF Tracks

\* Nothing the upload looks at has changed.
LEMMA TrackedStays ==
  ASSUME NEW h \in Hosts, host'[h] = host[h], inbox'[h] = inbox[h],
         UNCHANGED <<usb, stored, image>>, Uploading(h) => Tracked(h), Uploading(h)'
  PROVE  Tracked(h)'
BY DEF Uploading, Tracked, SentBy, At, Kind, IsOpen

LEMMA OpenTracked ==
  ASSUME SInv, SInv', UInv, ShortQueue', NEW g \in Hosts, NEW kind, NEW size, Open(g, kind, size),
         NEW h \in Hosts, Uploading(h)'
  PROVE  Tracked(h)'
<1>1. CASE h # g
  BY <1>1, TrackedStays DEF Open, UInv, SInv, Types
<1>2. CASE h = g
  <2>1. /\ host'[h].size = size /\ host'[h].k = 1 /\ host'[h].at = "send"
        /\ inbox' = inbox /\ usb' = usb /\ At(h, "new")
    BY <1>2 DEF Open, SInv, Types
  <2>2. inbox[h] = <<>>
    BY <2>1 DEF SInv, Lives, IsOpen, At
  <2>3. \A i \in 1..Len(usb) : usb[i].h # h
    BY <2>1 DEF SInv, Sent, At
  <2>4. Len(usb) <= Slack(size)
    BY <2>1 DEF ShortQueue, At
  <2>5. size \in Nat /\ Len(usb) \in Nat /\ Slack(size) \in Nat
    <3>1. host'[h] \in Session
      BY DEF SInv, Types
    <3>2. size \in Nat
      BY <2>1, <3>1 DEF Session
    <3> QED BY <3>2, SlackIs DEF SInv, Types
  <2>6. SentBy(h)' = 0
    BY <2>1 DEF SentBy, At
  <2>7. Holds(h, size, 0, usb)
    BY <2>3 DEF Holds, Own, Follows, From, Mine
  <2>8. Stores(h, size, 0, usb, stored', image')
    BY <2>3, <2>5 DEF Stores, Mine
  <2>9. Heard(h, size, 0, usb, <<>>)
    BY DEF Heard
  <2>10. Ahead(h, size, 1, usb, <<>>)
    <3>1. ASSUME NEW i \in 1..Len(usb) PROVE Near(h, size, 1, 0 + i - 1, usb[i])
      BY <2>3, <2>4, <2>5 DEF Near, Mine
    <3> QED BY <3>1 DEF Ahead
  <2>11. Tracks(h, size, 0, 1, usb, <<>>, stored', image')
    BY <2>7, <2>8, <2>9, <2>10 DEF Tracks
  <2> QED BY <2>1, <2>2, <2>6, <2>11 DEF Tracked
<1> QED BY <1>1, <1>2

LEMMA EndTracked ==
  ASSUME SInv, UInv, NEW g \in Hosts, NEW how \in Ended, End(g, how),
         UNCHANGED <<usb, stored, image>>, NEW h \in Hosts, Uploading(h)'
  PROVE  Tracked(h)'
<1>1. h # g
  BY DEF End, SInv, Types, Session, Uploading, IsOpen, Ended
<1> QED BY <1>1, TrackedStays DEF End, UInv, SInv, Types

LEMMA UploadSize ==
  ASSUME SInv, NEW h \in Hosts, Uploading(h)
  PROVE  /\ host[h] \in Session /\ host[h].size \in Nat \ {0}
         /\ host[h].k \in 1..(host[h].size + 2) /\ SentBy(h) \in 0..(host[h].size + 2)
         /\ inbox[h] \in Seq(Reports) /\ usb \in Seq(Frames)
<1>1. /\ host[h] \in Session /\ host[h].size \in Nat \ {0} /\ Lives(h) /\ ~At(h, "new")
      /\ inbox[h] \in Seq(Reports) /\ usb \in Seq(Frames)
  BY SessionIs DEF SInv, Types, Uploading, IsOpen, At
<1>2. host[h].k \in 1..(host[h].size + 2)
  BY <1>1 DEF Lives, FrameCount, Uploading, Kind
<1>3. SentBy(h) \in 0..(host[h].size + 2)
  BY <1>1, <1>2 DEF SentBy
<1> QED BY <1>1, <1>2, <1>3

LEMMA SendTracked ==
  ASSUME SInv, UInv, NEW g \in Hosts, Send(g), NEW h \in Hosts, Uploading(h)'
  PROVE  Tracked(h)'
<1>1. /\ host[g] \in Session /\ host[g].k \in Nat /\ host[g].k > 0
      /\ host' = [host EXCEPT ![g].at = "wait"] /\ At(g, "send") /\ IsOpen(g)
      /\ UNCHANGED <<inbox, stored, image>>
  BY SessionIs DEF Send, IsOpen, At
<1>2. /\ host'[h].size = host[h].size /\ host'[h].k = host[h].k /\ Kind(h)' = Kind(h)
      /\ IsOpen(h)
      /\ h # g => host'[h] = host[h]
      /\ h = g => host'[h].at = "wait"
  BY <1>1 DEF SInv, Types, Session, Kind, IsOpen, At, Uploading
<1>3. Uploading(h)
  BY <1>2 DEF Uploading
<1>4. /\ host[h] \in Session /\ host[h].size \in Nat \ {0}
      /\ host[h].k \in 1..(host[h].size + 2) /\ SentBy(h) \in 0..(host[h].size + 2)
      /\ inbox[h] \in Seq(Reports) /\ usb \in Seq(Frames)
  BY <1>3, UploadSize
<1>5. Tracks(h, host[h].size, SentBy(h), host[h].k, usb, inbox[h], stored, image)
  BY <1>3 DEF UInv, Tracked
<1>6. PICK f \in Frames : f = Frame(g, host[g].k) /\ usb' = Append(usb, f)
  BY <1>1, FrameIs DEF Send
<1>7. CASE h # g
  <2>1. SentBy(h)' = SentBy(h)
    BY <1>2, <1>7 DEF SentBy, At
  <2>2. Kind(g) # "upload"
    BY <1>1, <1>3, <1>7 DEF UInv, OneJob, Uploading, Jobs
  <2>3. ~Uploads(f)
    BY <1>1, <1>6, <2>2, FrameIs DEF Uploads
  <2>4. Tracks(h, host[h].size, SentBy(h), host[h].k, usb', inbox[h], stored, image)
    BY <1>4, <1>5, <1>6, <2>3, TracksOther
  <2> QED BY <1>1, <1>2, <2>1, <2>4 DEF Tracked
<1>8. CASE h = g
  <2>1. SentBy(h)' = host[h].k /\ SentBy(h) = host[h].k - 1
    BY <1>1, <1>2, <1>8 DEF SentBy, At
  <2>2. Mine(h, f) /\ Number(host[h].size, f) = host[h].k /\ IsNth(host[h].size, f, host[h].k)
    BY <1>3, <1>4, <1>6, <1>8, FrameNth DEF Uploading
  <2>3. Tracks(h, host[h].size, host[h].k, host[h].k, usb', inbox[h], stored, image)
    BY <1>4, <1>5, <1>6, <2>1, <2>2, TracksNext
  <2> QED BY <1>1, <1>2, <2>1, <2>3 DEF Tracked
<1> QED BY <1>7, <1>8

\* An upload takes nothing but acknowledgements, with its frame's number.
LEMMA AcceptsAck ==
  ASSUME SInv, NEW h \in Hosts, Uploading(h), inbox[h] # <<>>, Accepts(h, Head(inbox[h]))
  PROVE  /\ Uploads(inbox[h][1].of)
         /\ inbox[h][1].of.tag = Frame(h, host[h].k).tag
<1>1. /\ host[h] \in Session /\ host[h].size \in Nat \ {0}
      /\ host[h].k \in 1..(host[h].size + 2) /\ inbox[h] \in Seq(Reports)
  BY UploadSize
<1>2. PICK f \in Frames : f = Frame(h, host[h].k)
  BY <1>1, FrameNth DEF Uploading
<1>3. Uploads(f)
  BY <1>1, <1>2, FrameNth DEF Uploading, Mine
<1>4. PICK r \in Reports : r = Head(inbox[h]) /\ r = inbox[h][1] /\ 1 \in 1..Len(inbox[h])
  BY <1>1
<1>5. r.op = Answer(f, TRUE).op /\ r.tag = f.tag
  BY <1>2, <1>3, <1>4 DEF Accepts, Matches, Uploads
<1>6. r.op = "ack"
  BY <1>3, <1>5, AnswerIs
<1>7. r.of \in Frames /\ r.good \in BOOLEAN /\ r = Answer(r.of, r.good)
  <2>1. Echoes(h)
    BY DEF SInv
  <2>2. r = Answer(r.of, r.good)
    BY <1>4, <2>1 DEF Echoes
  <2>3. r.of \in Frames /\ r.good \in BOOLEAN
    BY DEF Reports
  <2> QED BY <2>2, <2>3
<1>8. Uploads(r.of) /\ r.tag = r.of.tag
  BY <1>6, <1>7, AnswerIs
<1> QED BY <1>2, <1>4, <1>5, <1>8

LEMMA TakeTracked ==
  ASSUME SInv, UInv, NEW g \in Hosts, Take(g), NEW h \in Hosts, Uploading(h)'
  PROVE  Tracked(h)'
<1> DEFINE r == Head(inbox[g])
<1>1. /\ At(g, "wait") /\ IsOpen(g) /\ inbox[g] # <<>> /\ UNCHANGED <<usb, stored, image>>
      /\ host \in [Hosts -> Session] /\ inbox \in [Hosts -> Seq(Reports)]
  BY DEF Take, IsOpen, At, SInv, Types
<1>2. CASE \E how \in Ended : End(g, how)
  BY <1>1, <1>2, EndTracked
<1>3. CASE h # g
  <2>1. host'[h] = host[h] /\ inbox'[h] = inbox[h]
    BY <1>1, <1>3 DEF Take, NextFrame, End, Skip
  <2> QED BY <1>1, <2>1, TrackedStays DEF UInv
<1>4. CASE h = g /\ Skip(g)
  <2>1. host'[h] = host[h] /\ inbox'[h] = Tail(inbox[h])
    BY <1>1, <1>4 DEF Skip
  <2>2. Uploading(h)
    BY <2>1 DEF Uploading, Kind, IsOpen
  <2>3. Tracks(h, host[h].size, SentBy(h), host[h].k, usb, inbox[h], stored, image)
    BY <2>2 DEF UInv, Tracked
  <2>4. /\ host[h].size \in Nat /\ SentBy(h) \in Nat /\ host[h].k \in Nat
        /\ inbox[h] \in Seq(Reports) /\ usb \in Seq(Frames) /\ inbox[h] # <<>>
    BY <1>1, <1>4, <2>2, UploadSize
  <2>5. Tracks(h, host[h].size, SentBy(h), host[h].k, usb, Tail(inbox[h]), stored, image)
    BY <2>3, <2>4, TracksTaken
  <2>6. SentBy(h)' = SentBy(h)
    BY <2>1 DEF SentBy, At
  <2> QED BY <1>1, <2>1, <2>5, <2>6 DEF Tracked
<1>5. CASE /\ h = g /\ Accepts(g, r) /\ host[g].k < FrameCount(host[g]) /\ NextFrame(g)
  <2>1. /\ host'[h].size = host[h].size /\ host'[h].kind = host[h].kind
        /\ host'[h].k = host[h].k + 1 /\ host'[h].at = "send"
        /\ inbox'[h] = Tail(inbox[h])
    BY <1>1, <1>5 DEF NextFrame, Session
  <2>2. Uploading(h)
    BY <1>1, <1>5, <2>1 DEF Uploading, Kind
  <2>3. Tracks(h, host[h].size, SentBy(h), host[h].k, usb, inbox[h], stored, image)
    BY <2>2 DEF UInv, Tracked
  <2>4. /\ host[h].size \in Nat \ {0} /\ SentBy(h) \in Nat /\ host[h].k \in Nat
        /\ inbox[h] \in Seq(Reports) /\ usb \in Seq(Frames) /\ inbox[h] # <<>>
        /\ host[h] \in Session /\ host[h].k \in 1..(host[h].size + 2)
    BY <1>1, <1>5, <2>2, UploadSize
  <2>5. Uploads(inbox[h][1].of)
    BY <1>1, <1>5, <2>2, AcceptsAck
  <2>6. Tracks(h, host[h].size, SentBy(h), host[h].k + 1, usb, Tail(inbox[h]), stored, image)
    BY <2>3, <2>4, <2>5, TracksTaken
  <2>7. SentBy(h)' = SentBy(h)
    BY <1>1, <1>5, <2>1, <2>4 DEF SentBy, At
  <2> QED BY <1>1, <2>1, <2>6, <2>7 DEF Tracked
<1> QED BY <1>1, <1>2, <1>3, <1>4, <1>5 DEF Take, NextFrame, Ended

LEMMA ServeTracked ==
  ASSUME SInv, UInv, Serve, NEW h \in Hosts, Uploading(h)'
  PROVE  Tracked(h)'
<1>1. host' = host /\ usb' = Tail(usb) /\ usb # <<>> /\ inbox \in [Hosts -> Seq(Reports)]
  BY DEF Serve, SInv, Types
<1>2. Uploading(h) /\ SentBy(h)' = SentBy(h)
  BY <1>1 DEF Uploading, Kind, IsOpen, SentBy, At
<1>3. /\ host[h].size \in Nat \ {0} /\ SentBy(h) \in 0..(host[h].size + 2)
      /\ host[h].k \in Nat /\ inbox[h] \in Seq(Reports) /\ usb \in Seq(Frames)
  BY <1>2, UploadSize
<1>4. Tracks(h, host[h].size, SentBy(h), host[h].k, usb, inbox[h], stored, image)
  BY <1>2 DEF UInv, Tracked
<1>5. PICK f \in Frames : f = usb[1] /\ f = Head(usb)
  BY <1>1, <1>3
<1>6. Served(f, stored, image, stored', image')
  <2>1. Effect(f)
    BY <1>5 DEF Serve
  <2>2. f.op \in Ops
    BY DEF Frames
  <2> QED BY <2>1, <2>2 DEF Effect, Served, Ops
<1>7. /\ Tracks(h, host[h].size, SentBy(h), host[h].k, Tail(usb), inbox[h], stored', image')
      /\ \A r \in Reports : r.of = f =>
           Tracks(h, host[h].size, SentBy(h), host[h].k, Tail(usb), Append(inbox[h], r),
                  stored', image')
  <2>1. Served(usb[1], stored, image, stored', image') /\ usb # <<>>
    BY <1>1, <1>5, <1>6
  <2>2. /\ Tracks(h, host[h].size, SentBy(h), host[h].k, Tail(usb), inbox[h], stored', image')
        /\ \A r \in Reports : r.of = usb[1] =>
             Tracks(h, host[h].size, SentBy(h), host[h].k, Tail(usb), Append(inbox[h], r),
                    stored', image')
    BY <1>3, <1>4, <2>1, TracksServed
  <2> QED BY <1>5, <2>2
<1>8. \/ inbox'[h] = inbox[h]
      \/ \E good \in BOOLEAN : inbox'[h] = Append(inbox[h], Answer(f, good))
  BY <1>1, <1>5 DEF Serve, Report
<1>9. \A good \in BOOLEAN : Answer(f, good) \in Reports /\ Answer(f, good).of = f
  BY AnswerIs
<1>10. Tracks(h, host[h].size, SentBy(h), host[h].k, Tail(usb), inbox'[h], stored', image')
  BY <1>7, <1>8, <1>9
<1> QED BY <1>1, <1>2, <1>10 DEF Tracked

\* At most one upload or motor stop is open.
LEMMA OneJobKept ==
  ASSUME SInv, OneJob, [Next]_vars
  PROVE  OneJob'
<1>1. ASSUME NEW g \in Hosts, NEW kind, NEW size, Open(g, kind, size)
      PROVE  OneJob'
  <2>1. /\ host'[g].kind = kind /\ At(g, "new")
        /\ \A h \in Hosts \ {g} : host'[h] = host[h]
    BY <1>1 DEF Open, SInv, Types
  <2>2. kind \in Jobs => \A h \in Hosts : ~(Kind(h) \in Jobs /\ IsOpen(h))
    BY <1>1 DEF Open, JobRuns, IsOpen, Ended
  <2> QED BY <2>1, <2>2 DEF OneJob, Kind, IsOpen
<1>2. ASSUME \A h \in Hosts : Kind(h)' = Kind(h) /\ (IsOpen(h)' => IsOpen(h))
      PROVE  OneJob'
  BY <1>2 DEF OneJob
<1>3. ASSUME NEW g \in Hosts, NothingToFinish(g) \/ Send(g) \/ Take(g) \/ Timeout(g)
      PROVE  \A h \in Hosts : Kind(h)' = Kind(h) /\ (IsOpen(h)' => IsOpen(h))
  <2>1. IsOpen(g) /\ host \in [Hosts -> Session]
    BY <1>3 DEF NothingToFinish, Send, Take, Timeout, IsOpen, At, SInv, Types
  <2>2. /\ \A h \in Hosts \ {g} : host'[h] = host[h]
        /\ host'[g].kind = host[g].kind
    <3>1. \/ host' = host
          \/ host' = [host EXCEPT ![g].at = "failed"]
          \/ host' = [host EXCEPT ![g].at = "done"]
          \/ host' = [host EXCEPT ![g].at = "wait"]
          \/ host' = [host EXCEPT ![g].at = "send", ![g].k = @ + 1]
      BY <1>3 DEF NothingToFinish, Send, Take, Timeout, NextFrame, End, Skip
    <3> QED BY <2>1, <3>1 DEF Session
  <2> QED BY <2>1, <2>2 DEF Kind, IsOpen
<1>4. CASE UNCHANGED vars \/ Serve
  BY <1>2, <1>4 DEF vars, Serve, Kind, IsOpen
<1> QED BY <1>1, <1>2, <1>3, <1>4 DEF Next

LEMMA UStep ==
  ASSUME SInv, SInv', UInv, ShortQueue', [Next]_vars
  PROVE  UInv'
<1>1. ASSUME NEW h \in Hosts, Uploading(h)'
      PROVE  Tracked(h)'
  <2>1. ASSUME NEW g \in Hosts, NothingToFinish(g) PROVE Tracked(h)'
    BY <1>1, <2>1, EndTracked DEF NothingToFinish, Ended
  <2>2. ASSUME NEW g \in Hosts, Timeout(g) PROVE Tracked(h)'
    BY <1>1, <2>2, EndTracked DEF Timeout, Ended
  <2>3. CASE UNCHANGED vars
    BY <1>1, <2>3, TrackedStays DEF vars, UInv
  <2> QED BY <1>1, <2>1, <2>2, <2>3, OpenTracked, SendTracked, TakeTracked, ServeTracked DEF Next
<1>2. OneJob'
  BY OneJobKept DEF UInv
<1> QED BY <1>1, <1>2 DEF UInv

-----------------------------------------------------------------------------
(* What a reported upload is worth.                                        *)

\* The 8-bit sequence number of frame a.
Seq8(a) == a % Wrap

LEMMA Divided ==
  ASSUME NEW a \in Nat
  PROVE  a = Wrap * (a \div Wrap) + Seq8(a)
BY DEF Seq8

\* Numbers less than a whole wrap apart have different sequence numbers.
LEMMA Seq8Apart ==
  ASSUME NEW a \in Nat, NEW b \in Nat, a < b, b - a < Wrap
  PROVE  Seq8(a) # Seq8(b)
<1>1. PICK c \in Nat : c = a \div Wrap
  BY Mod
<1>2. PICK d \in Nat : d = b \div Wrap
  BY Mod
<1>3. a = Wrap * c + Seq8(a) /\ b = Wrap * d + Seq8(b)
  BY <1>1, <1>2, Divided
<1>4. Seq8(a) \in 0..(Wrap - 1) /\ Seq8(b) \in 0..(Wrap - 1)
  BY Mod DEF Seq8
<1>5. CASE Seq8(a) = Seq8(b)
  <2>1. CASE d <= c
    <3>1. Wrap * d <= Wrap * c
      BY <2>1
    <3> QED BY <1>3, <1>4, <1>5, <3>1
  <2>2. CASE d >= c + 1
    <3>1. Wrap * d >= Wrap * (c + 1) /\ Wrap * (c + 1) = Wrap * c + Wrap
      BY <2>2
    <3> QED BY <1>3, <1>4, <1>5, <3>1
  <2> QED BY <2>1, <2>2
<1> QED BY <1>5

\* Of a session's own frames only the last has the last one's sequence number
\* and is near enough.
LEMMA LastIs ==
  ASSUME NEW n \in Nat \ {0}, NEW f, NEW g, NEW p \in 1..(n + 2), IsNth(n, f, n + 2),
         IsNth(n, g, p), n + 2 <= p + Slack(n), g.tag = f.tag
  PROVE  p = n + 2
<1>1. f.tag = Seq8(n + 3) /\ Slack(n) \in Nat /\ Slack(n) <= Wrap - 2
  <2>1. n + 2 \in 1..(n + 2) /\ n + 2 + 1 = n + 3
    OBVIOUS
  <2>2. f.tag = (n + 2 + 1) % Wrap
    BY <2>1 DEF IsNth
  <2> QED BY <2>1, <2>2, SlackIs DEF Seq8
<1>2. CASE p = 1
  <2>1. g.tag = Seq8(1)
    BY <1>2 DEF IsNth, Seq8
  <2>2. 1 \in Nat /\ n + 3 \in Nat /\ 1 < n + 3 /\ n + 3 - 1 < Wrap
    BY <1>1, <1>2
  <2>3. Seq8(1) # Seq8(n + 3)
    BY <2>2, Seq8Apart
  <2> QED BY <1>1, <2>1, <2>3
<1>3. CASE p \in 2..(n + 1)
  <2>1. g.tag = Seq8(p)
    BY <1>3 DEF IsNth, Seq8
  <2>2. p < n + 3 /\ n + 3 - p < Wrap /\ p \in Nat /\ n + 3 \in Nat
    BY <1>1, <1>3
  <2>3. Seq8(p) # Seq8(n + 3)
    BY <2>2, Seq8Apart
  <2> QED BY <1>1, <2>1, <2>3
<1> QED BY <1>2, <1>3

LEMMA Honest ==
  ASSUME SInv, UInv, [Next]_vars, NEW h \in Hosts, Kind(h) = "upload", ~At(h, "done"),
         host'[h].at = "done"
  PROVE  image' = Whole(h, host[h].size)
<1> DEFINE n == host[h].size
<1>1. /\ host \in [Hosts -> Session] /\ inbox \in [Hosts -> Seq(Reports)]
      /\ usb \in Seq(Frames) /\ Lives(h)
  BY DEF SInv, Types
<1>2. /\ Take(h) /\ Accepts(h, Head(inbox[h])) /\ host[h].k >= FrameCount(host[h])
      /\ image' = image
  <2>1. ASSUME NEW g \in Hosts, NEW kind, NEW size, Open(g, kind, size)
        PROVE  FALSE
    BY <1>1, <2>1 DEF Open, At
  <2>2. ASSUME NEW g \in Hosts, NothingToFinish(g) \/ Send(g) \/ Timeout(g)
        PROVE  FALSE
    <3>1. \E how \in {"failed", "wait"} : host' = [host EXCEPT ![g].at = how]
      BY <2>2 DEF NothingToFinish, Send, Timeout, End
    <3>2. PICK how \in {"failed", "wait"} : host' = [host EXCEPT ![g].at = how]
      BY <3>1
    <3>3. host'[h].at \in {host[h].at, "failed", "wait"}
      BY <1>1, <3>2 DEF Session
    <3> QED BY <3>3 DEF At
  <2>3. ~Serve /\ ~UNCHANGED vars
    BY DEF Serve, vars, At
  <2>4. PICK g \in Hosts : Take(g)
    BY <2>1, <2>2, <2>3 DEF Next
  <2>5. g = h
    BY <1>1, <2>4 DEF Take, NextFrame, End, Skip, At
  <2>6. ~End(h, "failed") /\ ~Skip(h)
    BY <1>1 DEF End, Skip, At, Session
  <2>7. Accepts(h, Head(inbox[h])) /\ NextFrame(h)
    BY <2>4, <2>5, <2>6 DEF Take
  <2>8. ~(host[h].k < FrameCount(host[h]))
    BY <1>1, <2>7 DEF NextFrame, Session
  <2>9. host[h].k \in Nat /\ FrameCount(host[h]) \in Nat
    BY SessionIs
  <2> QED BY <2>4, <2>5, <2>7, <2>8, <2>9 DEF Take
<1>3. At(h, "wait") /\ inbox[h] # <<>>
  BY <1>2 DEF Take
<1>4. FrameCount(host[h]) = n + 2 /\ n \in Nat
  BY SessionIs DEF FrameCount, Kind
<1>5. Uploading(h)
  <2>1. n # 0
    BY <1>1, <1>2, <1>3, <1>4 DEF Lives
  <2> QED BY <1>3, <1>4, <2>1 DEF Uploading, IsOpen, At
<1>6. host[h].k = n + 2 /\ SentBy(h) = n + 2 /\ n \in Nat \ {0} /\ host[h] \in Session
  <2>1. /\ host[h] \in Session /\ n \in Nat \ {0} /\ host[h].k \in 1..(n + 2)
    BY <1>5, UploadSize
  <2>2. host[h].k = n + 2
    BY <1>2, <1>4, <2>1
  <2>3. SentBy(h) = host[h].k
    BY <1>3 DEF SentBy, At
  <2> QED BY <2>1, <2>2, <2>3
<1>7. Tracks(h, n, n + 2, n + 2, usb, inbox[h], stored, image)
  BY <1>5, <1>6 DEF UInv, Tracked
<1>8. PICK g : g = inbox[h][1].of
  OBVIOUS
<1>9. Uploads(g) /\ g.tag = Frame(h, n + 2).tag
  BY <1>2, <1>3, <1>5, <1>6, <1>8, AcceptsAck
<1> HIDE DEF n
<1>10. 1 \in 1..Len(inbox[h])
  BY <1>1, <1>3
<1>11. Near(h, n, n + 2, 0, g) /\ Own(h, n, n + 2, g)
       /\ \A j \in 1..Len(usb) : Follows(h, n, g, usb[j])
  <2>1. Near(h, n, n + 2, 1 - 1, g)
    BY <1>7, <1>8, <1>10 DEF Tracks, Ahead
  <2>2. Own(h, n, n + 2, g) /\ \A j \in 1..Len(usb) : Follows(h, n, g, usb[j])
    BY <1>7, <1>8, <1>10 DEF Tracks, Heard
  <2> QED BY <2>1, <2>2
<1>12. Mine(h, g)
  BY <1>6, <1>9, <1>11, SlackIs DEF Near
<1>13. Number(n, g) = n + 2
  <2>1. /\ Number(n, g) \in 1..(n + 2) /\ IsNth(n, g, Number(n, g))
        /\ n + 2 <= Number(n, g) + Slack(n)
    BY <1>11, <1>12 DEF Own, Near
  <2>2. IsNth(n, Frame(h, n + 2), n + 2)
    BY <1>5, <1>6, FrameNth DEF Uploading, n
  <2> QED BY <1>6, <1>9, <2>1, <2>2, LastIs
<1>14. None(usb)
  <2>1. ASSUME NEW j \in 1..Len(usb), Uploads(usb[j]) PROVE FALSE
    <3>1. Mine(h, usb[j]) /\ n + 2 < Number(n, usb[j])
      BY <1>11, <1>12, <1>13, <2>1 DEF Follows
    <3>2. Number(n, usb[j]) \in 1..(n + 2)
      BY <1>7, <3>1 DEF Tracks, Holds, Own
    <3> QED BY <1>6, <3>1, <3>2
  <2> QED BY <2>1 DEF None
<1> QED BY <1>2, <1>6, <1>7, <1>14 DEF Tracks, Stores, n

\* An upload that reports success has put exactly its packets into the image it
\* finalized, if the controller is never far behind when an upload begins.
THEOREM UploadIsHonest == Spec /\ []ShortQueue => UploadHonest
<1>1. Init => UInv
  BY DEF Init, UInv, OneJob, Uploading, IsOpen, New
<1>2. SInv /\ SInv' /\ ShortQueue' /\ UInv /\ [Next]_vars => UInv'
  BY UStep
<1>3. SInv /\ UInv /\ [Next]_vars =>
        [\A h \in Hosts : Kind(h) = "upload" /\ ~At(h, "done") /\ host'[h].at = "done" =>
           image' = [by |-> h, packets |-> [i \in 1..host[h].size |-> i]]]_vars
  BY Honest DEF Whole, Upto
<1> QED BY <1>1, <1>2, <1>3, SessionsKept, PTL DEF Spec, UploadHonest

-----------------------------------------------------------------------------
(* Few sessions: the controller is never far behind.                       *)

\* Not more sessions than the smallest image has frames, nor than a wrap less one.
Few ==
  /\ IsFiniteSet(Hosts) /\ Cardinality(Hosts) < Wrap
  /\ \A n \in Sizes : n > 0 => Cardinality(Hosts) <= n + 2

\* Sessions whose last frame may be under way, and what may be of it.
Busy == {g \in Hosts : ~At(g, "new") /\ ~At(g, "send")}
QInv ==
  /\ Len(usb) <= Cardinality(Busy)
  /\ \A h \in Hosts : Kind(h) \in Jobs /\ IsOpen(h) =>
       Len(usb) + Len(inbox[h]) <= Cardinality(Busy)

LEMMA BusyIs ==
  ASSUME Few
  PROVE  IsFiniteSet(Busy) /\ Cardinality(Busy) \in Nat /\ Cardinality(Hosts) \in Nat
<1>1. Busy \subseteq Hosts
  BY DEF Busy
<1> QED BY <1>1, FS_Subset, FS_CardinalityType DEF Few

LEMMA BusyGains ==
  ASSUME SInv, Few, NEW g \in Hosts, NEW s, host' = [host EXCEPT ![g] = s],
         s.at \notin {"new", "send"}
  PROVE  /\ Cardinality(Busy) \in Nat /\ Cardinality(Busy)' \in Nat
         /\ Cardinality(Busy)' >= Cardinality(Busy)
         /\ At(g, "send") => Cardinality(Busy)' = Cardinality(Busy) + 1
<1>1. Busy' = Busy \cup {g}
  BY DEF SInv, Types, Busy, At
<1>2. At(g, "send") => g \notin Busy
  BY DEF Busy
<1>3. IsFiniteSet(Busy) /\ Cardinality(Busy) \in Nat
  BY BusyIs
<1>4. Cardinality(Busy \cup {g}) = IF g \in Busy THEN Cardinality(Busy) ELSE Cardinality(Busy) + 1
  BY <1>3, FS_AddElement
<1> QED BY <1>1, <1>2, <1>3, <1>4

LEMMA BusyLoses ==
  ASSUME SInv, Few, NEW g \in Hosts, NEW s, host' = [host EXCEPT ![g] = s],
         s.at = "send", At(g, "wait")
  PROVE  /\ Cardinality(Busy) \in Nat /\ Cardinality(Busy)' = Cardinality(Busy) - 1
<1>1. Busy' = Busy \ {g} /\ g \in Busy
  BY DEF SInv, Types, Busy, At
<1>2. IsFiniteSet(Busy) /\ Cardinality(Busy) \in Nat
  BY BusyIs
<1>3. Cardinality(Busy \ {g}) = Cardinality(Busy) - 1
  BY <1>1, <1>2, FS_RemoveElement
<1> QED BY <1>1, <1>2, <1>3

LEMMA QTypes ==
  ASSUME SInv
  PROVE  /\ host \in [Hosts -> Session] /\ inbox \in [Hosts -> Seq(Reports)]
         /\ usb \in Seq(Frames) /\ Len(usb) \in Nat
         /\ \A h \in Hosts : inbox[h] \in Seq(Reports) /\ Len(inbox[h]) \in Nat
BY DEF SInv, Types

LEMMA QEnd ==
  ASSUME SInv, Few, QInv, NEW g \in Hosts, IsOpen(g), NEW how \in Ended, End(g, how), UNCHANGED usb
  PROVE  QInv'
<1>1. /\ host' = [host EXCEPT ![g] = [host[g] EXCEPT !.at = how]]
      /\ [host[g] EXCEPT !.at = how].at = how /\ how \notin {"new", "send", "wait"}
  BY QTypes DEF End, Ended, Session
<1>2. Cardinality(Busy)' >= Cardinality(Busy) /\ Cardinality(Busy) \in Nat
      /\ Cardinality(Busy)' \in Nat
  BY <1>1, BusyGains
<1>3. \A h \in Hosts : IsOpen(h)' => h # g /\ IsOpen(h) /\ Kind(h)' = Kind(h) /\ inbox'[h] = inbox[h]
  BY <1>1, QTypes DEF IsOpen, Kind, End
<1> QED BY <1>2, <1>3, QTypes DEF QInv

LEMMA QStep ==
  ASSUME SInv, SInv', Few, OneJob, QInv, [Next]_vars
  PROVE  QInv'
<1>1. ASSUME NEW g \in Hosts, NEW kind, NEW size, Open(g, kind, size) PROVE QInv'
  <2>1. /\ usb' = usb /\ inbox' = inbox /\ inbox[g] = <<>>
        /\ \A h \in Hosts : h # g => host'[h] = host[h]
        /\ host'[g].at = "send" /\ At(g, "new")
    BY <1>1, QTypes DEF Open, SInv, Lives, IsOpen, At
  <2>2. Busy' = Busy
    BY <2>1 DEF Busy, At
  <2>3. Cardinality(Busy)' = Cardinality(Busy) /\ Len(inbox[g]) = 0
    BY <2>1, <2>2
  <2> QED BY <2>1, <2>3, QTypes DEF QInv, Kind, IsOpen
<1>2. ASSUME NEW g \in Hosts, NothingToFinish(g) PROVE QInv'
  BY <1>2, QEnd DEF NothingToFinish, Ended, IsOpen, At
<1>3. ASSUME NEW g \in Hosts, Timeout(g) PROVE QInv'
  BY <1>3, QEnd DEF Timeout, Ended, IsOpen, At
<1>4. ASSUME NEW g \in Hosts, Send(g) PROVE QInv'
  <2>1. /\ host' = [host EXCEPT ![g] = [host[g] EXCEPT !.at = "wait"]]
        /\ [host[g] EXCEPT !.at = "wait"].at = "wait" /\ At(g, "send") /\ inbox' = inbox
    BY <1>4, QTypes DEF Send, Session
  <2>2. Cardinality(Busy)' = Cardinality(Busy) + 1 /\ Cardinality(Busy) \in Nat
    BY <2>1, BusyGains
  <2>3. Len(usb') = Len(usb) + 1
    BY <1>4, QTypes DEF Send
  <2>4. \A h \in Hosts : Kind(h)' = Kind(h) /\ (IsOpen(h)' => IsOpen(h))
    BY <2>1, QTypes DEF Kind, IsOpen, At, Session
  <2> QED BY <2>1, <2>2, <2>3, <2>4, QTypes DEF QInv
<1>5. ASSUME NEW g \in Hosts, Take(g) PROVE QInv'
  <2>1. /\ At(g, "wait") /\ IsOpen(g) /\ inbox[g] # <<>> /\ usb' = usb
    BY <1>5 DEF Take, At, IsOpen
  <2>2. Len(Tail(inbox[g])) = Len(inbox[g]) - 1 /\ Len(inbox[g]) \in Nat \ {0}
    BY <2>1, QTypes, Tails
  <2>3. CASE \E how \in Ended : End(g, how)
    BY <2>1, <2>3, QEnd
  <2>4. CASE Skip(g)
    <3>1. host' = host /\ \A h \in Hosts : inbox'[h] = IF h = g THEN Tail(inbox[g]) ELSE inbox[h]
      BY <2>4, QTypes DEF Skip
    <3>2. Busy' = Busy
      BY <3>1 DEF Busy, At
    <3>3. Cardinality(Busy)' = Cardinality(Busy) /\ Cardinality(Busy) \in Nat
      BY <3>2, BusyIs
    <3>4. \A h \in Hosts : Kind(h)' = Kind(h) /\ (IsOpen(h)' => IsOpen(h))
      BY <3>1 DEF Kind, IsOpen
    <3>5. \A h \in Hosts : Len(inbox'[h]) <= Len(inbox[h]) /\ Len(inbox'[h]) \in Nat
      <4>1. ASSUME NEW h \in Hosts PROVE Len(inbox'[h]) <= Len(inbox[h]) /\ Len(inbox'[h]) \in Nat
        <5>1. CASE h = g
          <6>1. Len(inbox'[h]) = Len(inbox[h]) - 1 /\ Len(inbox[h]) \in Nat \ {0}
            BY <2>2, <3>1, <5>1
          <6> QED BY <6>1
        <5>2. CASE h # g
          BY <3>1, <5>2, QTypes
        <5> QED BY <5>1, <5>2
      <4> QED BY <4>1
    <3> QED BY <2>1, <3>3, <3>4, <3>5, QTypes DEF QInv
  <2>5. CASE host[g].k < FrameCount(host[g]) /\ NextFrame(g)
    <3>1. /\ host' = [host EXCEPT ![g] = [host[g] EXCEPT !.at = "send", !.k = @ + 1]]
          /\ [host[g] EXCEPT !.at = "send", !.k = @ + 1].at = "send"
          /\ host'[g].kind = host[g].kind
          /\ \A h \in Hosts : inbox'[h] = IF h = g THEN Tail(inbox[g]) ELSE inbox[h]
      BY <2>5, QTypes DEF NextFrame, Session
    <3>2. Cardinality(Busy)' = Cardinality(Busy) - 1 /\ Cardinality(Busy) \in Nat
      BY <2>1, <3>1, BusyLoses
    <3>3. Kind(g) \in Jobs
      BY <2>1, <2>5, SessionIs DEF FrameCount, Kind, Jobs
    <3>4. \A h \in Hosts \ {g} : host'[h] = host[h]
      BY <3>1, QTypes
    <3>5. ASSUME NEW h \in Hosts, Kind(h)' \in Jobs, IsOpen(h)'
          PROVE  h = g
      <4>1. h # g => Kind(h) \in Jobs /\ IsOpen(h)
        BY <3>4, <3>5 DEF Kind, IsOpen
      <4> QED BY <2>1, <3>3, <4>1 DEF OneJob
    <3>6. Len(usb) + Len(inbox[g]) <= Cardinality(Busy)
      BY <2>1, <3>3 DEF QInv
    <3>7. /\ Len(usb') <= Cardinality(Busy)'
          /\ Len(usb') + Len(inbox'[g]) <= Cardinality(Busy)'
      <4>1. Len(inbox'[g]) = Len(inbox[g]) - 1
        BY <2>2, <3>1
      <4>2. Len(usb') = Len(usb) /\ Len(usb) \in Nat
        BY <2>1, QTypes
      <4> QED BY <2>2, <3>2, <3>6, <4>1, <4>2
    <3> QED BY <3>5, <3>7 DEF QInv
  <2> QED BY <1>5, <2>3, <2>4, <2>5 DEF Take, NextFrame, Ended
<1>6. CASE Serve
  <2>1. host' = host /\ Len(usb') = Len(usb) - 1
    BY <1>6, QTypes, Tails DEF Serve
  <2>2. Busy' = Busy
    BY <2>1 DEF Busy, At
  <2>3. Cardinality(Busy)' = Cardinality(Busy) /\ Cardinality(Busy) \in Nat
    BY <2>2, BusyIs
  <2>4. \A h \in Hosts : Kind(h)' = Kind(h) /\ IsOpen(h)' = IsOpen(h)
    BY <2>1 DEF Kind, IsOpen
  <2>5. ASSUME NEW h \in Hosts PROVE Len(inbox'[h]) <= Len(inbox[h]) + 1 /\ Len(inbox'[h]) \in Nat
    <3>1. inbox'[h] = inbox[h] \/ \E r : inbox'[h] = Append(inbox[h], r)
      BY <1>6 DEF Serve, Report
    <3>2. inbox[h] \in Seq(Reports) /\ inbox'[h] \in Seq(Reports)
      BY DEF SInv, Types
    <3> QED BY <3>1, <3>2
  <2> QED BY <2>1, <2>3, <2>4, <2>5, QTypes DEF QInv
<1>7. CASE UNCHANGED vars
  BY <1>7 DEF vars, QInv, Busy, At, Kind, IsOpen
<1> QED BY <1>1, <1>2, <1>3, <1>4, <1>5, <1>6, <1>7 DEF Next

LEMMA QuietWhenOpened ==
  ASSUME SInv, Few, QInv
  PROVE  ShortQueue
<1>1. ASSUME NEW h \in Hosts, Uploading(h), At(h, "send")
      PROVE  Len(usb) <= Slack(host[h].size)
  <2>1. Busy \subseteq Hosts \ {h} /\ IsFiniteSet(Hosts)
    BY <1>1 DEF Busy, Few
  <2>2. Cardinality(Hosts \ {h}) = Cardinality(Hosts) - 1 /\ IsFiniteSet(Hosts \ {h})
    BY <2>1, FS_RemoveElement
  <2>3. Cardinality(Busy) <= Cardinality(Hosts) - 1
    BY <2>1, <2>2, FS_Subset
  <2>4. host[h].size \in Sizes /\ host[h].size > 0 /\ host[h].size \in Nat
    BY <1>1, SessionIs DEF SInv, Lives, Uploading
  <2>5. Cardinality(Hosts) < Wrap /\ Cardinality(Hosts) <= host[h].size + 2
    BY <2>4 DEF Few
  <2>6. Len(usb) \in Nat /\ Len(usb) <= Cardinality(Busy)
    BY QTypes DEF QInv
  <2> QED BY <2>3, <2>4, <2>5, <2>6, BusyIs DEF Slack
<1> QED BY <1>1 DEF ShortQueue

\* With few sessions a reported upload is always a stored one.
THEOREM FewAreHonest ==
  ASSUME Few
  PROVE  Spec => UploadHonest
<1>1. Init => OneJob /\ QInv
  <2>1. ASSUME Init PROVE OneJob /\ QInv
    <3>1. \A h \in Hosts : ~IsOpen(h)
      BY <2>1 DEF Init, IsOpen, New
    <3>2. Len(usb) = 0
      BY <2>1 DEF Init
    <3> QED BY <3>1, <3>2, BusyIs DEF OneJob, QInv
  <2> QED BY <2>1
<1>2. SInv /\ OneJob /\ [Next]_vars => OneJob'
  BY OneJobKept
<1>3. SInv /\ SInv' /\ OneJob /\ QInv /\ [Next]_vars => QInv'
  BY QStep
<1>4. SInv /\ QInv => ShortQueue
  BY QuietWhenOpened
<1> QED BY <1>1, <1>2, <1>3, <1>4, SessionsKept, UploadIsHonest, PTL DEF Spec

=============================================================================
