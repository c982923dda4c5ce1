------------------------------ MODULE IdeJobsProofs ------------------------------
(***************************************************************************)
(* The IDE's jobs for every number of jobs and output lines, whether they  *)
(* die or not: probe and debug are serialized, the page's verdict is final *)
(* and no line is shown twice.                                             *)
(*                                                                         *)
(* A log answer is put together from four reads of a job that moves on in  *)
(* between.  Polling says what each read still tells about the job when    *)
(* the answer arrives: lines only grow, and a job that is done is final.   *)
(***************************************************************************)
EXTENDS IdeJobs, FiniteSetTheorems, TLAPS

USE IdeJobsAssumption

Records == [kind : Kinds \cup {"none"}, at : Alive \cup {"none", "end"},
            lines : 0..MaxLines + 4, ok : BOOLEAN, done : BOOLEAN, good : BOOLEAN]
Answers == [at : {"none", "lines", "count", "done", "ok", "sent"},
            to : Nat, count : Nat, done : BOOLEAN, ok : BOOLEAN]

Types == TypeOK /\ answer \in Answers /\ shown \in Nat

\* A job's thread: its lines so far, and that nothing follows done.
Thread(r) ==
  /\ r.kind = "none" <=> r.at = "none"
  /\ r.kind = "probe" => r.at \in {"start", "device", "done?", "end"}
  /\ r.done => r.at = "end" /\ r.ok = r.good
  /\ r.at \in {"none", "start"} => r.lines <= 1
  /\ r.at \in {"compiling", "probing", "device"} => r.lines <= MaxLines + 1
  /\ r.at \in {"between", "uploading"} => r.lines <= MaxLines + 2
  /\ r.lines <= MaxLines + 3

Threads == \A j \in Jobs : Thread(job[j])

\* Who is inside the lock.
Probes(j) == job[j].kind = "probe" /\ At(j, "device")

Holders ==
  /\ \A j \in Jobs : Probes(j) => lock = "job"
  /\ \A i, j \in Jobs : Probes(i) /\ Probes(j) => i = j
  /\ debug = "device" => lock = "debug"

\* What the answer under way tells about the polled job.
Told(j) ==
  /\ since <= j.lines /\ shown <= since
  /\ answer.at = "count" => since <= answer.to /\ answer.to <= j.lines
  /\ answer.at \in {"done", "ok", "sent"} =>
       answer.to <= answer.count /\ since <= answer.count /\ answer.count <= j.lines
  /\ answer.at \in {"ok", "sent"} /\ answer.done => j.done
  /\ answer.at = "sent" /\ answer.done => answer.ok = j.ok

Polling ==
  /\ \A j \in posted : job[j].kind # "none"
  /\ answer.at # "none" => Busy
  /\ Busy => job[poll].kind # "none" /\ Told(job[poll])

Verdicts ==
  \A v \in verdict : v.id \in Jobs /\ job[v.id].done /\ v.ok = job[v.id].good

IInv == Types /\ Threads /\ Holders /\ Polling /\ Verdicts

-----------------------------------------------------------------------------
(* A thread that moves.                                                    *)

\* Job j becomes r, as a thread may: it stays the job it is, its lines grow,
\* and not after it is done.
Moves(j, r) ==
  /\ r \in Records /\ Thread(r)
  /\ r.kind = job[j].kind /\ r.kind # "none" /\ r.lines >= job[j].lines
  /\ ~job[j].done
  /\ job' = [job EXCEPT ![j] = r]

LEMMA JobKept ==
  ASSUME NEW j \in Jobs, NEW r \in Records, job \in [Jobs -> Records],
         job' = [job EXCEPT ![j] = r]
  PROVE  /\ job' \in [Jobs -> Records]
         /\ job'[j] = r /\ \A i \in Jobs \ {j} : job'[i] = job[i]
  OBVIOUS

LEMMA MovesKeeps ==
  ASSUME IInv, NEW j \in Jobs, NEW r, Moves(j, r), UNCHANGED client
  PROVE  /\ job' \in [Jobs -> Records]
         /\ job'[j] = r /\ \A i \in Jobs \ {j} : job'[i] = job[i]
         /\ Threads' /\ Polling' /\ Verdicts'
<1>1. job \in [Jobs -> Records]
  BY DEF IInv, Types, TypeOK, Records
<1>2. /\ job' \in [Jobs -> Records]
      /\ job'[j] = r /\ \A i \in Jobs \ {j} : job'[i] = job[i]
  BY <1>1, JobKept DEF Moves
<1>3. Threads'
  BY <1>2 DEF IInv, Threads, Moves
<1>4. Polling'
  <2>1. \A i \in posted : job'[i].kind # "none"
    BY <1>2 DEF IInv, Polling, Types, TypeOK, Moves
  <2>2. CASE poll = j
    <3>1. /\ ~job[poll].done /\ job'[poll] = r /\ r.lines >= job[poll].lines
          /\ r.lines \in Nat /\ job[poll].lines \in Nat
      BY <1>1, <1>2, <2>2 DEF Moves, Records
    <3>2. Busy => Told(r)
      BY <3>1 DEF IInv, Polling, Told, Types, TypeOK, Answers, client
    <3> QED BY <2>1, <3>1, <3>2, <2>2
            DEF IInv, Polling, Busy, Told, client, Moves
  <2>3. CASE poll # j
    <3>1. Busy => job'[poll] = job[poll]
      BY <1>2, <2>3 DEF IInv, Types, TypeOK, Busy
    <3> QED BY <2>1, <3>1 DEF IInv, Polling, Busy, Told, client
  <2> QED BY <2>2, <2>3
<1>5. Verdicts'
  BY <1>2 DEF IInv, Verdicts, Moves, client
<1> QED BY <1>2, <1>3, <1>4, <1>5

\* Every such move preserves the invariant, if its lock is right.
LEMMA MovesAll ==
  ASSUME IInv, NEW j \in Jobs, NEW r, Moves(j, r), UNCHANGED <<debug, client>>,
         \/ lock' = lock /\ ~(r.kind = "probe" /\ r.at = "device")
         \/ lock' = "none" /\ Probes(j) /\ r.at # "device"
         \/ lock = "none" /\ lock' = "job"
  PROVE  IInv'
<1>1. /\ job' \in [Jobs -> Records]
      /\ job'[j] = r /\ \A i \in Jobs \ {j} : job'[i] = job[i]
      /\ Threads' /\ Polling' /\ Verdicts'
  BY MovesKeeps
<1>2. Types'
  BY <1>1 DEF IInv, Types, TypeOK, Records, client
<1>3. Holders'
  BY <1>1 DEF IInv, Holders, Probes, At, Moves, Types, TypeOK
<1> QED BY <1>1, <1>2, <1>3 DEF IInv

\* The job as Move leaves it.
Moved(j, where, more) == [job[j] EXCEPT !.at = where, !.lines = @ + more]

LEMMA MoveKeeps ==
  ASSUME IInv, NEW j \in Jobs, job[j].kind # "none", ~job[j].done,
         NEW where \in Alive \cup {"end"}, NEW more \in 0..1,
         Move(j, where, more), Thread(Moved(j, where, more)),
         UNCHANGED <<debug, client>>,
         \/ lock' = lock /\ ~(job[j].kind = "probe" /\ where = "device")
         \/ lock' = "none" /\ Probes(j) /\ where # "device"
         \/ lock = "none" /\ lock' = "job"
  PROVE  IInv'
<1> DEFINE q == job[j]
           r == Moved(j, where, more)
<1>1. job \in [Jobs -> Records] /\ q \in Records
  BY DEF IInv, Types, TypeOK, Records
<1>2. /\ r.kind = q.kind /\ r.at = where /\ r.lines = q.lines + more
      /\ r.ok = q.ok /\ r.done = q.done /\ r.good = q.good
  BY <1>1 DEF Records, Moved
<1>3. q.lines \in Nat /\ r.lines \in Nat /\ r.lines >= q.lines /\ r.lines <= MaxLines + 3
  BY <1>1, <1>2 DEF Records, Thread
<1>4. r.lines \in 0..MaxLines + 4
  BY <1>3
<1>5. where \in Alive \cup {"none", "end"} /\ q.lines + more \in 0..MaxLines + 4
  BY <1>2, <1>4
<1>6. r \in Records
  <2>1. \A K, A, L : \A p \in [kind : K, at : A, lines : L, ok : BOOLEAN,
                              done : BOOLEAN, good : BOOLEAN], w \in A, n \in L :
          [p EXCEPT !.at = w, !.lines = n]
            \in [kind : K, at : A, lines : L, ok : BOOLEAN, done : BOOLEAN,
                 good : BOOLEAN]
    OBVIOUS
  <2>2. r = [q EXCEPT !.at = where, !.lines = q.lines + more]
    BY DEF Moved
  <2> HIDE DEF q, r
  <2> QED BY <1>1, <1>5, <2>1, <2>2 DEF Records
<1>7. job' = [job EXCEPT ![j] = r]
  BY <1>1 DEF Move, Moved, Records
<1>8. Moves(j, r)
  BY <1>2, <1>3, <1>6, <1>7 DEF Moves
<1> HIDE DEF r
<1> QED BY <1>2, <1>8, MovesAll

LEMMA ThreadSteps ==
  ASSUME IInv, NEW j \in Jobs, JobStep(j) \/ Die(j)
  PROVE  IInv'
<1> DEFINE q == job[j]
<1>1. job \in [Jobs -> Records] /\ q \in Records /\ Thread(q)
  BY DEF IInv, Types, TypeOK, Records, Threads
<1>2. q.kind # "none" /\ ~q.done
  BY <1>1 DEF Thread, JobStep, Refuse, Launch, LockDevice, Output, Probed, LaunchUpload,
              Ended, Finish, Die, At, OnDevice
<1>3. {"compiling", "probing", "uploading", "device", "between", "done?", "end"}
        \subseteq Alive \cup {"end"} /\ 0 \in 0..1 /\ 1 \in 0..1
  BY DEF Alive, OnDevice
<1>4. CASE Refuse(j)
  <2>1. Thread(Moved(j, "done?", 1))
    BY <1>1, <1>2, <1>4 DEF Refuse, At, Thread, Records, Kinds, Moved
  <2>2. Move(j, "done?", 1) /\ lock' = lock /\ UNCHANGED <<debug, client>>
    BY <1>4 DEF Refuse
  <2> QED BY <1>2, <1>3, <2>1, <2>2, MoveKeeps
<1>5. CASE Launch(j)
  <2>1. PICK where \in {"compiling", "probing", "device"} : Move(j, where, 0)
    BY <1>5 DEF Launch
  <2>2. q.kind # "probe" /\ Thread(Moved(j, where, 0))
    BY <1>1, <1>2, <1>5 DEF Launch, At, Thread, Records, Kinds, Moved
  <2>3. lock' = lock /\ UNCHANGED <<debug, client>>
    BY <1>5 DEF Launch
  <2> QED BY <1>2, <1>3, <2>1, <2>2, <2>3, MoveKeeps
<1>6. CASE LockDevice(j)
  <2>1. Thread(Moved(j, "device", 0))
    BY <1>1, <1>2, <1>6 DEF LockDevice, At, Thread, Records, Moved
  <2>2. /\ Move(j, "device", 0) /\ lock = "none" /\ lock' = "job"
        /\ UNCHANGED <<debug, client>>
    BY <1>6 DEF LockDevice
  <2> QED BY <1>2, <1>3, <2>1, <2>2, MoveKeeps
<1>7. CASE Output(j)
  <2>1. q.at \in {"compiling", "uploading"} /\ Thread(Moved(j, q.at, 1))
    BY <1>1, <1>2, <1>7 DEF Output, Thread, Records, Moved
  <2>2. Move(j, q.at, 1) /\ lock' = lock /\ UNCHANGED <<debug, client>>
    BY <1>7 DEF Output
  <2>3. PICK where \in {"compiling", "uploading"} : where = q.at
    BY <2>1
  <2> QED BY <1>2, <1>3, <2>1, <2>2, <2>3, MoveKeeps
<1>8. CASE Probed(j)
  <2>1. PICK where \in {"between", "done?"} : Move(j, where, 1)
    BY <1>8 DEF Probed
  <2>2. Thread(Moved(j, where, 1))
    BY <1>1, <1>2, <1>8 DEF Probed, At, Thread, Records, Moved
  <2>3. lock' = lock /\ UNCHANGED <<debug, client>>
    BY <1>8 DEF Probed
  <2> QED BY <1>2, <1>3, <2>1, <2>2, <2>3, MoveKeeps
<1>9. CASE LaunchUpload(j)
  <2>1. Thread(Moved(j, "uploading", 0))
    BY <1>1, <1>2, <1>9 DEF LaunchUpload, At, Thread, Records, Moved
  <2>2. Move(j, "uploading", 0) /\ lock' = lock /\ UNCHANGED <<debug, client>>
    BY <1>9 DEF LaunchUpload
  <2> QED BY <1>2, <1>3, <2>1, <2>2, MoveKeeps
<1>10. CASE Die(j)
  <2>1. Thread(Moved(j, "end", 0))
    BY <1>1, <1>2, <1>10 DEF Die, Thread, Records, Moved
  <2>2. Move(j, "end", 0) /\ UNCHANGED <<debug, client>>
    BY <1>10 DEF Die
  <2>3. lock' = lock \/ (lock' = "none" /\ Probes(j))
    BY <1>10 DEF Die, Probes
  <2> QED BY <1>2, <1>3, <2>1, <2>2, <2>3, MoveKeeps
<1>11. CASE Ended(j)
  <2>1. PICK good \in BOOLEAN :
          job' = [job EXCEPT ![j].at = "done?", ![j].lines = @ + 1, ![j].good = good]
    BY <1>11 DEF Ended
  <2> DEFINE r == [q EXCEPT !.at = "done?", !.lines = @ + 1, !.good = good]
  <2>2. r \in Records /\ Thread(r)
    BY <1>1, <1>2, <1>11 DEF Ended, Records, Thread, Alive
  <2>3. Moves(j, r)
    BY <1>1, <1>2, <2>1, <2>2 DEF Moves, Records
  <2>4. q.kind = "probe" => Probes(j)
    BY <1>1, <1>11 DEF Ended, Thread, Probes, At
  <2>5. r.at = "done?"
    BY <1>1 DEF Records
  <2> HIDE DEF r
  <2> QED BY <1>11, <2>3, <2>4, <2>5, MovesAll DEF Ended
<1>12. CASE Finish(j)
  <2> DEFINE r == IF q.ok # q.good THEN [q EXCEPT !.ok = q.good]
                  ELSE [q EXCEPT !.done = TRUE, !.at = "end"]
  <2>1. r \in Records /\ Thread(r)
    BY <1>1, <1>2, <1>12 DEF Finish, Records, Thread, At
  <2>2. job' = [job EXCEPT ![j] = r]
    BY <1>1, <1>12 DEF Finish, Records
  <2>3. r.kind = q.kind /\ r.lines = q.lines /\ r.at \in {"done?", "end"}
    BY <1>1, <1>12 DEF Records, Finish, At
  <2>4. q.lines \in Nat /\ lock' = lock /\ UNCHANGED <<debug, client>>
    BY <1>1, <1>12 DEF Records, Finish
  <2>5. Moves(j, r)
    BY <1>2, <2>1, <2>2, <2>3, <2>4 DEF Moves
  <2> HIDE DEF r
  <2> QED BY <2>3, <2>4, <2>5, MovesAll
<1> QED BY <1>4, <1>5, <1>6, <1>7, <1>8, <1>9, <1>10, <1>11, <1>12 DEF JobStep

-----------------------------------------------------------------------------
(* Debug requests and the page.                                            *)

LEMMA DebugSteps ==
  ASSUME IInv, DebugCheck \/ DebugLock \/ DebugEnd
  PROVE  IInv'
<1>1. job' = job /\ UNCHANGED client
  BY DEF DebugCheck, DebugLock, DebugEnd
<1>2. Types'
  BY <1>1 DEF IInv, Types, TypeOK, DebugCheck, DebugLock, DebugEnd, client
<1>3. Holders'
  BY <1>1 DEF IInv, Holders, Probes, At, DebugCheck, DebugLock, DebugEnd
<1>4. Threads' /\ Polling' /\ Verdicts'
  BY <1>1 DEF IInv, Threads, Polling, Busy, Told, Verdicts, client
<1> QED BY <1>2, <1>3, <1>4 DEF IInv

\* A job that starts takes an unused record, which no poll and no verdict means.
LEMMA StartKeeps ==
  ASSUME IInv, NEW j \in Jobs, NEW kind \in Kinds, StartJob(j, kind),
         UNCHANGED <<lock, debug>>
  PROVE  /\ job' \in [Jobs -> Records]
         /\ \A i \in Jobs : job[i].kind # "none" => job'[i] = job[i]
         /\ posted' \subseteq Jobs /\ \A i \in posted' : job'[i].kind # "none"
         /\ Threads' /\ Holders'
<1> DEFINE r == [NoJob EXCEPT !.kind = kind, !.at = "start", !.lines = 1]
<1>1. job \in [Jobs -> Records] /\ posted \subseteq Jobs
  BY DEF IInv, Types, TypeOK, Records
<1>2. r.kind = kind /\ r.at = "start" /\ r.lines = 1 /\ ~r.done
  BY DEF NoJob
<1>3. r \in Records
  <2>1. \A K, A, L : \A p \in [kind : K, at : A, lines : L, ok : BOOLEAN,
                              done : BOOLEAN, good : BOOLEAN],
                       k \in K, w \in A, n \in L :
          [p EXCEPT !.kind = k, !.at = w, !.lines = n]
            \in [kind : K, at : A, lines : L, ok : BOOLEAN, done : BOOLEAN,
                 good : BOOLEAN]
    OBVIOUS
  <2>2. 0 \in 0..MaxLines + 4 /\ 1 \in 0..MaxLines + 4 /\ "start" \in Alive
    BY DEF Alive
  <2>3. NoJob \in Records
    BY <2>2 DEF NoJob, Records
  <2> QED BY <2>1, <2>2, <2>3 DEF Records
<1>4. job' = [job EXCEPT ![j] = r] /\ posted' = posted \cup {j} /\ job[j].kind = "none"
  BY DEF StartJob, Unused
<1> HIDE DEF r
<1>5. /\ job' \in [Jobs -> Records]
      /\ job'[j] = r /\ \A i \in Jobs \ {j} : job'[i] = job[i]
  BY <1>1, <1>3, <1>4, JobKept
<1>6. r.kind = kind /\ kind # "none" /\ r.at = "start" /\ r.lines = 1 /\ ~r.done
  BY <1>2 DEF Kinds
<1>7. Thread(r)
  BY <1>6 DEF Thread
<1>8. Threads'
  BY <1>5, <1>7 DEF IInv, Threads
<1>9. Holders'
  BY <1>5, <1>6 DEF IInv, Holders, Probes, At
<1>10. \A i \in posted' : job'[i].kind # "none"
  BY <1>1, <1>4, <1>5, <1>6 DEF IInv, Polling
<1>11. \A i \in Jobs : job[i].kind # "none" => job'[i] = job[i]
  BY <1>4, <1>5
<1> QED BY <1>1, <1>4, <1>5, <1>8, <1>9, <1>10, <1>11

\* What the page knows stays true when no used job changes.
LEMMA VerdictsKept ==
  ASSUME IInv, \A i \in Jobs : job[i].kind # "none" => job'[i] = job[i],
         verdict' = verdict
  PROVE  Verdicts'
<1>1. \A i \in Jobs : job[i].done => job[i].kind # "none"
  BY DEF IInv, Threads, Thread
<1> QED BY <1>1 DEF IInv, Verdicts

LEMMA ClickSteps ==
  ASSUME IInv, \/ \E b \in BOOLEAN : ClickBuild(b)
               \/ \E kind \in Kinds : Click(kind)
  PROVE  IInv'
<1>1. PICK j \in Jobs, kind \in Kinds : StartJob(j, kind)
  BY DEF ClickBuild, Click, Kinds
<1>2. /\ UNCHANGED <<lock, debug, poll, since, answer, shown, verdict>>
      /\ pending' \in BOOLEAN
  BY DEF ClickBuild, Click, IInv, Types, TypeOK
<1>3. /\ job' \in [Jobs -> Records]
      /\ \A i \in Jobs : job[i].kind # "none" => job'[i] = job[i]
      /\ posted' \subseteq Jobs /\ \A i \in posted' : job'[i].kind # "none"
      /\ Threads' /\ Holders'
  BY <1>1, <1>2, StartKeeps
<1>4. Types'
  BY <1>2, <1>3 DEF IInv, Types, TypeOK, Records
<1>5. Polling'
  BY <1>2, <1>3 DEF IInv, Polling, Busy, Told, Types, TypeOK
<1>6. Verdicts'
  BY <1>2, <1>3, VerdictsKept
<1> QED BY <1>3, <1>4, <1>5, <1>6 DEF IInv

LEMMA StartPollingKeeps ==
  ASSUME IInv, NEW j \in Jobs, StartPolling(j)
  PROVE  IInv'
<1>1. UNCHANGED <<server, pending, verdict>> /\ j \in posted /\ posted' \subseteq posted
  BY DEF StartPolling
<1>2. Threads' /\ Holders' /\ Verdicts'
  BY <1>1 DEF IInv, Threads, Holders, Probes, At, Verdicts, server
<1>3. \/ UNCHANGED <<poll, since, answer, shown>>
      \/ /\ poll' = j /\ since' = 0 /\ shown' = 0
         /\ answer' = [NoAnswer EXCEPT !.at = "lines"]
  BY DEF StartPolling
<1>4. [NoAnswer EXCEPT !.at = "lines"] \in Answers
      /\ [NoAnswer EXCEPT !.at = "lines"].at = "lines"
  BY DEF NoAnswer, Answers
<1>5. Types'
  BY <1>1, <1>3, <1>4 DEF IInv, Types, TypeOK, server
<1>6. job[j].kind # "none" /\ job[j].lines \in Nat
  BY <1>1 DEF IInv, Polling, Types, TypeOK
<1>7. (\A i \in posted' : job'[i].kind # "none") /\ job' = job
  BY <1>1 DEF IInv, Polling, server
<1>8. CASE UNCHANGED <<poll, since, answer, shown>>
  BY <1>2, <1>5, <1>7, <1>8 DEF IInv, Polling, Busy, Told
<1>9. CASE /\ poll' = j /\ since' = 0 /\ shown' = 0
           /\ answer' = [NoAnswer EXCEPT !.at = "lines"]
  <2>1. answer'.at = "lines"
    BY <1>4, <1>9
  <2>2. Told(job[j])'
    BY <1>6, <1>7, <1>9, <2>1 DEF Told
  <2>3. poll' # 0 /\ job'[poll'].kind # "none"
    BY <1>6, <1>7, <1>9 DEF Jobs
  <2> QED BY <1>2, <1>5, <1>7, <1>9, <2>2, <2>3 DEF IInv, Polling, Busy, Told
<1> QED BY <1>3, <1>8, <1>9

\* The page polls no more.
LEMMA StopKeeps ==
  ASSUME StopPolling, \A i \in posted' : job'[i].kind # "none"
  PROVE  /\ Polling' /\ poll' \in Jobs \cup {0} /\ since' \in Nat
         /\ answer' \in Answers /\ shown' \in Nat
BY DEF StopPolling, Polling, Busy, NoAnswer, Answers

LEMMA LogFailsKeeps ==
  ASSUME IInv, LogFails
  PROVE  IInv'
<1>1. StopPolling /\ UNCHANGED <<server, posted, pending, verdict>>
  BY DEF LogFails
<1>2. \A i \in posted' : job'[i].kind # "none"
  BY <1>1 DEF IInv, Polling, server
<1> QED BY <1>1, <1>2, StopKeeps
        DEF IInv, Types, TypeOK, Threads, Holders, Probes, At, Verdicts, server

LEMMA LogRequestKeeps ==
  ASSUME IInv, LogRequest
  PROVE  IInv'
<1> DEFINE j == job[poll]
<1>1. /\ Busy /\ poll \in Jobs /\ j.kind # "none" /\ Told(j)
      /\ j \in Records /\ j.lines \in Nat /\ Thread(j)
  BY DEF LogRequest, IInv, Types, TypeOK, Records, Threads, Polling, Busy
<1>2. UNCHANGED <<server, posted, poll, since, pending, shown, verdict>> /\ answer \in Answers
  BY DEF LogRequest, IInv, Types
<1>3. \/ answer.at = "lines" /\ answer' = [answer EXCEPT !.at = "count", !.to = j.lines]
      \/ answer.at = "count" /\ answer' = [answer EXCEPT !.at = "done", !.count = j.lines]
      \/ answer.at = "done" /\ answer' = [answer EXCEPT !.at = "ok", !.done = j.done]
      \/ answer.at = "ok" /\ answer' = [answer EXCEPT !.at = "sent", !.ok = j.ok]
  BY <1>2 DEF LogRequest, AnswerRead, Answers
<1>4. j.done \in BOOLEAN /\ j.ok \in BOOLEAN
  BY <1>1 DEF Records
<1> HIDE DEF j
<1>5. answer' \in Answers
  BY <1>1, <1>2, <1>3, <1>4 DEF Answers
<1>6. /\ since <= j.lines /\ shown <= since
      /\ answer'.at = "count" => since <= answer'.to /\ answer'.to <= j.lines
      /\ answer'.at \in {"done", "ok", "sent"} =>
           /\ answer'.to <= answer'.count /\ since <= answer'.count
           /\ answer'.count <= j.lines
      /\ answer'.at \in {"ok", "sent"} /\ answer'.done => j.done
      /\ answer'.at = "sent" /\ answer'.done => answer'.ok = j.ok
  <2>1. since \in Nat /\ shown \in Nat
    BY DEF IInv, Types, TypeOK
  <2>2. CASE answer.at = "lines" /\ answer' = [answer EXCEPT !.at = "count", !.to = j.lines]
    <3>1. answer'.at = "count" /\ answer'.to = j.lines
      BY <1>2, <2>2 DEF Answers
    <3> QED BY <1>1, <2>1, <3>1 DEF Told
  <2>3. CASE answer.at = "count" /\ answer' = [answer EXCEPT !.at = "done", !.count = j.lines]
    <3>1. answer'.at = "done" /\ answer'.count = j.lines /\ answer'.to = answer.to
      BY <1>2, <2>3 DEF Answers
    <3> QED BY <1>1, <2>1, <2>3, <3>1 DEF Told
  <2>4. CASE answer.at = "done" /\ answer' = [answer EXCEPT !.at = "ok", !.done = j.done]
    <3>1. /\ answer'.at = "ok" /\ answer'.done = j.done
          /\ answer'.to = answer.to /\ answer'.count = answer.count
      BY <1>2, <2>4 DEF Answers
    <3> QED BY <1>1, <2>1, <2>4, <3>1 DEF Told
  <2>5. CASE answer.at = "ok" /\ answer' = [answer EXCEPT !.at = "sent", !.ok = j.ok]
    <3>1. /\ answer'.at = "sent" /\ answer'.ok = j.ok /\ answer'.done = answer.done
          /\ answer'.to = answer.to /\ answer'.count = answer.count
      BY <1>2, <2>5 DEF Answers
    <3> QED BY <1>1, <2>1, <2>5, <3>1 DEF Told
  <2> QED BY <1>3, <2>2, <2>3, <2>4, <2>5
<1>7. Polling'
  BY <1>1, <1>2, <1>6 DEF IInv, Polling, Busy, Told, server, j
<1>8. Types'
  BY <1>2, <1>5 DEF IInv, Types, TypeOK, server
<1>9. Threads' /\ Holders' /\ Verdicts'
  BY <1>2 DEF IInv, Threads, Holders, Probes, At, Verdicts, server
<1> QED BY <1>7, <1>8, <1>9 DEF IInv

LEMMA LogAnswerKeeps ==
  ASSUME IInv, LogAnswer
  PROVE  IInv'
<1>1. /\ Busy /\ poll \in Jobs /\ job[poll].kind # "none" /\ Told(job[poll])
      /\ job[poll] \in Records /\ job[poll].lines \in Nat /\ Thread(job[poll])
      /\ answer \in Answers /\ since \in Nat /\ shown \in Nat
  BY DEF LogAnswer, IInv, Types, TypeOK, Records, Threads, Polling, Busy
<1>2. UNCHANGED <<lock, debug>> /\ answer.at = "sent"
  BY DEF LogAnswer
<1>3. CASE ~answer.done
  <2>1. /\ answer' = [NoAnswer EXCEPT !.at = "lines"] /\ since' = answer.count
        /\ shown' = IF answer.to > since THEN answer.to ELSE shown
        /\ UNCHANGED <<job, posted, poll, pending, verdict>>
    BY <1>3 DEF LogAnswer
  <2>2. answer'.at = "lines" /\ answer' \in Answers
    BY <2>1 DEF NoAnswer, Answers
  <2>3. since' \in Nat /\ shown' \in Nat
    BY <1>1, <2>1 DEF Answers
  <2>4. /\ answer.to <= answer.count /\ since <= answer.count
        /\ answer.count <= job[poll].lines /\ shown <= since
    BY <1>1, <1>2 DEF Told
  <2>5. since' <= job[poll].lines /\ shown' <= since'
    BY <1>1, <2>1, <2>4 DEF Answers
  <2>6. Told(job[poll])'
    BY <2>1, <2>2, <2>5 DEF Told
  <2>7. Polling'
    BY <1>1, <2>1, <2>6 DEF IInv, Polling, Busy
  <2>8. Types'
    BY <1>2, <2>1, <2>2, <2>3 DEF IInv, Types, TypeOK
  <2>9. Threads' /\ Holders' /\ Verdicts'
    BY <1>2, <2>1 DEF IInv, Threads, Holders, Probes, At, Verdicts
  <2> QED BY <2>7, <2>8, <2>9 DEF IInv
<1>4. CASE answer.done
  <2>1. /\ StopPolling /\ verdict' = {[id |-> poll, ok |-> answer.ok]}
        /\ \/ UNCHANGED <<job, posted, pending>>
           \/ pending' = FALSE /\ \E i \in Jobs : StartJob(i, "upload")
    BY <1>4 DEF LogAnswer
  <2>2. /\ job' \in [Jobs -> Records]
        /\ \A i \in Jobs : job[i].kind # "none" => job'[i] = job[i]
        /\ posted' \subseteq Jobs /\ \A i \in posted' : job'[i].kind # "none"
        /\ Threads' /\ Holders'
    <3>1. CASE UNCHANGED <<job, posted, pending>>
      BY <1>2, <3>1 DEF IInv, Types, TypeOK, Records, Threads, Holders, Probes, At, Polling
    <3>2. ASSUME NEW i \in Jobs, StartJob(i, "upload")
          PROVE  /\ job' \in [Jobs -> Records]
                 /\ \A k \in Jobs : job[k].kind # "none" => job'[k] = job[k]
                 /\ posted' \subseteq Jobs /\ \A k \in posted' : job'[k].kind # "none"
                 /\ Threads' /\ Holders'
      <4>1. "upload" \in Kinds
        BY DEF Kinds
      <4> QED BY <1>2, <3>2, <4>1, StartKeeps
    <3> QED BY <2>1, <3>1, <3>2
  <2>3. /\ Polling' /\ poll' \in Jobs \cup {0} /\ since' \in Nat
        /\ answer' \in Answers /\ shown' \in Nat
    BY <2>1, <2>2, StopKeeps
  <2>4. pending' \in BOOLEAN
    BY <2>1 DEF IInv, Types, TypeOK
  <2>5. Types'
    BY <1>2, <2>2, <2>3, <2>4 DEF IInv, Types, TypeOK, Records
  <2>6. job[poll].done /\ answer.ok = job[poll].good /\ job'[poll] = job[poll]
    BY <1>1, <1>2, <1>4, <2>2 DEF Told, Thread
  <2>7. Verdicts'
    BY <1>1, <2>1, <2>6 DEF Verdicts
  <2> QED BY <2>2, <2>3, <2>5, <2>7 DEF IInv
<1> QED BY <1>3, <1>4

-----------------------------------------------------------------------------
LEMMA InitIInv == Init => IInv
<1> SUFFICES ASSUME Init PROVE IInv
  OBVIOUS
<1>1. /\ NoJob \in Records /\ NoJob.kind = "none" /\ NoJob.at = "none"
      /\ NoJob.lines = 0 /\ ~NoJob.done
  BY DEF NoJob, Records
<1>2. NoAnswer \in Answers /\ NoAnswer.at = "none"
  BY DEF NoAnswer, Answers
<1>3. \A j \in Jobs : job[j] = NoJob
  BY DEF Init
<1>4. Types
  BY <1>1, <1>2 DEF Init, Types, TypeOK, Records
<1>5. Thread(NoJob)
  BY <1>1 DEF Thread
<1>6. Threads /\ Holders /\ Polling /\ Verdicts
  BY <1>1, <1>2, <1>3, <1>5
     DEF Init, Threads, Holders, Probes, Polling, Busy, Verdicts
<1> QED BY <1>4, <1>6 DEF IInv

LEMMA NextIInv == IInv /\ [Next]_vars => IInv'
<1> SUFFICES ASSUME IInv, [Next]_vars PROVE IInv'
  OBVIOUS
<1>1. CASE Next
  BY <1>1, ThreadSteps, StartPollingKeeps, ClickSteps, DebugSteps, LogRequestKeeps,
     LogAnswerKeeps, LogFailsKeeps DEF Next
<1>2. CASE UNCHANGED vars
  BY <1>2 DEF IInv, Types, TypeOK, Threads, Holders, Probes, At, Polling, Told, Busy,
              Verdicts, vars, server, client
<1> QED BY <1>1, <1>2

THEOREM Invariant == Spec => []IInv
BY InitIInv, NextIInv, PTL DEF Spec

(* The types: whatever jobs are started, and whether they finish, fail or  *)
(* die, the server's and the page's variables keep their sorts.            *)
THEOREM TypeCorrect == Spec => []TypeOK
<1>1. IInv => TypeOK
  BY DEF IInv, Types
<1> QED BY <1>1, Invariant, PTL

(* DEVICE_LOCK serializes probe jobs and debug requests for any number of  *)
(* them, although a job may die while it holds the lock.                   *)
THEOREM DirectIsSerialized == Spec => []DirectSerialized
<1> DEFINE S == {j \in Jobs : job[j].kind = "probe" /\ At(j, "device")}
<1>1. IInv => DirectSerialized
  <2> SUFFICES ASSUME IInv PROVE DirectSerialized
    OBVIOUS
  <2>1. \A i, j \in S : i = j
    BY DEF IInv, Holders, Probes
  <2>2. CASE S = {}
    <3>1. Cardinality(S) = 0
      BY <2>2, FS_EmptySet
    <3> QED BY <3>1 DEF DirectSerialized
  <2>3. CASE S # {}
    <3>1. PICK j \in S : S = {j}
      BY <2>1, <2>3
    <3>2. Cardinality(S) = 1
      BY <3>1, FS_Singleton
    <3>3. debug # "device"
      BY <3>1 DEF IInv, Holders, Probes
    <3> QED BY <3>2, <3>3 DEF DirectSerialized
  <2> QED BY <2>2, <2>3
<1> QED BY <1>1, Invariant, PTL

(* What the page reports is the job's own outcome, for any number of jobs: *)
(* finish() sets the verdict before done, /api/log reads done before ok.   *)
THEOREM VerdictIsFinal == Spec => []VerdictFinal
<1>1. IInv => VerdictFinal
  BY DEF IInv, Verdicts, VerdictFinal
<1> QED BY <1>1, Invariant, PTL

(* The page shows no line twice, for any output: /api/log reads the lines  *)
(* before it counts them, and the page asks next from that count.          *)
THEOREM NoLineIsShownTwice == Spec => []NoLineTwice
<1>1. IInv => NoLineTwice
  BY DEF IInv, Polling, Told, NoLineTwice
<1> QED BY <1>1, Invariant, PTL
=============================================================================
