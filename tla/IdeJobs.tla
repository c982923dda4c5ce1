-------------------------------- MODULE IdeJobs --------------------------------
(***************************************************************************)
(* The IDE's background jobs: serve_ide.py's job threads and request       *)
(* handlers, and the page (static/app.js) that starts them and polls their *)
(* logs.                                                                   *)
(*                                                                         *)
(* A job is a thread that logs lines, uses the controller and finishes; it *)
(* may also die of an exception no handler expects.  Probe jobs and debug  *)
(* requests use the controller under DEVICE_LOCK; uploads and motor stops  *)
(* are subprocesses without it.  Threads interleave between any two of     *)
(* their statements, the reads of one /api/log answer included.            *)
(***************************************************************************)
EXTENDS Integers, FiniteSets

CONSTANTS
  MaxJobs,   (* bound: jobs ever started                                   *)
  MaxLines,  (* bound: lines of a subprocess's output                      *)
  MayDie     (* whether a job may die of an unexpected exception           *)

ASSUME IdeJobsAssumption ==
  MaxJobs \in Nat /\ MaxLines \in Nat /\ MayDie \in BOOLEAN

VARIABLES
  job,      (* job[j]: kind, where its thread is, and the fields of Job    *)
  lock,     (* holder of DEVICE_LOCK: a job, "debug" or "none"             *)
  debug,    (* the debug request being served                              *)
  posted,   (* jobs whose start the page has not yet heard of              *)
  poll,     (* the job the page polls, 0 for none                          *)
  since,    (* lines the page has asked for so far                         *)
  pending,  (* pendingUpload                                               *)
  answer,   (* the /api/log answer under way                               *)
  shown,    (* the last line of the polled job the page has shown          *)
  verdict   (* history: what the page took from the last finished poll     *)

server == <<job, lock, debug>>
client == <<posted, poll, since, pending, answer, shown, verdict>>
vars == <<server, client>>

Jobs == 1..MaxJobs
Kinds == {"build", "upload", "probe", "stop"}

\* Where a thread talks to the controller.
OnDevice == {"probing", "uploading", "device"}
Alive == {"start", "compiling", "between", "done?"} \cup OnDevice

NoJob == [kind |-> "none", at |-> "none", lines |-> 0, ok |-> FALSE,
          done |-> FALSE, good |-> FALSE]
NoAnswer == [at |-> "none", to |-> 0, count |-> 0, done |-> FALSE, ok |-> FALSE]

Init ==
  /\ job = [j \in Jobs |-> NoJob]
  /\ lock = "none" /\ debug = "idle"
  /\ posted = {} /\ poll = 0 /\ since = 0 /\ pending = FALSE
  /\ answer = NoAnswer /\ shown = 0 /\ verdict = {}

Unused == {j \in Jobs : job[j].kind = "none"}

\* start_job: the job is logged under its label before its thread runs.
StartJob(j, kind) ==
  /\ j \in Unused /\ \A i \in Unused : j <= i
  /\ job' = [job EXCEPT ![j] = [NoJob EXCEPT !.kind = kind, !.at = "start", !.lines = 1]]
  /\ posted' = posted \cup {j}

\* upload_job_running, of whatever kind the job is.
UploadJobRunning == \E j \in Jobs : job[j].kind # "none" /\ ~job[j].done

-----------------------------------------------------------------------------
(* The job threads.                                                        *)

At(j, where) == job[j].at = where

\* Thread j moves on and has logged some more lines.
Move(j, where, more) ==
  job' = [job EXCEPT ![j].at = where, ![j].lines = @ + more]

(* build_target and upload_target return early with finish(False): a       *)
(* transpile error, no image, the vendor's bridge running.                 *)
Refuse(j) ==
  /\ At(j, "start") /\ job[j].kind \in {"build", "upload"}
  /\ Move(j, "done?", 1)
  /\ UNCHANGED <<lock, debug, client>>

(* run_streamed starts the compiler or the motor stop; an upload first     *)
(* runs a probe of its own.                                                *)
Launch(j) ==
  /\ At(j, "start") /\ job[j].kind # "probe"
  /\ Move(j, CASE job[j].kind = "build" -> "compiling"
               [] job[j].kind = "upload" -> "probing"
               [] OTHER -> "device", 0)
  /\ UNCHANGED <<lock, debug, client>>

\* (mutant) the probe does not take the lock
LockDeviceFree(j) ==
  /\ At(j, "start") /\ job[j].kind = "probe"
  /\ Move(j, "device", 0)
  /\ UNCHANGED <<lock, debug, client>>

(* probe_target: with DEVICE_LOCK.                                         *)
LockDevice(j) ==
  /\ At(j, "start") /\ job[j].kind = "probe"
  /\ lock = "none" /\ lock' = "job"
  /\ Move(j, "device", 0)
  /\ UNCHANGED <<debug, client>>

(* The subprocess prints a line.                                           *)
Output(j) ==
  /\ job[j].at \in {"compiling", "uploading"} /\ job[j].lines <= MaxLines
  /\ Move(j, job[j].at, 1)
  /\ UNCHANGED <<lock, debug, client>>

(* The controller answered the upload's probe, or not within its timeout.  *)
Probed(j) ==
  /\ At(j, "probing")
  /\ \E found \in BOOLEAN : Move(j, IF found THEN "between" ELSE "done?", 1)
  /\ UNCHANGED <<lock, debug, client>>

LaunchUpload(j) ==
  /\ At(j, "between")
  /\ Move(j, "uploading", 0)
  /\ UNCHANGED <<lock, debug, client>>

\* (mutant) a failed subprocess is started again
EndedRetries(j) ==
  /\ job[j].at \in {"compiling", "uploading", "device"}
  /\ \E good \in BOOLEAN :
       job' = [job EXCEPT ![j].at = IF good THEN "done?" ELSE @,
                          ![j].lines = @ + 1, ![j].good = good]
  /\ lock' = IF job[j].kind = "probe" THEN "none" ELSE lock
  /\ UNCHANGED <<debug, client>>

\* (mutant) a probe that fails does not release the lock
EndedKeepsLock(j) ==
  /\ job[j].at \in {"compiling", "uploading", "device"}
  /\ \E good \in BOOLEAN :
       /\ job' = [job EXCEPT ![j].at = "done?", ![j].lines = @ + 1, ![j].good = good]
       /\ lock' = IF job[j].kind = "probe" /\ good THEN "none" ELSE lock
  /\ UNCHANGED <<debug, client>>

(* The subprocess or the probe ends, one way or the other.                 *)
Ended(j) ==
  /\ job[j].at \in {"compiling", "uploading", "device"}
  /\ \E good \in BOOLEAN :
       job' = [job EXCEPT ![j].at = "done?", ![j].lines = @ + 1, ![j].good = good]
  /\ lock' = IF job[j].kind = "probe" THEN "none" ELSE lock
  /\ UNCHANGED <<debug, client>>

\* (mutant) done is set before the verdict
FinishDoneFirst(j) ==
  /\ At(j, "done?")
  /\ job' = IF ~job[j].done
            THEN [job EXCEPT ![j].done = TRUE]
            ELSE [job EXCEPT ![j].ok = job[j].good, ![j].at = "end"]
  /\ UNCHANGED <<lock, debug, client>>

(* Job.finish: the verdict, then done (the result it sets last is left     *)
(* out).                                                                   *)
Finish(j) ==
  /\ At(j, "done?")
  /\ job' = IF job[j].ok # job[j].good
            THEN [job EXCEPT ![j].ok = job[j].good]
            ELSE [job EXCEPT ![j].done = TRUE, ![j].at = "end"]
  /\ UNCHANGED <<lock, debug, client>>

(* An exception that the target does not catch ends the thread.            *)
Die(j) ==
  /\ MayDie /\ job[j].at \in {"start", "compiling", "probing", "device"}
  /\ Move(j, "end", 0)
  /\ lock' = IF At(j, "device") /\ job[j].kind = "probe" THEN "none" ELSE lock
  /\ UNCHANGED <<debug, client>>

JobStep(j) ==
  \/ Refuse(j) \/ Launch(j) \/ LockDevice(j) \/ Output(j) \/ Probed(j)
  \/ LaunchUpload(j) \/ Ended(j) \/ Finish(j)

-----------------------------------------------------------------------------
(* /api/debug/read and /api/debug/motor: the check and the lock are two    *)
(* statements.                                                             *)
DebugCheck ==
  /\ debug = "idle" /\ ~UploadJobRunning
  /\ debug' = "checked"
  /\ UNCHANGED <<job, lock, client>>

DebugLock ==
  /\ debug = "checked" /\ lock = "none"
  /\ debug' = "device" /\ lock' = "debug"
  /\ UNCHANGED <<job, client>>

DebugEnd ==
  /\ debug = "device"
  /\ debug' = "idle" /\ lock' = "none"
  /\ UNCHANGED <<job, client>>

-----------------------------------------------------------------------------
(* The page.  The build buttons are disabled while it polls.               *)

Busy == poll # 0

ClickBuild(thenUpload) ==
  /\ ~Busy
  /\ \E j \in Jobs : StartJob(j, "build")
  /\ pending' = thenUpload
  /\ UNCHANGED <<lock, debug, poll, since, answer, shown, verdict>>

\* The probe and stop buttons stay enabled.
Click(kind) ==
  /\ kind \in {"probe", "stop"}
  /\ \E j \in Jobs : StartJob(j, kind)
  /\ UNCHANGED <<lock, debug, poll, since, pending, answer, shown, verdict>>

(* startPolling, which ignores a job while another is polled.              *)
StartPolling(j) ==
  /\ j \in posted /\ posted' = posted \ {j}
  /\ IF Busy
     THEN UNCHANGED <<poll, since, answer, shown>>
     ELSE /\ poll' = j /\ since' = 0 /\ shown' = 0
          /\ answer' = [NoAnswer EXCEPT !.at = "lines"]
  /\ UNCHANGED <<server, pending, verdict>>

\* (mutant) the count is read before the lines
AnswerCountFirst ==
  LET j == job[poll]
  IN answer' = CASE answer.at = "lines" ->
                      [answer EXCEPT !.at = "count", !.count = j.lines]
                 [] answer.at = "count" ->
                      [answer EXCEPT !.at = "done", !.to = j.lines]
                 [] answer.at = "done" -> [answer EXCEPT !.at = "ok", !.done = j.done]
                 [] answer.at = "ok" -> [answer EXCEPT !.at = "sent", !.ok = j.ok]

\* The fields of the answer, read one after the other from the live job.
AnswerRead ==
  LET j == job[poll]
  IN answer' = CASE answer.at = "lines" ->
                      [answer EXCEPT !.at = "count", !.to = j.lines]
                 [] answer.at = "count" -> [answer EXCEPT !.at = "done", !.count = j.lines]
                 [] answer.at = "done" -> [answer EXCEPT !.at = "ok", !.done = j.done]
                 [] answer.at = "ok" -> [answer EXCEPT !.at = "sent", !.ok = j.ok]

(* The /api/log handler.                                                   *)
LogRequest ==
  /\ Busy /\ answer.at \notin {"none", "sent"}
  /\ AnswerRead
  /\ UNCHANGED <<server, posted, poll, since, pending, shown, verdict>>

\* The timer is cleared; since and the lines shown were of this poll only.
StopPolling == poll' = 0 /\ answer' = NoAnswer /\ since' = 0 /\ shown' = 0

(* The page's tick takes the answer: it polls again, or it is done, and    *)
(* then a good build may be followed by its upload.                        *)
LogAnswer ==
  /\ answer.at = "sent"
  /\ IF ~answer.done
     THEN /\ answer' = [NoAnswer EXCEPT !.at = "lines"]
          /\ since' = answer.count
          /\ shown' = IF answer.to > since THEN answer.to ELSE shown
          /\ UNCHANGED <<job, posted, poll, pending, verdict>>
     ELSE /\ StopPolling
          /\ verdict' = {[id |-> poll, ok |-> answer.ok]}
          /\ IF answer.ok /\ job[poll].kind = "build" /\ pending /\ Unused # {}
             THEN pending' = FALSE /\ \E j \in Jobs : StartJob(j, "upload")
             ELSE UNCHANGED <<job, posted, pending>>
  /\ UNCHANGED <<lock, debug>>

(* The request for the log fails: the page gives up on the job.            *)
LogFails ==
  /\ Busy /\ StopPolling
  /\ UNCHANGED <<server, posted, pending, verdict>>

Next ==
  \/ \E j \in Jobs : JobStep(j) \/ Die(j) \/ StartPolling(j)
  \/ \E b \in BOOLEAN : ClickBuild(b)
  \/ \E kind \in Kinds : Click(kind)
  \/ DebugCheck \/ DebugLock \/ DebugEnd
  \/ LogRequest \/ LogAnswer \/ LogFails

Spec == Init /\ [][Next]_vars

(* Threads are scheduled, subprocesses end (the probe has a timeout of its *)
(* own) and the page's tick repeats; nobody has to click.                  *)
FairSpec ==
  /\ Spec
  /\ \A j \in Jobs : WF_vars(JobStep(j))
  /\ WF_vars(DebugLock \/ DebugEnd) /\ WF_vars(LogRequest \/ LogAnswer)

-----------------------------------------------------------------------------
(* Properties.                                                             *)

(* The types.                                                              *)
TypeOK ==
  /\ job \in [Jobs -> [kind : Kinds \cup {"none"},
                       at : Alive \cup {"none", "end"},
                       lines : 0..MaxLines + 4, ok : BOOLEAN, done : BOOLEAN,
                       good : BOOLEAN]]
  /\ lock \in {"none", "job", "debug"} /\ debug \in {"idle", "checked", "device"}
  /\ posted \subseteq Jobs /\ poll \in Jobs \cup {0} /\ since \in Nat
  /\ pending \in BOOLEAN

(* Probe jobs and debug requests never talk to the controller together.    *)
DirectSerialized ==
  Cardinality({j \in Jobs : job[j].kind = "probe" /\ At(j, "device")})
    + (IF debug = "device" THEN 1 ELSE 0) <= 1

(* What the page reports when it stops polling is the job's own outcome,   *)
(* although finish() and the log handler are not atomic.                   *)
VerdictFinal == \A v \in verdict : v.ok = job[v.id].good

(* The page never shows a line twice: the next slice starts past all it    *)
(* has shown, although lines arrive while an answer is put together.       *)
NoLineTwice == Busy => shown <= since

(* A job the page polls comes to an end for it, good or bad, and the build *)
(* buttons are enabled again, unless its thread died without finish().     *)
PollEnds == Busy ~> (~Busy \/ (At(poll, "end") /\ ~job[poll].done))

(* "Uploads are guarded": while an upload job talks to the controller      *)
(* nobody else does.                                                       *)
UploadAlone ==
  \A j \in Jobs :
    job[j].at = "uploading" =>
      /\ debug # "device"
      /\ \A i \in Jobs \ {j} : job[i].at \notin OnDevice

(* "True while any build/upload job is still running": the device counts   *)
(* as busy only while some job's thread is alive.                          *)
BusyMeansRunning == UploadJobRunning => \E j \in Jobs : job[j].at \in Alive

=============================================================================
