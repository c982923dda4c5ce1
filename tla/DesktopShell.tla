------------------------------ MODULE DesktopShell ------------------------------
(***************************************************************************)
(* The desktop shell (main.rs): it picks a port, starts backend candidates *)
(* until one answers there, shows a window, watches the backend and takes  *)
(* it down when it exits.  Several shells may run on one machine.          *)
(*                                                                         *)
(* A candidate is an IDE server (external): it listens on the port it was  *)
(* given unless another process does, and may die at any time.  The main   *)
(* thread, the thread that waits for the backend and the thread that       *)
(* watches it share the child handle under a mutex.  Every wait has a      *)
(* deadline and may end at any time.  Dropping a handle (Rust's Child)     *)
(* neither kills nor reaps its process; try_wait may fail, while kill and  *)
(* wait are taken to do what they say.                                     *)
(***************************************************************************)
EXTENDS Integers

CONSTANTS
  Shells,      (* the shells on this machine                               *)
  Ports,       (* the ports they try                                       *)
  Candidates   (* number of backend commands                               *)

ASSUME DesktopAssumption == Ports \subseteq Nat /\ Candidates \in Nat

VARIABLES
  main,    (* main[s]: where the shell's main thread is                    *)
  port,    (* port[s]: the port it picked, 0 before                        *)
  cand,    (* cand[s]: the candidate it is at                              *)
  child,   (* child[s]: the candidate whose handle it holds, 0 for none    *)
  waiter,  (* waiter[s]: the thread that waits, which may hold the mutex   *)
  watch,   (* watch[s]: the thread that watches                            *)
  page,    (* page[s]: what the window shows                               *)
  proc     (* proc[<<s, c>>]: shell s's candidate c as a process           *)

threads == <<waiter, watch, page>>
vars == <<main, port, cand, child, threads, proc>>

Procs == Shells \X (1..Candidates)
Living == {"starting", "listening", "quitting"}

Init ==
  /\ main = [s \in Shells |-> "pick"] /\ port = [s \in Shells |-> 0]
  /\ cand = [s \in Shells |-> 1] /\ child = [s \in Shells |-> 0]
  /\ waiter = [s \in Shells |-> "off"] /\ watch = [s \in Shells |-> "off"]
  /\ page = [s \in Shells |-> "none"]
  /\ proc = [p \in Procs |-> "none"]

At(s, where) == main[s] = where
Goto(s, where) == main' = [main EXCEPT ![s] = where]
Mine(s) == <<s, child[s]>>
ListensAt(p, n) == proc[p] \in {"listening", "quitting"} /\ port[p[1]] = n
Answers(n) == \E p \in Procs : ListensAt(p, n)

-----------------------------------------------------------------------------
(* The main thread: setup.                                                 *)

(* pick_port: the first port that can be bound, and is released at once.   *)
PickPort(s) ==
  /\ At(s, "pick")
  /\ \E n \in Ports :
       /\ ~Answers(n) /\ \A m \in Ports : m < n => Answers(m)
       /\ port' = [port EXCEPT ![s] = n]
  /\ Goto(s, "spawn")
  /\ UNCHANGED <<cand, child, threads, proc>>

(* No port is free: the shell panics.                                      *)
NoPort(s) ==
  /\ At(s, "pick") /\ \A n \in Ports : Answers(n)
  /\ Goto(s, "exited")
  /\ UNCHANGED <<port, cand, child, threads, proc>>

(* The next candidate is started ...                                       *)
Spawn(s) ==
  /\ At(s, "spawn") /\ cand[s] <= Candidates
  /\ child' = [child EXCEPT ![s] = cand[s]]
  /\ proc' = [proc EXCEPT ![<<s, cand[s]>>] = "starting"]
  /\ Goto(s, "slice")
  /\ UNCHANGED <<port, cand, threads>>

(* ... or cannot be.                                                       *)
SpawnFails(s) ==
  /\ At(s, "spawn") /\ cand[s] <= Candidates
  /\ cand' = [cand EXCEPT ![s] = @ + 1]
  /\ UNCHANGED <<main, port, child, threads, proc>>

(* wait_for_backend: somebody answers on the port, so the candidate is     *)
(* kept.                                                                   *)
SliceReady(s) ==
  /\ At(s, "slice") /\ Answers(port[s])
  /\ Goto(s, "window")
  /\ UNCHANGED <<port, cand, child, threads, proc>>

\* (mutant) a candidate that does not answer in time is dropped, not killed
SliceOverForgotten(s) ==
  /\ At(s, "slice")
  /\ child' = [child EXCEPT ![s] = 0]
  /\ cand' = [cand EXCEPT ![s] = @ + 1]
  /\ Goto(s, "spawn")
  /\ UNCHANGED <<port, threads, proc>>

(* It exited early, or its time (none, when the deadline passed while it   *)
(* was started) is over: it is killed and reaped, and the next one is      *)
(* tried, also if the port begins to answer just now.                      *)
SliceOver(s) ==
  /\ At(s, "slice")
  /\ proc' = [proc EXCEPT ![Mine(s)] = "reaped"]
  /\ child' = [child EXCEPT ![s] = 0]
  /\ cand' = [cand EXCEPT ![s] = @ + 1]
  /\ Goto(s, "spawn")
  /\ UNCHANGED <<port, threads>>

(* No candidate is left, or the deadline passed while one was tried.       *)
NoBackend(s) ==
  /\ At(s, "spawn")
  /\ cand[s] > Candidates \/ \E c \in 1..Candidates : proc[<<s, c>>] = "reaped"
  /\ Goto(s, "window")
  /\ UNCHANGED <<port, cand, child, threads, proc>>

(* The window opens on the splash page, and the waiting thread starts.     *)
OpenWindow(s) ==
  /\ At(s, "window") /\ page[s] = "none"
  /\ page' = [page EXCEPT ![s] = "splash"]
  /\ waiter' = [waiter EXCEPT ![s] = "start"]
  /\ UNCHANGED <<main, port, cand, child, watch, proc>>

(* The window or its icon cannot be built: setup ends with an error, the   *)
(* shell with it, and the handle, which no exit handler can reach yet, is  *)
(* merely dropped.                                                         *)
WindowFails(s) ==
  /\ At(s, "window") /\ page[s] = "none"
  /\ page' = [page EXCEPT ![s] = "failed"]
  /\ child' = [child EXCEPT ![s] = 0]
  /\ Goto(s, "exited")
  /\ UNCHANGED <<port, cand, waiter, watch, proc>>

-----------------------------------------------------------------------------
(* The waiting and the watching thread.                                    *)

\* The mutex of the child handle: the watcher and kill_backend hold it for
\* one step each, the waiter for as long as it waits.
MutexFree(s) == waiter[s] # "waits"
Runs(s) == main[s] \notin {"pick", "exited"}

WaiterLocks(s) ==
  /\ Runs(s) /\ waiter[s] = "start"
  /\ waiter' = [waiter EXCEPT ![s] = "waits"]
  /\ UNCHANGED <<main, port, cand, child, watch, page, proc>>

(* Somebody answers: the page is loaded and the watcher starts.            *)
WaiterReady(s) ==
  /\ Runs(s) /\ waiter[s] = "waits" /\ child[s] # 0 /\ Answers(port[s])
  /\ waiter' = [waiter EXCEPT ![s] = "off"]
  /\ page' = [page EXCEPT ![s] = "ide"]
  /\ watch' = [watch EXCEPT ![s] = "on"]
  /\ UNCHANGED <<main, port, cand, child, proc>>

\* (mutant) the wait has no deadline: only the child's exit ends it
WaiterNeverTires(s) ==
  /\ Runs(s) /\ waiter[s] = "waits"
  /\ child[s] # 0 => proc[Mine(s)] \in {"dead", "reaped"}
  /\ waiter' = [waiter EXCEPT ![s] = "off"]
  /\ proc' = IF child[s] # 0 THEN [proc EXCEPT ![Mine(s)] = "reaped"] ELSE proc
  /\ UNCHANGED <<main, port, cand, child, watch, page>>

(* There is no child, it has exited (and is reaped unless try_wait fails), *)
(* or it took too long: the splash page stays.                             *)
WaiterGivesUp(s) ==
  /\ Runs(s) /\ waiter[s] = "waits"
  /\ waiter' = [waiter EXCEPT ![s] = "off"]
  /\ \/ proc' = proc
     \/ /\ child[s] # 0 /\ proc[Mine(s)] = "dead"
        /\ proc' = [proc EXCEPT ![Mine(s)] = "reaped"]
  /\ UNCHANGED <<main, port, cand, child, watch, page>>

\* (mutant) the watcher polls the port, not the process
WatchPort(s) ==
  /\ Runs(s) /\ watch[s] = "on" /\ MutexFree(s)
  /\ child[s] # 0 /\ ~Answers(port[s])
  /\ child' = [child EXCEPT ![s] = 0]
  /\ watch' = [watch EXCEPT ![s] = "off"]
  /\ page' = [page EXCEPT ![s] = "stopped"]
  /\ UNCHANGED <<main, port, cand, waiter, proc>>

(* The watcher finds the child dead, drops its handle and says so.         *)
Watch(s) ==
  /\ Runs(s) /\ watch[s] = "on" /\ MutexFree(s)
  /\ child[s] # 0 /\ proc[Mine(s)] \in {"dead", "reaped"}
  /\ proc' = [proc EXCEPT ![Mine(s)] = "reaped"]
  /\ child' = [child EXCEPT ![s] = 0]
  /\ watch' = [watch EXCEPT ![s] = "off"]
  /\ page' = [page EXCEPT ![s] = "stopped"]
  /\ UNCHANGED <<main, port, cand, waiter>>

(* An error of try_wait counts as an exit: the handle is dropped, whatever *)
(* became of the child.                                                    *)
WatchFails(s) ==
  /\ Runs(s) /\ watch[s] = "on" /\ MutexFree(s)
  /\ child[s] # 0
  /\ child' = [child EXCEPT ![s] = 0]
  /\ watch' = [watch EXCEPT ![s] = "lost"]
  /\ page' = [page EXCEPT ![s] = "stopped"]
  /\ UNCHANGED <<main, port, cand, waiter, proc>>

-----------------------------------------------------------------------------
(* The main thread: exit.                                                  *)

(* ExitRequested: whoever listens on the port is asked to quit ...         *)
ExitRequested(s) ==
  /\ At(s, "window") /\ page[s] # "none"
  /\ proc' = [p \in Procs |-> IF ListensAt(p, port[s]) THEN "quitting" ELSE proc[p]]
  /\ Goto(s, "kill")
  /\ UNCHANGED <<port, cand, child, threads>>

\* (mutant) only a child that still lives is waited for
KillBackendAlive(s) ==
  /\ At(s, "kill") /\ MutexFree(s)
  /\ proc' = IF child[s] # 0 /\ proc[Mine(s)] \in Living
             THEN [proc EXCEPT ![Mine(s)] = "reaped"] ELSE proc
  /\ child' = [child EXCEPT ![s] = 0]
  /\ Goto(s, "exited")
  /\ UNCHANGED <<port, cand, threads>>

(* ... and the child is killed if it still lives, and reaped; Exit repeats *)
(* that with nothing left to do.                                           *)
KillBackend(s) ==
  /\ At(s, "kill") /\ MutexFree(s)
  /\ proc' = IF child[s] # 0 THEN [proc EXCEPT ![Mine(s)] = "reaped"] ELSE proc
  /\ child' = [child EXCEPT ![s] = 0]
  /\ Goto(s, "exited")
  /\ UNCHANGED <<port, cand, threads>>

-----------------------------------------------------------------------------
(* The backends.                                                           *)

\* A server whose port is taken exits at once.
Bind(p) ==
  /\ proc[p] = "starting"
  /\ proc' = [proc EXCEPT ![p] = IF Answers(port[p[1]]) THEN "dead" ELSE "listening"]
  /\ UNCHANGED <<main, port, cand, child, threads>>

\* A server dies, of its own or because it was asked to quit.
Die(p) ==
  /\ proc[p] \in Living
  /\ proc' = [proc EXCEPT ![p] = "dead"]
  /\ UNCHANGED <<main, port, cand, child, threads>>

MainStep(s) ==
  \/ PickPort(s) \/ NoPort(s) \/ Spawn(s) \/ SpawnFails(s) \/ SliceReady(s)
  \/ SliceOver(s) \/ NoBackend(s) \/ OpenWindow(s) \/ WindowFails(s)
  \/ KillBackend(s)

WaiterStep(s) == WaiterLocks(s) \/ WaiterReady(s) \/ WaiterGivesUp(s)

Next ==
  \/ \E s \in Shells :
       MainStep(s) \/ WaiterStep(s) \/ Watch(s) \/ WatchFails(s) \/ ExitRequested(s)
  \/ \E p \in Procs : Bind(p) \/ Die(p)

(* The threads run; the user need not close the window, and a backend need *)
(* neither listen nor die.                                                 *)
Fairness ==
  \A s \in Shells : WF_vars(MainStep(s)) /\ WF_vars(WaiterStep(s)) /\ WF_vars(Watch(s))

Spec == Init /\ [][Next]_vars /\ Fairness

-----------------------------------------------------------------------------
(* Properties.                                                             *)

TypeOK ==
  /\ main \in [Shells -> {"pick", "spawn", "slice", "window", "kill", "exited"}]
  /\ port \in [Shells -> Ports \cup {0}] /\ cand \in [Shells -> 1..(Candidates + 1)]
  /\ child \in [Shells -> 0..Candidates]
  /\ waiter \in [Shells -> {"off", "start", "waits"}]
  /\ watch \in [Shells -> {"off", "on", "lost"}]
  /\ page \in [Shells -> {"none", "splash", "failed", "ide", "stopped"}]
  /\ proc \in [Procs -> {"none", "dead", "reaped"} \cup Living]

\* Two error paths drop the handle of the candidate the shell was at, which
\* then may live on unwaited for: the window cannot be built, main.rs 316 and
\* 323, or the watcher's try_wait fails, 429.
Dropped(p) ==
  (page[p[1]] = "failed" \/ watch[p[1]] = "lost") /\ p[2] = cand[p[1]]

(* A shell loses no process it started but on those two paths: a backend   *)
(* that lives is the one whose handle its shell holds, so none outlives    *)
(* its shell; and no two candidates of one shell run at once.              *)
NoOrphans ==
  \A p \in Procs :
    proc[p] \in Living => (child[p[1]] = p[2] /\ main[p[1]] # "exited") \/ Dropped(p)

(* A shell that exited leaves no zombie either: every candidate it started *)
(* was waited for, the dropped one excepted.                               *)
AllReaped ==
  \A p \in Procs : main[p[1]] = "exited" => proc[p] \in {"none", "reaped"} \/ Dropped(p)

(* What src/desktop/README.md 8-9 says of every exit: no backend lives     *)
(* when its shell has exited.  (ShellOrphan.cfg refutes it.)               *)
NeverOrphans == \A p \in Procs : proc[p] \in Living => main[p[1]] # "exited"

(* A shell whose user closes the window exits, although the waiting thread *)
(* may hold the mutex its main thread needs.                               *)
ExitCompletes == \A s \in Shells : At(s, "kill") ~> At(s, "exited")

(* A backend that dies under a shown page is reported in the title, unless *)
(* the shell exits first.                                                  *)
DeathReported ==
  \A s \in Shells :
    (page[s] = "ide" /\ child[s] # 0 /\ proc[Mine(s)] = "dead") ~>
      (page[s] = "stopped" \/ At(s, "exited"))

(* The page a shell shows is served by its own backend, on the free port   *)
(* it picked.                                                              *)
PageIsOwn ==
  \A s \in Shells, p \in Procs :
    page[s] = "ide" /\ Runs(s) /\ ListensAt(p, port[s]) => p[1] = s
=============================================================================
