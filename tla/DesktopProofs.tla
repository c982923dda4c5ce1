----------------------------- MODULE DesktopProofs -----------------------------
(***************************************************************************)
(* The desktop shell cleans up after itself on a machine with any number   *)
(* of shells, ports and backend candidates.                                *)
(*                                                                         *)
(* The strengthening is the shell's rule for its one handle: a process     *)
(* that was not waited for is the one the handle is for, unless the handle *)
(* was dropped; there is no handle while nothing was started or all is     *)
(* over, and a handle is for the candidate the shell is at.  Because a     *)
(* handle can only be dropped late, that candidate is then the last one.   *)
(***************************************************************************)
EXTENDS DesktopShell, TLAPS

USE DesktopAssumption

Pending == Living \cup {"dead"}

(* The handle of each shell.                                               *)
Handles ==
  /\ \A s \in Shells, c \in 1..Candidates :
       proc[<<s, c>>] \in Pending => child[s] = c \/ Dropped(<<s, c>>)
  /\ \A s \in Shells : main[s] \in {"pick", "spawn", "exited"} => child[s] = 0
  /\ \A s \in Shells : main[s] = "slice" => cand[s] \in 1..Candidates
  /\ \A s \in Shells : child[s] # 0 => child[s] = cand[s]

(* Where its threads are: none runs before the window, and the watcher     *)
(* starts when the waiter is done.                                         *)
Late ==
  /\ \A s \in Shells : main[s] \in {"pick", "spawn", "slice"} =>
       waiter[s] = "off" /\ watch[s] = "off" /\ page[s] = "none"
  /\ \A s \in Shells : page[s] = "failed" => main[s] = "exited"
  /\ \A s \in Shells : page[s] = "none" \/ watch[s] # "off" => waiter[s] = "off"
  /\ \A s \in Shells : page[s] = "none" => watch[s] = "off"

IInv == TypeOK /\ Handles /\ Late

LEMMA Initially == Init => IInv
  BY DEF Init, IInv, TypeOK, Handles, Late, Procs, Pending, Living

ProcTypes == {"none", "dead", "reaped"} \cup Living

(* What a step that starts no process may do: nothing becomes pending, a   *)
(* handle that goes leaves no pending process or a dropped one, and what   *)
(* was dropped stays so.                                                   *)
Gentle ==
  /\ \A p \in Procs : proc'[p] \in Pending => proc[p] \in Pending
  /\ \A s \in Shells : child'[s] = child[s] \/
       /\ child'[s] = 0
       /\ \/ child[s] = 0
          \/ proc'[<<s, child[s]>>] \notin Pending
          \/ /\ cand'[s] = cand[s]
             /\ page'[s] = "failed" \/ watch'[s] = "lost"
  /\ \A s \in Shells :
       cand'[s] = cand[s] \/ (main[s] \in {"spawn", "slice"} /\ child'[s] = 0)
  /\ \A s \in Shells : page[s] = "failed" \/ watch[s] = "lost"
                        => page'[s] = "failed" \/ watch'[s] = "lost"

(* Such a step keeps what the handles are for.                             *)
LEMMA GentleKeeps ==
  ASSUME IInv, Gentle
  PROVE  /\ \A s \in Shells, c \in 1..Candidates :
              proc'[<<s, c>>] \in Pending => child'[s] = c \/ Dropped(<<s, c>>)'
         /\ \A s \in Shells : child'[s] # 0 => child'[s] = cand'[s]
<1>1. ASSUME NEW s \in Shells, child'[s] # 0 PROVE child'[s] = cand'[s]
  <2>1. child'[s] = child[s] /\ cand'[s] = cand[s]
    BY <1>1 DEF Gentle
  <2> QED BY <1>1, <2>1 DEF IInv, Handles
<1>2. ASSUME NEW s \in Shells, NEW c \in 1..Candidates, proc'[<<s, c>>] \in Pending,
             child'[s] # c
      PROVE  Dropped(<<s, c>>)'
  <2>1. <<s, c>> \in Procs
    BY DEF Procs
  <2>2. child[s] = c \/ Dropped(<<s, c>>)
    BY <1>2, <2>1 DEF Gentle, IInv, Handles
  <2>3. CASE child[s] = c
    <3>1. cand'[s] = cand[s] /\ (page'[s] = "failed" \/ watch'[s] = "lost")
      BY <1>2, <2>3 DEF Gentle
    <3>2. c = cand[s]
      BY <2>3 DEF IInv, Handles
    <3> QED BY <3>1, <3>2 DEF Dropped
  <2>4. CASE Dropped(<<s, c>>)
    <3>1. (page[s] = "failed" \/ watch[s] = "lost") /\ c = cand[s]
      BY <2>4 DEF Dropped
    <3>2. main[s] \notin {"spawn", "slice"}
      BY <3>1 DEF IInv, Late
    <3>3. cand'[s] = cand[s] /\ (page'[s] = "failed" \/ watch'[s] = "lost")
      BY <3>1, <3>2 DEF Gentle
    <3> QED BY <3>1, <3>3 DEF Dropped
  <2> QED BY <2>2, <2>3, <2>4
<1> QED BY <1>1, <1>2

(* The process of the handle, if there is one, is reaped.                  *)
LEMMA Reaped ==
  ASSUME IInv, NEW s \in Shells, proc' = [proc EXCEPT ![Mine(s)] = "reaped"]
  PROVE  /\ proc' \in [Procs -> ProcTypes]
         /\ \A p \in Procs : proc'[p] \in Pending => proc[p] \in Pending
         /\ child[s] # 0 => proc'[<<s, child[s]>>] \notin Pending
<1>1. proc \in [Procs -> ProcTypes]
  BY DEF IInv, TypeOK, ProcTypes
<1>2. \A p \in Procs : proc'[p] = IF p = <<s, child[s]>> THEN "reaped" ELSE proc[p]
  BY <1>1 DEF Mine
<1>3. "reaped" \notin Pending /\ "reaped" \in ProcTypes
  BY DEF Pending, Living, ProcTypes
<1>4. child[s] # 0 => <<s, child[s]>> \in Procs
  BY DEF IInv, TypeOK, Procs
<1>5. proc' \in [Procs -> ProcTypes]
  BY <1>1, <1>3
<1> QED BY <1>2, <1>3, <1>4, <1>5

(* Setup, before the window.                                               *)
LEMMA SetupKeeps ==
  ASSUME IInv, NEW s \in Shells,
         PickPort(s) \/ NoPort(s) \/ SpawnFails(s) \/ SliceReady(s) \/ NoBackend(s)
  PROVE  IInv'
<1> USE DEF At, threads
<1>0. TypeOK /\ Handles /\ Late
  BY DEF IInv
<1>1. TypeOK'
  BY <1>0 DEF PickPort, NoPort, SpawnFails, SliceReady, NoBackend, Goto, TypeOK
<1>2. UNCHANGED <<child, waiter, watch, page, proc>>
  BY DEF PickPort, NoPort, SpawnFails, SliceReady, NoBackend
<1>3. \A r \in Shells : cand'[r] = cand[r] \/ (main[r] = "spawn" /\ child'[r] = 0)
  BY <1>0, <1>2 DEF PickPort, NoPort, SpawnFails, SliceReady, NoBackend, TypeOK, Handles
<1>4. Gentle
  BY <1>2, <1>3 DEF Gentle
<1>5. Late'
  BY <1>0, <1>2 DEF PickPort, NoPort, SpawnFails, SliceReady, NoBackend, Goto, TypeOK, Late
<1>6. \A r \in Shells : main'[r] \in {"pick", "spawn", "exited"} => child'[r] = 0
  BY <1>0, <1>2 DEF PickPort, NoPort, SpawnFails, SliceReady, NoBackend, Goto, TypeOK, Handles
<1>7. \A r \in Shells : main'[r] = "slice" => cand'[r] \in 1..Candidates
  BY <1>0, <1>2 DEF PickPort, NoPort, SpawnFails, SliceReady, NoBackend, Goto, TypeOK, Handles
<1>8. Handles'
  BY <1>4, <1>6, <1>7, GentleKeeps DEF Handles
<1> QED BY <1>1, <1>5, <1>8 DEF IInv

LEMMA SpawnKeeps ==
  ASSUME IInv, NEW s \in Shells, Spawn(s)
  PROVE  IInv'
<1> USE DEF At, threads
<1>0. TypeOK /\ Handles /\ Late
  BY DEF IInv
<1>1. cand[s] \in 1..Candidates /\ child[s] = 0
  BY <1>0 DEF Spawn, TypeOK, Handles
<1>2. TypeOK'
  BY <1>0, <1>1 DEF Spawn, Goto, TypeOK, Procs, Living
<1>3. \A p \in Procs : proc'[p] = IF p = <<s, cand[s]>> THEN "starting" ELSE proc[p]
  BY <1>0 DEF Spawn, TypeOK
<1>4. \A r \in Shells : child'[r] = IF r = s THEN cand[s] ELSE child[r]
  BY <1>0 DEF Spawn, TypeOK
<1>5. \A c \in 1..Candidates : proc[<<s, c>>] \notin Pending
  BY <1>0, <1>1 DEF Handles, Late, Dropped, Spawn
<1>6. UNCHANGED <<port, cand, waiter, watch, page>>
  BY DEF Spawn
<1>7. \A r \in Shells, c \in 1..Candidates : Dropped(<<r, c>>)' <=> Dropped(<<r, c>>)
  BY <1>6 DEF Dropped
<1>8. ASSUME NEW r \in Shells, NEW c \in 1..Candidates, proc'[<<r, c>>] \in Pending
      PROVE  child'[r] = c \/ Dropped(<<r, c>>)'
  <2>1. <<r, c>> \in Procs
    BY DEF Procs
  <2>2. CASE r = s
    BY <1>3, <1>4, <1>5, <1>8, <2>1, <2>2
  <2>3. CASE r # s
    <3>1. proc[<<r, c>>] \in Pending
      BY <1>3, <1>8, <2>1, <2>3
    <3> QED BY <1>0, <1>4, <1>7, <2>3, <3>1 DEF Handles
  <2> QED BY <2>2, <2>3
<1>9. \A r \in Shells : main'[r] \in {"pick", "spawn", "exited"} => child'[r] = 0
  BY <1>0, <1>4 DEF Spawn, Goto, TypeOK, Handles
<1>10. \A r \in Shells : main'[r] = "slice" => cand'[r] \in 1..Candidates
  BY <1>0, <1>1, <1>6 DEF Spawn, Goto, TypeOK, Handles
<1>11. \A r \in Shells : child'[r] # 0 => child'[r] = cand'[r]
  BY <1>0, <1>4, <1>6 DEF Handles
<1>12. Late'
  BY <1>0, <1>6 DEF Spawn, Goto, TypeOK, Late
<1> QED BY <1>2, <1>8, <1>9, <1>10, <1>11, <1>12 DEF IInv, Handles

(* A candidate is given up, or the child is taken down at exit.            *)
LEMMA KillKeeps ==
  ASSUME IInv, NEW s \in Shells, SliceOver(s) \/ KillBackend(s)
  PROVE  IInv'
<1> USE DEF At, threads
<1>0. TypeOK /\ Handles /\ Late
  BY DEF IInv
<1>1. child' = [child EXCEPT ![s] = 0] /\ UNCHANGED <<port, waiter, watch, page>>
  BY DEF SliceOver, KillBackend
<1>2. \A r \in Shells : child'[r] = IF r = s THEN 0 ELSE child[r]
  BY <1>0, <1>1 DEF TypeOK
<1>3. /\ proc' \in [Procs -> ProcTypes]
      /\ \A p \in Procs : proc'[p] \in Pending => proc[p] \in Pending
      /\ child[s] # 0 => proc'[<<s, child[s]>>] \notin Pending
  <2>1. CASE proc' = proc /\ child[s] = 0
    BY <1>0, <2>1 DEF TypeOK, ProcTypes
  <2>2. CASE proc' = [proc EXCEPT ![Mine(s)] = "reaped"]
    BY <2>2, Reaped
  <2> QED BY <2>1, <2>2 DEF SliceOver, KillBackend
<1>4. /\ cand' \in [Shells -> 1..(Candidates + 1)]
      /\ \A r \in Shells : cand'[r] = cand[r] \/ (r = s /\ main[s] = "slice")
  <2>1. CASE SliceOver(s)
    <3>1. cand[s] \in 1..Candidates /\ cand' = [cand EXCEPT ![s] = cand[s] + 1]
      BY <1>0, <2>1 DEF SliceOver, Handles
    <3> QED BY <1>0, <2>1, <3>1 DEF TypeOK, SliceOver
  <2>2. CASE KillBackend(s)
    BY <1>0, <2>2 DEF KillBackend, TypeOK
  <2> QED BY <2>1, <2>2
<1>5. /\ main' \in [Shells -> {"pick", "spawn", "slice", "window", "kill", "exited"}]
      /\ \A r \in Shells \ {s} : main'[r] = main[r]
      /\ \/ main[s] = "slice" /\ main'[s] = "spawn"
         \/ main[s] = "kill" /\ main'[s] = "exited"
  BY <1>0 DEF SliceOver, KillBackend, Goto, TypeOK
<1>6. TypeOK'
  <2>1. child' \in [Shells -> 0..Candidates]
    BY <1>0, <1>1 DEF TypeOK
  <2> QED BY <1>0, <1>1, <1>3, <1>4, <1>5, <2>1 DEF TypeOK, ProcTypes
<1>7. Gentle
  BY <1>1, <1>2, <1>3, <1>4 DEF Gentle
<1>8. \A r \in Shells : main'[r] \in {"pick", "spawn", "exited"} => child'[r] = 0
  BY <1>0, <1>2, <1>5 DEF Handles
<1>9. \A r \in Shells : main'[r] = "slice" => cand'[r] \in 1..Candidates
  BY <1>0, <1>4, <1>5 DEF Handles
<1>10. Late'
  BY <1>0, <1>1, <1>5 DEF Late
<1>11. Handles'
  BY <1>7, <1>8, <1>9, GentleKeeps DEF Handles
<1> QED BY <1>6, <1>10, <1>11 DEF IInv

(* The window opens or fails to, and its user closes it.                   *)
LEMMA WindowKeeps ==
  ASSUME IInv, NEW s \in Shells, OpenWindow(s) \/ WindowFails(s) \/ ExitRequested(s)
  PROVE  IInv'
<1> USE DEF At, threads
<1>0. TypeOK /\ Handles /\ Late
  BY DEF IInv
<1>1. /\ proc' \in [Procs -> ProcTypes]
      /\ \A p \in Procs : proc'[p] \in Pending => proc[p] \in Pending
  BY <1>0 DEF OpenWindow, WindowFails, ExitRequested, ListensAt, TypeOK, ProcTypes, Living,
     Pending
<1>2. UNCHANGED <<port, cand, watch>> /\ main[s] = "window"
  BY DEF OpenWindow, WindowFails, ExitRequested
<1>3. \A r \in Shells : child'[r] = child[r] \/ (child'[r] = 0 /\ page'[r] = "failed")
  BY <1>0 DEF OpenWindow, WindowFails, ExitRequested, TypeOK
<1>4. \A r \in Shells : page[r] = "failed" => page'[r] = "failed"
  BY <1>0 DEF OpenWindow, WindowFails, ExitRequested, TypeOK
<1>5. TypeOK'
  <2>1. UNCHANGED <<port, cand, watch>>
    BY <1>2
  <2>2. /\ main' \in [Shells -> {"pick", "spawn", "slice", "window", "kill", "exited"}]
        /\ child' \in [Shells -> 0..Candidates]
        /\ waiter' \in [Shells -> {"off", "start", "waits"}]
        /\ page' \in [Shells -> {"none", "splash", "failed", "ide", "stopped"}]
    BY <1>0 DEF OpenWindow, WindowFails, ExitRequested, Goto, TypeOK
  <2> QED BY <1>0, <1>1, <2>1, <2>2 DEF TypeOK, ProcTypes
<1>6. Gentle
  BY <1>1, <1>2, <1>3, <1>4 DEF Gentle
<1>7. \A r \in Shells : main'[r] \in {"pick", "spawn", "exited"} => child'[r] = 0
  BY <1>0 DEF OpenWindow, WindowFails, ExitRequested, Goto, TypeOK, Handles
<1>8. \A r \in Shells : main'[r] = "slice" => cand'[r] \in 1..Candidates
  BY <1>0, <1>2 DEF OpenWindow, WindowFails, ExitRequested, Goto, TypeOK, Handles
<1>9. Late'
  BY <1>0 DEF OpenWindow, WindowFails, ExitRequested, Goto, TypeOK, Late
<1>10. Handles'
  BY <1>6, <1>7, <1>8, GentleKeeps DEF Handles
<1> QED BY <1>5, <1>9, <1>10 DEF IInv

(* The waiter and the watcher.                                             *)
LEMMA ThreadsKeep ==
  ASSUME IInv, NEW s \in Shells, WaiterStep(s) \/ Watch(s) \/ WatchFails(s)
  PROVE  IInv'
<1> USE DEF WaiterStep
<1>0. TypeOK /\ Handles /\ Late
  BY DEF IInv
<1>1. UNCHANGED <<main, port, cand>>
  BY DEF WaiterLocks, WaiterReady, WaiterGivesUp, Watch, WatchFails
<1>2. /\ proc' \in [Procs -> ProcTypes]
      /\ \A p \in Procs : proc'[p] \in Pending => proc[p] \in Pending
      /\ Watch(s) => proc'[<<s, child[s]>>] \notin Pending
  <2>1. CASE proc' = proc /\ ~Watch(s)
    BY <1>0, <2>1 DEF TypeOK, ProcTypes
  <2>2. CASE proc' = [proc EXCEPT ![Mine(s)] = "reaped"]
    BY <2>2, Reaped DEF Watch
  <2>3. proc' = proc \/ proc' = [proc EXCEPT ![Mine(s)] = "reaped"]
    BY DEF WaiterLocks, WaiterReady, WaiterGivesUp, Watch, WatchFails
  <2>4. Watch(s) => proc' = [proc EXCEPT ![Mine(s)] = "reaped"]
    BY DEF Watch
  <2> QED BY <2>1, <2>2, <2>3, <2>4
<1>3. /\ child' \in [Shells -> 0..Candidates]
      /\ waiter' \in [Shells -> {"off", "start", "waits"}]
      /\ watch' \in [Shells -> {"off", "on", "lost"}]
      /\ page' \in [Shells -> {"none", "splash", "failed", "ide", "stopped"}]
  BY <1>0 DEF WaiterLocks, WaiterReady, WaiterGivesUp, Watch, WatchFails, TypeOK
<1>4. TypeOK'
  BY <1>0, <1>1, <1>2, <1>3 DEF TypeOK, ProcTypes
<1>5. \A r \in Shells : child'[r] = child[r] \/
        /\ child'[r] = 0
        /\ proc'[<<r, child[r]>>] \notin Pending \/ watch'[r] = "lost"
  <2>1. CASE WaiterStep(s)
    BY <2>1 DEF WaiterLocks, WaiterReady, WaiterGivesUp
  <2>2. CASE Watch(s)
    BY <1>0, <1>2, <2>2 DEF Watch, TypeOK
  <2>3. CASE WatchFails(s)
    BY <1>0, <2>3 DEF WatchFails, TypeOK
  <2> QED BY <2>1, <2>2, <2>3
<1>6. Runs(s) /\ (waiter[s] # "off" \/ watch[s] = "on")
  BY DEF WaiterLocks, WaiterReady, WaiterGivesUp, Watch, WatchFails
<1>7. watch[s] # "lost" /\ page[s] # "failed" /\ page[s] # "none"
  BY <1>0, <1>6 DEF Late, Runs
<1>8. \A r \in Shells \ {s} : page'[r] = page[r] /\ watch'[r] = watch[r] /\ waiter'[r] = waiter[r]
  BY <1>0 DEF WaiterLocks, WaiterReady, WaiterGivesUp, Watch, WatchFails, TypeOK
<1>9. Gentle
  BY <1>1, <1>2, <1>5, <1>7, <1>8 DEF Gentle
<1>10. page'[s] \notin {"none", "failed"} /\ (watch'[s] # "off" => waiter'[s] = "off")
  BY <1>0, <1>7 DEF WaiterLocks, WaiterReady, WaiterGivesUp, Watch, WatchFails, TypeOK, Late
<1>11. Late'
  BY <1>0, <1>1, <1>6, <1>7, <1>8, <1>10 DEF Late
<1>12. \A r \in Shells : main'[r] \in {"pick", "spawn", "exited"} => child'[r] = 0
  BY <1>0, <1>1, <1>5 DEF Handles
<1>13. Handles'
  BY <1>0, <1>1, <1>9, <1>12, GentleKeeps DEF Handles
<1> QED BY <1>4, <1>11, <1>13 DEF IInv

LEMMA BackendsKeep ==
  ASSUME IInv, NEW p \in Procs, Bind(p) \/ Die(p)
  PROVE  IInv'
<1>1. UNCHANGED <<main, port, cand, child, waiter, watch, page>>
  BY DEF Bind, Die, threads
<1>2. /\ proc' \in [Procs -> ProcTypes]
      /\ \A q \in Procs : proc'[q] \in Pending => proc[q] \in Pending
  BY DEF IInv, TypeOK, Bind, Die, Living, Pending, ProcTypes
<1>3. TypeOK'
  BY <1>1, <1>2 DEF IInv, TypeOK, ProcTypes
<1>4. Gentle
  BY <1>1, <1>2 DEF Gentle
<1>5. Handles'
  BY <1>1, <1>4, GentleKeeps DEF IInv, Handles
<1>6. Late'
  BY <1>1 DEF IInv, Late
<1> QED BY <1>3, <1>5, <1>6 DEF IInv

LEMMA NextKeeps == IInv /\ [Next]_vars => IInv'
<1> SUFFICES ASSUME IInv, [Next]_vars PROVE IInv'
  OBVIOUS
<1>1. ASSUME NEW s \in Shells, MainStep(s) \/ ExitRequested(s) PROVE IInv'
  BY <1>1, SetupKeeps, SpawnKeeps, KillKeeps, WindowKeeps DEF MainStep
<1>2. ASSUME NEW s \in Shells, WaiterStep(s) \/ Watch(s) \/ WatchFails(s) PROVE IInv'
  BY <1>2, ThreadsKeep
<1>3. ASSUME NEW p \in Procs, Bind(p) \/ Die(p) PROVE IInv'
  BY <1>3, BackendsKeep
<1>4. CASE UNCHANGED vars
  BY <1>4 DEF IInv, TypeOK, Handles, Late, Dropped, vars, threads
<1> QED BY <1>1, <1>2, <1>3, <1>4 DEF Next

LEMMA Invariance == Spec => []IInv
  BY Initially, NextKeeps, PTL DEF Spec

(* The shell's variables keep their types: in particular it never goes     *)
(* past the list of backend candidates, main.rs 168.                       *)
THEOREM TypeCorrect == Spec => []TypeOK
<1>1. IInv => TypeOK
  BY DEF IInv
<1> QED BY <1>1, Invariance, PTL

(* A living backend is the one whose handle its shell holds, and none      *)
(* outlives its shell, unless the handle was dropped where the window      *)
(* failed (main.rs 316, 323) or the watcher's try_wait did (429).          *)
THEOREM NothingOrphaned == Spec => []NoOrphans
<1>1. IInv => NoOrphans
  <2> SUFFICES ASSUME IInv, NEW p \in Procs, proc[p] \in Living, ~Dropped(p)
               PROVE  child[p[1]] = p[2] /\ main[p[1]] # "exited"
    BY DEF NoOrphans
  <2>1. PICK s \in Shells, c \in 1..Candidates : p = <<s, c>>
    BY DEF Procs
  <2> QED BY <2>1 DEF IInv, Handles, Pending
<1> QED BY <1>1, Invariance, PTL

(* A shell that exited has waited for every backend it started, but for    *)
(* the one whose handle it dropped on one of those two paths.              *)
THEOREM EverythingReaped == Spec => []AllReaped
<1>1. IInv => AllReaped
  <2> SUFFICES ASSUME IInv, NEW p \in Procs, main[p[1]] = "exited", ~Dropped(p)
               PROVE  proc[p] \in {"none", "reaped"}
    BY DEF AllReaped
  <2>1. PICK s \in Shells, c \in 1..Candidates : p = <<s, c>>
    BY DEF Procs
  <2>2. proc[p] \notin Pending
    BY <2>1 DEF IInv, Handles
  <2>3. proc[p] \in {"none", "dead", "reaped"} \cup Living
    BY DEF IInv, TypeOK
  <2> QED BY <2>2, <2>3 DEF Pending
<1> QED BY <1>1, Invariance, PTL
=============================================================================
