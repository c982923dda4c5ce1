# Verification of whale-instructor

whale-instructor programs an STM32 robot controller from Blocks, Python or C. This
directory holds TLA+ models of the parts of it in which several things happen at once,
the TLC configurations that check them on small instances, and TLAPS proofs of what
holds for every instance. Paths below are relative to `whale_instructor/`; `wb_*.c` is in
`runtime/open_core/`, the rest of the firmware in `runtime/user_api/`.

## The system

| part | state it keeps | operations | interacts with | hard part | correct when |
|---|---|---|---|---|---|
| closed motor loop (`wb_control.c`) | per channel: command, ramped goal, integral, stall windows and flags, bridge registers | `set_motor`; the 100 Hz TIM6 tick (stall check, ramp, PI) | user tasks, encoders | tasks preempted inside `set_motor` by the tick and by each other | a stopped motor is released, a stalled one is cut and capped, a commanded one reaches its goal |
| smart-sensor line (`wb_control.c`) | 64-byte frame buffer, position, 8-bit payload counter, three mode flags, gray values | one interrupt per byte or receive error | gray readers, sensor modules | four frame types on one line, any byte may be lost | exactly the documented frames take effect, no byte lands outside the buffer |
| live runtime (`static/js/whale_ble.js`, `static/app.js`) | stop flag, write queue, request mutex, one waiter, request ids, sensor cache | begin, stop, commands, sensor reads, poll tick, notification, disconnect | page buttons, generated programs, the controller | every `await` is an interleaving; answers late, lost, or of another request | a stop takes effect, an answer goes to its own request, no read hangs |
| IDE jobs (`serve_ide.py`, `static/app.js`) | job records, DEVICE_LOCK, the polled job | build, upload, probe, stop, debug read and motor, log poll | compiler and uploader processes, the controller | threads between any two statements, a job that dies | direct accesses are serialized, the page learns each job's outcome |
| I2C bus guard (`wb_bsp.c`) | one byte of busy bits | setIicMutex, clrIicMutex, transfers | tasks, displays, sensors | unprotected read-modify-write of the shared byte | one transfer per bus, no bus busy for ever |
| emulated EEPROM (`wb_control.c`, flash driver) | one flash page; the flash controller's control register and PGERR bit | ReadEEPROM, WriteEEPROM, program selection at start | tasks, patrol, debug stop | copy, erase and rewrite against other tasks and resets | a slot holds what was written to it or is blank, a lone write changes one slot or nothing |
| servo bus (`wb_control.c`) | DMA buffers, reported states | send, receive with timeout, register access | tasks, servos | no lock; a late reply | a reply goes to its own request |
| supervisor tick (`wb_control.c`) | tick counters, key, battery and auto-off counters, Bluetooth receive buffer | SysTick, USART2, key scan | everything that waits | counters that are never reset | powers off only when idle or empty |
| angle moves (`wb_control.c`) | encoder positions | motor_angle, daulMotor_angle | motor loop | busy waits on positions the tick moves | a move ends |
| speech player (`wb_audio.c`) | player state, two buffers, DMA, timer | PlaySpeech | key clicks, tasks | static state without a lock; a flag polled against a DMA channel | the blocks of a phrase are played once, in order; the player is idle between phrases |
| byte queue (`wb_queue.c`) | ring indexes, peek cursor | enqueue, dequeue, peek | none inside the repository | the peek cursor after a reset | a FIFO with look-ahead |
| patrol (`patrol.c`) | where the line was (flag, flag2, js), thresholds | patrol_follow, road, junction, time, turn and sensor moves, calibration | sensors, motors, EEPROM | branches on history many ticks old | a lost line is looked for where it went, a crossing is seen by both outer sensors |
| uploader (`whale_cli.py`) | sequence number and counter per session | probe, motor, sensor read, stop_all, upload | HID device, IDE jobs | reports reach every open session; acknowledgements late, lost or of an earlier session | a reported success is one |
| desktop shell (`src/desktop/`) | child handle under a mutex, port, window | pick port, spawn, wait, watch, exit | serve_ide, other shells | three threads and a process that may die at any time | no backend is lost or left behind but on two error paths, exit completes |
| transpilers (`py2c.py`, `whalepy.js`) | none between calls | Python to C and JavaScript | IDE, live runtime | two implementations | same programs, same meaning |
| editors, blocks, translations; build and packaging scripts; vendored FreeRTOS, drivers, CMSIS | | | | no logic of their own to model here | |

The tasks of a program have equal priority and are time-sliced by FreeRTOS; interrupts
preempt them. Page code runs one callback at a time. The server has a thread per request
and per job.

## Modules

| module | models | composed with |
|---|---|---|
| `MotorLoop` | `set_motor`, `set_motor_new`, `Stall_Check`, `Goal_Ramp`, `Speed_PID`, `ClrPID`, `TIM6_IRQHandler` | |
| `MotorLoopProofs` | theorems about it | extends `MotorLoop` |
| `SensorFrames` | `UART5_IRQHandler`, `wb_uart5_frame_reset` | refines `SensorGrammar` |
| `SensorGrammar` | abstract specification: the frame grammar of `runtime/open_core/PROTOCOL.md` | |
| `SensorFramesProofs` | theorems about the parser | extends `SensorFrames` |
| `BleLive` | the `whale` object, `doRunLive`, `debugMotor`, stop and disconnect hooks | |
| `BleLiveProofs` | theorems about it | extends `BleLive` |
| `UsbLink` | `whale_cli.Controller`'s sessions, the controller as their peer | |
| `UsbLinkProofs` | theorems about it | extends `UsbLink` |
| `Eeprom` | `ReadEEPROM`, `WriteEEPROM`, the flash driver's calls, `init_program_space` | |
| `Speech` | `PlaySpeech` and what it calls, DMA, timer and DAC | |
| `Board` | tasks that write slots, speak and read the key; key scan, debug stop | extends `Eeprom`, instantiates `Speech` |
| `BoardProofs` | theorems about `Eeprom` and `Speech`; that the board implements both, and what follows | extends `Board` |
| `Patrol` | `patrol_follow` and the moves built on it | |
| `PatrolProofs` | theorems about it | extends `Patrol` |
| `DesktopShell` | `main.rs` | |
| `DesktopProofs` | theorems about it | extends `DesktopShell` |
| `IdeJobs` | `Job`, `start_job`, the job targets, `/api/log`, `/api/debug/*`, `startPolling` | |
| `IdeJobsProofs` | theorems about it | extends `IdeJobs` |
| `MC...` | instances of the above for TLC | extend them |

Operators marked `(mutant)` are wrong variants of the definition that follows them, each
the way a plausible bug would make it. They are not part of the specification; with the
definition replaced by its mutant TLC finds the property that is listed with it in
`PROJECT.json` violated.

### MotorLoop

A channel is a record of the source's per-motor array slots. A task is a program counter
over the statements of `set_motor` that touch shared state: each of the nine labels is a
place where the tick or another task may come in between; the two arming blocks run with
interrupts off and are one action each. `Tick` is the whole interrupt: the encoder samples,
then stall check, ramp and PI as functions on channels, in the order of the four loops.
Goals keep their int16 width; C division truncates.

Left out because nothing reads them: the derivative history (gain 0), `s_chStallAction`,
and the direction table, which is never written.

### SensorFrames and SensorGrammar

One interrupt is one action, chosen by the frame position as in the `switch`. The counter
is 8 bits wide. The line may carry any byte of `Bytes` at any time, and with `Noise` a
receive error may come at any time. `SensorGrammar` has neither counters nor flags: its
state is the frame so far, and from the frame alone it says what may follow, when it is complete and what it
changes. The refinement maps the first `cnt` bytes of the buffer to the frame. Without
noise it is strict: the parser may neither drop a frame the grammar continues nor the
reverse. With noise both may abandon a frame at any time. How bytes are summed is a parameter
of the grammar, `ByteSum`, which the parser's own sum is given for: that both sum the same
bytes is part of the refinement, what the sum of them is is not.
`Uart5RxFrameState` is written and never read, so it is left out. A checksum that reads
past the buffer may come out either way. `LastRead` is the last position a seal reads.

### BleLive

An action is the code from one `await` to the next. The write queue, the request mutex
with the round trip of its holder, the waiter and the unclaimed frames are explicit, and so
is the link: a write is acknowledged or fails, an answer arrives later or never, the link
drops and comes back. A click on Run begins at once or waits for the server's transpiler,
which may fail. `stranger` marks an answer taken by a round trip that did not ask for
it. `halted`, `haltLost` and `moving` are history that the properties need; `halted` ends
with a command that is let through although the stop flag is set, which the debug tab does.
Programs are one task that may command a motor, read a sensor or return at each step, in
any order.

Abstracted: sensor values and the cache (a fresh hit changes nothing), reassembly of frames
from chunks, the cap of 50 unclaimed frames, the wrap of the 8-bit id (a bound keeps ids
below it), debug-tab sensor streams, more than one task per program.

### IdeJobs

A job's place says which statement its thread is at; a subprocess is one place in which it
may print lines. `Job.finish` is two steps, a log answer four reads, a debug request a
check and then a lock, because the code has no lock around them. `Die` is an exception that
the target does not catch. The page starts jobs, polls one, ignores jobs that start
meanwhile, and follows a good build with the pending upload. A failed log request makes it
give up. The result a job carries, file endpoints and `/api/quit` are left out.

### UsbLink

A session is one `Controller` from open to close: an upload, a motor stop, a sensor read or
a probe. Its frames go one after the other: `Send` writes one, `Take` reads a report and
accepts, skips or rejects it as the code of that kind of session does, `Timeout` gives up
at any moment the code may. `Frame(h, k)` is the k-th frame of a session with the fields
an answer is compared with; sequence numbers start anew in each session and wrap at `Wrap`
(256), and `BlockOf` is the block split of `upload`. A motor echo's checksum, an
acknowledgement's block and a sensor answer's counter are not looked at, as in the code.
The controller takes frames in order, answers late, with a bad checksum or not at all, and
its reports reach every session that is open. `image`, `stored` and `stopped` are what it
has made of the frames. A report's field `of` is history, the frame it answers; no session
looks at it. Only one upload or stop runs at a time (`upload_job_running`);
reads and probes overlap with it. The sessions are the IDE's: a `whale_cli.py` started by hand
opens the device without that test.

### Eeprom

`WriteEEPROM` is modelled access by access: a task copies the page slot by slot, unlocks,
clears the flags, erases (PER set, STRT, PER cleared), programs each half-word (PG set,
value written, PG cleared) and locks. FLASH_CR is changed by a `Load` into a register and a
store of it, with other tasks in between, so that bits they changed are lost: an erase may
be started without PER, PG may stay set. The rest of the controller is shared too: keys
written while it is open may leave it dead until the next reset, a half-word that is not
blank sets PGERR, and an operation that finds PGERR set does nothing. What the manual
leaves open (an erase with PG beside PER, a half-word with PER set) may happen or not.
`Reset` is the chip's reset at any moment; the page survives, and `init_program_space`
reads the number of the program that runs next. The index is one of the slots: the code
does not test it (`wb_control.c:1284`), and what a store past the array does is not
defined. `want` is history: the page as it was and as a lone write should leave it, and
whether the write found the controller fit.

### Speech

A task in `PlaySpeech` is at one of the statements that touch shared state; the machine
state, the two buffers, the length of the last fill, the DMA channel, its flag, the timer
and the underrun bit are the variables of the code or the hardware. `dac_dma_init` is two
steps, the clear of the underrun flag and the enable of the channel; a channel that another
task enabled in between keeps its registers or takes the new ones. Blocks are named by
their number in the file; 0 is a valid file without data, `Rejected` a number without one.
`heard` records what the speaker makes of it. `lone` marks a phrase that no other call
overlaps.

### Board

Extends `Eeprom`, instantiates `Speech`, and adds the key. Tasks are in one call at a time.
`GetCh` is two statements and a click. `DebugStop` is the supervisor tick that finds key 1:
it resets both parts at once. `MCBoard` splits its instance into three kinds of program, see
the bounds.

### Patrol

Readings are percentages of the calibration, chosen freely at every tick, since the track
is unknown. `PatrolFollow` is one call of `patrol_follow`: outer latch, the ladder for the
centred, left, right and lost cases, and the drive it commands. The moves are stages of
`op`; a junction move keeps the code's two marks with their start values -6000 and -5000,
which never-seen outer sensors leave as they are. `js` saturates at `Cap` as in the code;
the clock stops at `EndOfTime` (a bound). `since` and `blind` are history.
Left out: the truncation of scaled speeds, division by a zero threshold when the EEPROM is
blank, and calibration.

### DesktopShell

A shell has a main thread (setup, then exit), a thread that waits for the backend, holding
the mutex of the child handle while it does, and the watcher it starts. A backend process
listens when the port is free for it, and dies at any time, of itself or asked to quit.
Deadlines may pass at any moment, also when the port begins to answer just then. Several
shells share the ports, so that readiness and the request to quit may concern another
shell's backend. Two error paths drop the child's handle, which neither kills nor reaps it:
`WindowFails` (`main.rs:316`, `323`: setup fails after the backend was started) and
`WatchFails` (`429`: an error of `try_wait` counts as an exit). `Dropped` names the
processes this concerns. `kill` and `wait` are taken to do what they say.

## Runs

Every run explores its whole state space (a few minutes at most).

| run | instance | shows |
|---|---|---|
| `motor_loop` | 2 tasks, 1 channel, speeds -50, 0, 50 | types, ParkedReleased, StalledGoalCut, HoldBeforeStall, StallCapped |
| `motor_ramp` | 1 task, 1 channel, fair | RampBounded, GoalReached |
| `motor_dropped` | the same | CommandRuns is violated |
| `sensor` | 6 bytes with 255 among them, buffer of 5, no noise | types, SealReadsFrame, refinement of the grammar |
| `sensor_line` | 6 bytes, noise, 2 payload bytes in a line-option frame | ModeAgrees, refinement of the grammar |
| `live` | 1 program, 5 request ids, 2 waiting polls, server transpiler, debug tab, fair | types, WaiterOwned, AnswerMatches, HaltTakesEffect, ReadEnds, StopEnds |
| `ide` | 2 jobs, jobs may die, fair | types, DirectSerialized, VerdictFinal, NoLineTwice, PollEnds |
| `usb` | 3 sessions, images of 0 and 6 packets, wrap at 4, 2 motor ports | UploadHonest, StopHonest, BlocksSeqAligned |
| `board` | 2 tasks that write 2 slots, or that speak files of 0, 1 and 3 blocks, or one of each and the key | types, NoForeignValue, LoneWriteLands, BootsSelected, LoneInOrder, LoneAlmostWhole, QuietIsIdle |
| `speech_whole` | 1 caller, files of 1 to 3 blocks | LoneWhole is violated |
| `patrol` | 4 readings per inner sensor, hold 2, cap 4 | LatchFresh, LostTurnsBack, CrossIsBoth |
| `shell` | 2 shells, 1 port, 2 candidates, fair | NoOrphans, AllReaped, ExitCompletes, DeathReported |

Why the bounds are enough:

- *Motor.* Channels share nothing, so one channel is the general case; two tasks give every
  race between two calls, and the proofs cover any number. A goal of 32 with a ramp of 32
  and a floor of 5 has few values but reaches, overshoots, reverses and is cut; the
  encoder reports no movement or 30 counts, so stalls come and go. The grace windows are a
  few ticks instead of 50 and 100, with the code's order RecoverTicks <= Grace <=
  GraceReversal kept. In `motor_loop` tasks are symmetric; liveness runs use no symmetry.
- *Sensor.* Five buffer bytes hold a line-option frame with payload and checksum and a gray
  frame with one value, and longer declared lengths overflow. The alphabets contain every
  start, tag and header byte of the frame types of the run, the header 255 that wraps the
  counter and odd gray lengths and, for sums, payloads that are right and wrong.
- *Live.* Five ids allow a retried read beside polls and further requests.
  Two waiting polls are enough for a poll behind a read behind a poll.
- *IDE.* Two jobs give a build and its upload, two jobs for one lock, and a job that starts
  while another is polled. `MaxLines` bounds the output of a subprocess.
- *USB.* A wrap at 4 makes six packets cross the first block and a whole later one; the
  sessions are an upload, an upload or a stop, and a read, probe or stop, so that a session
  that gave up leaves a frame to the one that follows and to one that overlaps.
- *Board.* Two slots are the one that is written and one that must survive; the value 770
  is not a program number before the range test. A file of three blocks is the shortest
  with a refill while a block plays and one that waits; 0 is a file without data, 1 one that
  is played whole. The EEPROM and the player share no variable, so the product of all their
  states shows nothing that its parts do not: a run has two writers, or two speakers
  without the key (a reset would only cut the run short), or a writer beside a speaker that
  reads the key. `BoardSpec` itself, without that split, is what the proofs are about.
- *Patrol.* The four readings lie on the different sides of the ladder's thresholds; a
  window of 2 ticks lets a latch be renewed, carried and dropped. The ladder's arithmetic is
  the same for every window, and the proofs hold for any.
- *Shell.* Two shells race for one port, or come one after the other, or the second finds
  none; two candidates are one that fails and a next one.

Deadlock is not checked in `ide` (jobs are used up and the user may do nothing more), `usb`
(sessions are used once), `board` (a dead flash controller or a speech call that waits for
ever may leave nothing but a key press) and `shell` (shells exit); in the others it is.

**Fairness.** `MotorLoop`: the tick, because TIM6 is a free-running timer, and each task
inside a call, because the kernel time-slices tasks of one priority; nobody has to call.
`BleLive`: the event loop runs tasks, settled promises and timers, and the browser
acknowledges or rejects a write. Clicks, the poll timer and the controller's answers are
not owed. `IdeJobs`: the operating system runs threads, a subprocess ends, the page's tick
repeats. Weak fairness is enough for a probe that waits for the lock: it is itself an
unfinished job, and while there is one no debug request is let in. Clicks are not owed.
`DesktopShell`: the three threads run; nobody has to close the window, and a backend need
neither listen nor die.

## What the violated properties show

- `speech_whole`: state 4 of the player ends a phrase as soon as nothing is left to read
  (`wb_audio.c:409`). The block read last has been prefilled and is never armed, so a phrase
  of two or more blocks loses it, where the comments say that the short last chunk is played
  (`wb_audio.c:320`) and that the second buffer waits for a pass of state 4 (`:352`).
- `motor_dropped`: a command that follows a stop within the 25-tick recovery hold is stored
  and not armed. When the hold ends nothing arms it: the motor stays off (`wb_control.c:278`).

Further configurations that TLC refutes, kept to reproduce them (`tlc -config X.cfg M`):

| configuration, module | property | what happens |
|---|---|---|
| `SensorHeader.cfg`, `MCSensorFrames` | SealWithinFrame | the mechanic header 0xFF makes the payload counter `header + 1` wrap to 0; the next byte seals the frame and the checksum covers bytes never received (`wb_control.c:1197`), where PROTOCOL.md says that overlong declared lengths reset the parser |
| `LiveDebug.cfg`, `MCBleLive` | StoppedSendsNothing | a motor driven from the debug tab leaves `_debugging` set until the tab is left; a program started from there goes on sending commands after Stop (`whale_ble.js:315`) |
| `IdeDevice.cfg`, `MCIdeJobs` | UploadAlone | the check for unfinished jobs and the lock of a debug request are separate, and motor stops and probes do not look for uploads, so they reach the controller during one (`serve_ide.py:394`) |
| `UsbPace.cfg`, `MCUsbLink` | OneFrameEach | a late acknowledgement of an upload that gave up lets the next one send its first packet while its begin frame is still unanswered; `whale_cli.py:53` says that each acknowledgement is waited for |
| `UsbRetry.cfg`, `MCUsbLink` | UploadHonest | an upload of n packets is tried n + 3 times while the controller hangs. Each try finds the acknowledgements of the tries before it, known by their number only (`whale_cli.py:350`), and gets one frame further ahead, so that the last reports success for the image of an earlier one |
| `ShellForeign.cfg`, `DesktopShell` | PageIsOwn | two shells that start together pick the same port; one backend exits, and its shell takes the other's for its own and asks it to quit when it closes |
| `ShellOrphan.cfg`, `DesktopShell` | NeverOrphans | the window cannot be built after the backend was started; setup ends with the handle dropped, and the backend lives on (`main.rs:323`), where `src/desktop/README.md:8` says that the child is killed on exit if it is still alive |
| `SpeechEnds.cfg`, `Speech` | SpeechEnds | the timer sets the underrun flag between its clear and the enable of the channel, and `PlaySpeech` waits for ever for the block (`wb_audio.c:154`); a file without data does the same |
| `MotorStop.cfg`, `MCMotorLoop` | StopClearsStall | the stall check of the tick right after a stop flags the parked channel, and the next command does not ramp |
| `MotorRampRace.cfg`, `MCMotorLoop` | RampBounded | with two tasks a stale stall test flips a full goal at once |
| `SensorOdd.cfg`, `MCSensorFrames` | AlwaysFollowsGrammar | a gray frame of odd length takes half a value from the last frame; PROTOCOL.md says both that it does and that only fully carried values change |
| `LiveStale.cfg`, `MCBleLive` | AnswerMatches | `begin` restarts the ids, so a late answer of the last program is taken |
| `LiveDouble.cfg`, `MCBleLive` | ShowsStop | two clicks while the server transpiles start two programs; the first to end shows Run |
| `IdeBusy.cfg`, `MCIdeJobs` | BusyMeansRunning | a job that dies of an exception counts as running for ever |

These hold: `UsbTypes.cfg` (`MCUsbLink`) and `PatrolTypes.cfg` (`Patrol`), the type invariants of
the two; `ShellPorts.cfg` (`DesktopShell`), the properties of `shell` with a second port;
`LiveTwo.cfg` (`MCBleLive`), WaiterOwned with two programs and the debug tab;
`Speech.cfg` (`Speech`), the player alone with two callers and files of 0, 1 and 4 blocks.

## Proofs

`MotorLoopProofs`, for any tasks, channels, speeds and encoder counts, from
`MotorLoopAssumption` (integers, and RecoverTicks <= Grace <= GraceReversal):

- `TypeCorrect`, `ParkedIsReleased`, `StalledIsCut`, `HoldIsOver`, `StallIsCapped` are the
  properties of the `motor_loop` run.
- They follow from one inductive invariant. The hold is over when a stall is flagged, but a
  command may reopen the window while the hold counts; *HoldFits* says that window and hold
  never exceed RecoverTicks together, which the reset of the window only helps. A parked
  channel is released, but not at once; *ReleasePending* names, for each bridge register,
  the label the stopping task has still to pass. The passes of the tick have a lemma each
  (`StallCheckInv`, `GoalRampInv`, `SpeedPIDInv`); `TickedInv` chains them.
- `RampIsBounded` is the property of the `motor_ramp` run, as long as no two calls of
  `set_motor` are under way on one channel (*Alone*); `OneTaskRamps` is its case of a single
  task. The hypothesis cannot be dropped: `MotorRampRace.cfg`. A call tests the stall flag in
  one step and swings the goal in a later one, with ticks between them. *SwingInv* says that
  the goal it then finds is within the floor or already has the command's direction: the
  test found it cut, and every tick since (`TickedGoal`) has moved it to the command.

`SensorFramesProofs`, for any byte stream and any buffer that holds a line-option frame and
the gray values, from `SensorFramesAssumption`:

- `TypeCorrect` (no store outside the buffer, no wrap below zero), `ModeFollowsFrame`, and
  `SealIsWithinFrame`: a seal reads bytes of its own frame only, but for a gray frame of an
  odd number of bytes, which reads exactly one byte more, and the mechanic header 255. There
  is no hypothesis on the bytes of the line; that the exceptions happen is shown by
  `SensorOdd.cfg` and `SensorHeader.cfg`.
- The invariant adds how the counter follows from the tag and the header byte: *Counters*
  (payload received and to come make up the declared length), *LeftSmall* (before the
  header) and *TagKnown*.
- `RecognisesGrammar`: the parser implements `SensorGrammar`, noise or not, on every line.
  The steps of a frame whose header is not regular (an odd gray length, the mechanic header
  255: *RegularHeader*) are left out, and only those: frames before and after it are read as
  the grammar says. Both exceptions are real: `SensorOdd.cfg`, `SensorHeader.cfg`. *GrammarInv*
  relates counter and flags to
  the frame: what is in the buffer is a frame the grammar can have received, and the payload
  it counts in it, with what is still to come, is what the frame declares. There is a lemma
  for each position at which a byte arrives (`TagRefines`, `HeaderRefines`, `PayloadRefines`)
  and one for the seals (`SealRefines`).

`PatrolProofs`, for any readings and any window (`PatrolAssumption`: the start marks are
further apart than the window):

- `TypeCorrect`: the drive is one of the duties the ladder and the moves command, and the
  counters stay within their caps.
- `LatchIsFresh`, `TurnsBack` and `CrossingIsBoth` are the properties of the `patrol` run.
  The first two are each inductive with a bound on `flag2`, `js` and `since`. The invariant
  of `CrossingIsBoth` says that a mark is either its start value or a time of the clock, so
  that two marks within the window cannot both be start values, nor one of them.

`BoardProofs`, first about `Eeprom`, for any tasks, page size, program slot and half-words:

- `TypeCorrect`, `NothingForeign`, `BootsWhatWasSelected`, `LoneWriteIsExact`.
- `NothingForeign` needs that the copy each task holds has only the slots' own values, even
  when the page changes under it. `LoneWriteIsExact` says that a write nobody overlaps is all
  or nothing, and nothing only if it found the controller dead or PG set; PGERR, PER and the
  page that overlaps left do it no harm. Its invariant carries the expected page
  through the stages of the write: the copy made so far, the error cleared, the page
  blank, the half-words written so far; and, for a controller that is not fit, that the page
  is the old one or the new one and nothing between them.

Then about `Speech`, which the board instantiates, for any tasks and files:

- `QuietPlayerIsIdle`: if the machine is not idle, some task is between the statement that
  left state 0 and the one that returns to it. This holds for any overlap.
- `LoneCallerInOrder`, `LoneCallerAlmostWhole`: for a lone caller, the invariant gives at
  each place which block each buffer holds, which is armed and how many were heard. The
  second is exact: all blocks of a phrase of one, all but the last of a longer one. A file
  without data never comes to its end (*Stuck*).

Last about the composition: `ImplementsEeprom` and `ImplementsPlayer` map each step of the
board to a step of the part or a stutter; the properties of the parts follow for it.

`UsbLinkProofs`, for any sessions, image sizes, ports and wrap:

- `TypeCorrect`, `StopIsHonest` and `BlocksFollowNumbers`, from *SInv*: every report a
  session holds answers some frame that was sent, and a motor echo among them means that the
  port was stopped since the session opened.
- `UploadIsHonest`: a session that reports success leaves its own image in the controller,
  provided that when it began no more frames waited in the controller than its image has
  packets and one more, nor than the wrap less two (*ShortQueue*). `UsbRetry.cfg` shows why
  that is needed. An acknowledgement carries a number only, so that a session may take one
  of an earlier upload for its own. *UInv* says how far that can lead it: the controller
  holds the last frames the session sent, in order, behind those of others; the
  acknowledgements to be read are late ones first and then its own in order; and it is ahead
  of the controller by no more frames than it has stale acknowledgements. Too few of those
  to carry it over the end of the image is what the hypothesis gives.
- `FewAreHonest`: with at most as many sessions as the smallest image has frames, and fewer
  than the wrap, the hypothesis holds by itself (*QInv*: a session leaves at most one frame
  unanswered). With 256 numbers and at least three frames for an image, that covers three
  uploads, stops, reads or probes of any kind in one life of the controller.

`DesktopProofs`, for any shells, ports and candidates: `TypeCorrect`, `NothingOrphaned`,
`EverythingReaped`, with the dropped handles of the two error paths excepted (*Dropped*).
The invariant *Handles* says where a process may be in each state of its shell: not yet
started, held by its shell, waited for, or dropped; *Late* says that a handle can only be
dropped once the window was tried, when the shell tries no further candidate, so that it is
always the last one's. `GentleKeeps` shows the rule for every step that starts no process.

`BleLiveProofs`, for any programs, number of ids and polls:

- `TypeCorrect`, `WaiterIsOwned` (a round trip that is not decided has its own id in the
  waiter; a waiter may outlive its round trip, after a failed write), `HaltsTakeEffect`
  (with motors driven from the debug tab too) and `AnswersMatch` (for one program: a second
  one restarts the ids).
- The invariant describes the write queue, the frames under way and the round trip:
  *Round* ties the waiter to the round trip's phase and id, *Halting* says that once the
  flag is set every motor command still queued comes before the halt, *Budget* bounds the
  ids. For `AnswersMatch`, *Numbered* says that a frame marked as this round trip's carries
  its id and every other frame a smaller one.

`IdeJobsProofs`, for any number of jobs and lines, whether jobs die or not:

- `TypeCorrect`, `DirectIsSerialized`, `VerdictIsFinal` and `NoLineIsShownTwice` are the
  safety properties of the `ide` run.
- The invariant says who is inside the lock (*Holders*), that a job is final once it is done
  (*Threads*), and what an answer that is being put together still tells about a job that
  moves on meanwhile (*Told*): lines read so far are at most the lines counted, and those at
  most the lines there are; a done that was read is final, and so is the verdict read after it.

Every invariant and action property of the runs, and the refinement of the sensor grammar,
is stated by one of these theorems, with the hypotheses named above where it does not hold
without. Only model-checked is liveness under fairness (GoalReached, ReadEnds, StopEnds,
PollEnds, ExitCompletes, DeathReported), which needs ENABLED and is outside the
prover's reach; and what the checksum of a line-option frame computes, which is a fold
over data. That a tick's grace windows, `Wrap`, `BufSize` and the like have the code's own
values is not used anywhere: the assumptions name the relations between them that are.

## Plan

What is left, in this order:

1. `SensorStream`: a sender of frames in front of `SensorFrames`, with lost bytes: the
   parser falls back into step within a bounded number of frames.
2. `IdeJobs` with the result of a job, composed with `UsbLink`: what the page shows as
   connected is what the probe found.
3. `Supervisor`: the counters of SysTick (auto-off, battery) and USART2's receive buffer;
   `AngleMove` on top of the motor tick.
4. `Patrol` with calibration from `Eeprom`, once a key code ends the calibration.
5. A sum of bytes with its algebra, so that it can be proved that a line-option frame one
   of whose bytes was altered changes nothing.

## Not modelled

- *I2C guard* (`wb_bsp.c`): the busy byte is tested and set, and set and cleared for other
  groups, by separate accesses of preemptible tasks. As written it excludes nobody, so that
  its properties could only be refuted. A model belongs beside a corrected guard.
- *Servo bus*: what happens depends on the order in which a half-duplex UART and its DMA
  channels raise their flags, which the repository does not say.
- *Byte queue* (`wb_queue.c`): nothing calls it.
- *Calibration* and `patrol_wait_button` wait for key code 2, which the key scan never
  publishes, so that they do not return.
- *Supervisor* apart from the debug stop and the key, and *angle moves*: planned above.
- The transpilers and editors are pure translations and user interface; the rest of board
  support is register access.
- FreeRTOS, the peripheral library and CMSIS are third-party and appear as the freedom of
  tasks and interrupts to interleave; of the library, the flash calls `WriteEEPROM` makes
  are modelled. They are nine tenths of the repository's lines.

Timing is abstracted everywhere: a timeout may come at any moment after it is armed, so
that the safety properties hold whatever the durations, and nothing is said about how long
anything takes.
