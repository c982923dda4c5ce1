--------------------------------- MODULE Speech ---------------------------------
(***************************************************************************)
(* The speech player of wb_audio.c: PlaySpeech streams a WAV file of the   *)
(* SPI flash block by block through two buffers, a one-shot DMA channel    *)
(* and the DAC paced by TIM7.                                              *)
(*                                                                         *)
(* All of its state is static and unlocked: every task that speaks runs    *)
(* the same machine.  A block is named by its number in its file; bytes,   *)
(* sample formats and rates are left out.  The DMA channel, the timer and  *)
(* the DAC's underrun flag are the hardware as the code describes it.      *)
(***************************************************************************)
EXTENDS Integers, Sequences

CONSTANTS
  Tasks,   (* the tasks that speak                                         *)
  Files    (* sizes of the files in blocks; 0 is a header without data     *)

Nobody == 0
Rejected == -1  (* a number that InitSpeech has no valid file for          *)

\* What is assumed of the constants; on the board, BoardAssumption gives it.
SpeechAssumption == Files \subseteq Nat /\ Nobody \notin Tasks

VARIABLES
  playState,  (* the machine: 0 idle, 1 init, 3 waits, 4 next block, 5 end *)
  left,       (* Length: blocks still unread                               *)
  read,       (* the file position: number of the last block read          *)
  page,       (* pageIndex, of which only the lowest bit is used           *)
  pEncode,    (* the buffer the machine points at                          *)
  hwBuff,     (* hwBuff[b]: the block buffer b holds, 0 for none           *)
  playLength, (* PlayLength: the block whose length was stored last        *)
  dma,        (* the channel: armed or not, its buffer and its length      *)
  tc,         (* its transfer-complete flag                                *)
  tim7,       (* whether the pacing timer runs                             *)
  underrun,   (* DMAUDR2: the DAC asked for a sample and nobody answered   *)
  says,       (* says[t]: where task t is in PlaySpeech, its file, and the *)
              (* arguments of its dac_dma_init                             *)
  heard,      (* history: the blocks of the lone phrase that were played   *)
  lone        (* history: the task whose phrase no other overlaps, begun   *)
              (* with no completion of an earlier overlap pending          *)

machine == <<playState, left, read, page, pEncode, hwBuff, playLength>>
hardware == <<dma, tc, tim7, underrun>>
vars == <<machine, hardware, says, heard, lone>>

Silent == [at |-> "out", file |-> 0, buf |-> 1, len |-> 0]
Inside == {"loop", "init", "fill1", "arm1", "enable1", "fill2", "started", "wait",
           "took", "next", "enable", "refill", "end"}
Idle == [on |-> FALSE, buf |-> 1, len |-> 0]

Init ==
  /\ playState = 0 /\ left = 0 /\ read = 0 /\ page = 0 /\ pEncode = 1
  /\ hwBuff = [b \in 1..2 |-> 0] /\ playLength = 0
  /\ dma = Idle /\ tc = FALSE /\ tim7 = FALSE /\ underrun = FALSE
  /\ says = [t \in Tasks |-> Silent]
  /\ heard = <<>> /\ lone = Nobody

At(t, where) == says[t].at = where
Goto(t, where) == says' = [says EXCEPT ![t].at = where]
Unheard == heard' = <<>> /\ lone' = Nobody
Quiet == \A t \in Tasks : At(t, "out")

-----------------------------------------------------------------------------
(* PlaySpeech.                                                             *)

(* A task calls it.                                                        *)
Speak(t, f) ==
  /\ At(t, "out")
  /\ says' = [says EXCEPT ![t] = [Silent EXCEPT !.at = "loop", !.file = f]]
  /\ lone' = IF Quiet /\ ~tc THEN t ELSE Nobody
  /\ heard' = <<>>
  /\ UNCHANGED <<machine, hardware>>

(* The switch, cases 0 and 1: a fresh phrase, or one being opened.         *)
SwitchInit(t) ==
  /\ At(t, "loop") /\ playState \in {0, 1}
  /\ page' = IF playState = 0 THEN 0 ELSE page
  /\ playState' = 1
  /\ Goto(t, "init")
  /\ UNCHANGED <<left, read, pEncode, hwBuff, playLength, hardware, heard, lone>>

(* Cases 3, 4 and 5.                                                       *)
SwitchOn(t) ==
  /\ At(t, "loop") /\ playState \in {3, 4, 5}
  /\ Goto(t, CASE playState = 3 -> "wait" [] playState = 4 -> "next" [] OTHER -> "end")
  /\ UNCHANGED <<machine, hardware, heard, lone>>

(* InitSpeech rejects the file: PlaySpeech returns.                        *)
Reject(t) ==
  /\ At(t, "init") /\ says[t].file = Rejected
  /\ playState' = 0
  /\ says' = [says EXCEPT ![t] = Silent]
  /\ Unheard
  /\ UNCHANGED <<left, read, page, pEncode, hwBuff, playLength, hardware>>

(* It opens the file, resets the speaker path (audio_output_init) and      *)
(* starts the timer.                                                       *)
Open(t) ==
  /\ At(t, "init") /\ says[t].file # Rejected /\ Goto(t, "fill1")
  /\ left' = says[t].file /\ read' = 0
  /\ dma' = Idle /\ tim7' = TRUE
  /\ UNCHANGED <<playState, page, pEncode, hwBuff, playLength, tc, underrun, heard, lone>>

\* get_Speech_data: the next block into buffer b; at the end of the file
\* nothing is read and the length is that of no block.
GetSpeechData(b) ==
  IF left = 0
  THEN /\ playLength' = 0
       /\ UNCHANGED <<left, read, hwBuff>>
  ELSE /\ left' = left - 1 /\ read' = read + 1
       /\ hwBuff' = [hwBuff EXCEPT ![b] = read + 1]
       /\ playLength' = read + 1

Fill1(t) ==
  /\ At(t, "fill1") /\ Goto(t, "arm1")
  /\ pEncode' = 1 /\ GetSpeechData(1)
  /\ UNCHANGED <<playState, page, hardware, heard, lone>>

\* dac_dma_init, called for the buffer b and the length of the last fill,
\* stops the channel and clears the underrun ...
Clear(t, b, where) ==
  /\ says' = [says EXCEPT ![t] = [@ EXCEPT !.at = where, !.buf = b, !.len = playLength]]
  /\ dma' = [dma EXCEPT !.on = FALSE] /\ underrun' = FALSE

\* ... and later arms the channel with what it was called for; a channel
\* another task has enabled meanwhile may keep what it has.
Enable(t, where) ==
  LET armed == [on |-> TRUE, buf |-> says[t].buf, len |-> says[t].len] IN
  /\ says' = [says EXCEPT ![t] = [Silent EXCEPT !.at = where, !.file = says[t].file]]
  /\ dma' \in IF dma.on THEN {dma, armed} ELSE {armed}
  /\ UNCHANGED <<machine, tc, tim7, underrun, heard, lone>>

Arm1(t) ==
  /\ At(t, "arm1") /\ Clear(t, pEncode, "enable1")
  /\ UNCHANGED <<machine, tc, tim7, heard, lone>>

Enable1(t) == At(t, "enable1") /\ Enable(t, "fill2")

Fill2(t) ==
  /\ At(t, "fill2") /\ Goto(t, "started")
  /\ pEncode' = 2 /\ GetSpeechData(2)
  /\ UNCHANGED <<playState, page, hardware, heard, lone>>

(* InitSpeech has returned 0.                                              *)
Started(t) ==
  /\ At(t, "started") /\ Goto(t, "wait")
  /\ playState' = 3
  /\ UNCHANGED <<left, read, page, pEncode, hwBuff, playLength, hardware, heard, lone>>

(* check_packet_convert_over: not yet, back to the switch ...              *)
NotOver(t) ==
  /\ At(t, "wait") /\ ~tc /\ Goto(t, "loop")
  /\ UNCHANGED <<machine, hardware, heard, lone>>

(* ... or it is, and the flag is cleared.                                  *)
Over(t) ==
  /\ At(t, "wait") /\ tc /\ Goto(t, "took")
  /\ UNCHANGED <<machine, hardware, heard, lone>>

TakeOver(t) ==
  /\ At(t, "took") /\ Goto(t, "next")
  /\ tc' = FALSE /\ playState' = 4
  /\ UNCHANGED <<left, read, page, pEncode, hwBuff, playLength, dma, tim7, underrun,
                 heard, lone>>

\* (mutant) the phrase ends with a block still unread
NoMoreEarly(t) ==
  /\ At(t, "next") /\ left <= 1 /\ Goto(t, "loop")
  /\ playState' = 5
  /\ UNCHANGED <<left, read, page, pEncode, hwBuff, playLength, hardware, heard, lone>>

(* State 4 with nothing left to read: the end.                             *)
NoMore(t) ==
  /\ At(t, "next") /\ left = 0 /\ Goto(t, "loop")
  /\ playState' = 5
  /\ UNCHANGED <<left, read, page, pEncode, hwBuff, playLength, hardware, heard, lone>>

\* (mutant) the buffer to refill is chosen before the other one is armed
ArmNextSwapped(t) ==
  /\ At(t, "next") /\ left # 0
  /\ page' = 1 - page
  /\ pEncode' = 2 - page'
  /\ Clear(t, pEncode', "enable")
  /\ UNCHANGED <<playState, left, read, hwBuff, playLength, tc, tim7, heard, lone>>

(* State 4: the buffer filled last is armed with the length of its fill ...*)
ArmNext(t) ==
  /\ At(t, "next") /\ left # 0
  /\ page' = 1 - page
  /\ Clear(t, pEncode, "enable")
  /\ UNCHANGED <<playState, left, read, pEncode, hwBuff, playLength, tc, tim7,
                 heard, lone>>

EnableNext(t) == At(t, "enable") /\ Enable(t, "refill")

(* ... and the other one is refilled.                                      *)
Refill(t) ==
  LET b == IF page = 1 THEN 1 ELSE 2 IN
  /\ At(t, "refill") /\ Goto(t, "loop")
  /\ pEncode' = b /\ GetSpeechData(b)
  /\ playState' = 3
  /\ UNCHANGED <<page, hardware, heard, lone>>

\* (mutant) the machine is left in its last state
EndStays(t) ==
  /\ At(t, "end") /\ Goto(t, "stop")
  /\ UNCHANGED <<machine, hardware, heard, lone>>

(* State 5: the machine is idle again before the timer is stopped.         *)
End(t) ==
  /\ At(t, "end") /\ Goto(t, "stop")
  /\ playState' = 0
  /\ UNCHANGED <<left, read, page, pEncode, hwBuff, playLength, hardware, heard, lone>>

StopSound(t) ==
  /\ At(t, "stop")
  /\ tim7' = FALSE
  /\ says' = [says EXCEPT ![t] = Silent]
  /\ Unheard
  /\ UNCHANGED <<machine, dma, tc, underrun>>

Step(t) ==
  \/ SwitchInit(t) \/ SwitchOn(t) \/ Reject(t) \/ Open(t) \/ Fill1(t) \/ Arm1(t)
  \/ Enable1(t) \/ Fill2(t) \/ Started(t) \/ NotOver(t) \/ Over(t) \/ TakeOver(t) \/ NoMore(t)
  \/ ArmNext(t) \/ EnableNext(t) \/ Refill(t) \/ End(t) \/ StopSound(t)

-----------------------------------------------------------------------------
(* The hardware.                                                           *)

(* The block is played: a timer, a channel armed for some samples and no   *)
(* underrun.  The history keeps what the speaker made of it: the block in  *)
(* the buffer, or 0 if it was played with another block's length.          *)
BlockDone ==
  /\ dma.on /\ dma.len # 0 /\ tim7 /\ ~underrun
  /\ dma' = [dma EXCEPT !.on = FALSE] /\ tc' = TRUE
  /\ heard' = IF lone = Nobody THEN heard
              ELSE Append(heard, IF dma.len = hwBuff[dma.buf] THEN dma.len ELSE 0)
  /\ UNCHANGED <<machine, tim7, underrun, says, lone>>

(* The timer asks for a sample while no channel has one.                   *)
Underrun ==
  /\ tim7 /\ ~(dma.on /\ dma.len # 0) /\ ~underrun
  /\ underrun' = TRUE
  /\ UNCHANGED <<machine, dma, tc, tim7, says, heard, lone>>

(* The chip resets.                                                        *)
Restart ==
  /\ playState' = 0 /\ left' = 0 /\ read' = 0 /\ page' = 0 /\ pEncode' = 1
  /\ hwBuff' = [b \in 1..2 |-> 0] /\ playLength' = 0
  /\ dma' = Idle /\ tc' = FALSE /\ tim7' = FALSE /\ underrun' = FALSE
  /\ says' = [t \in Tasks |-> Silent]
  /\ Unheard

Next ==
  \/ \E t \in Tasks : (\E f \in Files \cup {Rejected} : Speak(t, f)) \/ Step(t)
  \/ BlockDone \/ Underrun \/ Restart

Fairness == (\A t \in Tasks : WF_vars(Step(t))) /\ WF_vars(BlockDone)

Safe == Init /\ [][Next]_vars
Spec == Safe /\ Fairness

-----------------------------------------------------------------------------
(* Properties.                                                             *)

TypeOK ==
  /\ playState \in {0, 1, 3, 4, 5}
  /\ left \in Nat /\ read \in Nat /\ page \in 0..1 /\ pEncode \in 1..2
  /\ hwBuff \in [1..2 -> Nat] /\ playLength \in Nat
  /\ dma \in [on : BOOLEAN, buf : 1..2, len : Nat]
  /\ tc \in BOOLEAN /\ tim7 \in BOOLEAN /\ underrun \in BOOLEAN
  /\ says \in [Tasks -> [at : Inside \cup {"out", "stop"}, file : Nat \cup {Rejected},
                          buf : 1..2, len : Nat]]
  /\ heard \in Seq(Nat)

(* A phrase spoken alone is played block by block in file order, every     *)
(* block whole and once: no buffer is refilled while it plays.             *)
LoneInOrder == lone # Nobody => \A i \in 1..Len(heard) : heard[i] = i

(* When it ends, a phrase of one block has been played whole, a longer one *)
(* exactly but for its last block: state 4 ends as soon as nothing is left *)
(* to read (wb_audio.c:409), and the block read last is never armed.       *)
LoneAlmostWhole ==
  \A t \in Tasks : lone = t /\ At(t, "stop") =>
    Len(heard) = IF says[t].file = 1 THEN 1 ELSE says[t].file - 1

(* What the comments of wb_audio.c say of the last block: it may be short, *)
(* and DMA plays its samples (:320-324); the buffer filled ahead waits for *)
(* a pass of state 4, which arms it (:353, :384-385).                      *)
LoneWhole ==
  \A t \in Tasks : lone = t /\ At(t, "stop") => Len(heard) = says[t].file

(* However callers overlap, a player nobody is in is idle: the next phrase *)
(* starts with its own file and not in the middle of another one.          *)
QuietIsIdle == Quiet => playState = 0

(* Every call of PlaySpeech returns, or the chip resets.  Not so: a file   *)
(* without data arms a length of zero, and a timer event between the clear *)
(* and the enable of dac_dma_init stalls the block.                        *)
SpeechEnds == \A t \in Tasks : ~At(t, "out") ~> At(t, "out")
=============================================================================
