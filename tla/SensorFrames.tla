----------------------------- MODULE SensorFrames -----------------------------
(***************************************************************************)
(* UART5_IRQHandler of runtime/open_core/wb_control.c: the byte-at-a-time  *)
(* parser of the smart-sensor line.  Every interrupt is one action; the    *)
(* environment is free to send any byte of Bytes or a receive error.       *)
(*                                                                         *)
(*   buf          Uart5RxBuf                                               *)
(*   cnt          Uart5RxCnt, the frame position                           *)
(*   left         s_chUart5PayloadLeft (uint8_t)                           *)
(*   lineArmed    s_chUart5LineOptionArmed                                 *)
(*   mechArmed    s_chUart5MechanicArmed                                   *)
(*   moduleArmed  s_chUart5OptionModuleArmed                               *)
(*   gray         Gray                                                     *)
(*   motion       s_chUart5DanceMotion                                     *)
(* Uart5RxFrameState is set by every sealed gray frame and never read.     *)
(***************************************************************************)
EXTENDS Integers, FiniteSets, Functions

CONSTANTS
  Bytes,        (* the bytes the line may carry              *)
  BufSize,      (* sizeof Uart5RxBuf: 64                     *)
  LinePayload,  (* payload length of a line-option frame: 17 *)
  GraySlots,    (* gray values: 5                            *)
  Noise         (* whether receive errors happen             *)

\* As comprehensions: the provers are better with bounds than with ranges.
Byte == {x \in Int : 0 <= x /\ x <= 255}

ASSUME SensorFramesAssumption ==
  /\ Bytes \subseteq Byte
  /\ BufSize \in Nat /\ LinePayload \in Nat \ {0} /\ GraySlots \in Nat
  /\ BufSize >= 3 + LinePayload
  /\ BufSize >= 3 + 2 * GraySlots
  /\ LinePayload < 256

ASSUME NoiseAssumption == Noise \in BOOLEAN

VARIABLES buf, cnt, left, lineArmed, mechArmed, moduleArmed, gray, motion

flags == <<lineArmed, mechArmed, moduleArmed>>
outputs == <<gray, motion>>
vars == <<buf, cnt, left, flags, outputs>>

Start == {170, 254}   \* 0xAA, 0xFE
Filler == 254         \* 0xFE
GrayTag == 85         \* 0x55
MechanicTag == 170    \* 0xAA
ModuleTag == {x \in Byte : x <= 63}   \* up to 0x3F
LineStart == 119      \* 'w'
LineTag == 104        \* 'h'
LineHeader == 23      \* 0x17

Init ==
  /\ buf = [i \in 0..BufSize - 1 |-> 0]
  /\ cnt = 0 /\ left = 0
  /\ lineArmed = FALSE /\ mechArmed = FALSE /\ moduleArmed = FALSE
  /\ gray = [k \in 0..GraySlots - 1 |-> 0]
  /\ motion = 0

-----------------------------------------------------------------------------
(* wb_uart5_frame_reset.                                                   *)
FrameReset ==
  /\ cnt' = 0 /\ left' = 0
  /\ lineArmed' = FALSE /\ mechArmed' = FALSE /\ moduleArmed' = FALSE

Store(b) == buf' = [buf EXCEPT ![cnt] = b] /\ cnt' = cnt + 1

(* Position 0.  Other bytes only drop the line-option arming.              *)
Idle(b) ==
  /\ cnt = 0
  /\ IF b \in Start \cup {LineStart}
     THEN /\ Store(b)
          /\ lineArmed' = IF b = LineStart THEN TRUE ELSE lineArmed
     ELSE lineArmed' = FALSE /\ UNCHANGED <<buf, cnt>>
  /\ UNCHANGED <<left, mechArmed, moduleArmed, outputs>>

(* Position 1.                                                             *)
LineOptionTag(b) ==
  /\ cnt = 1 /\ lineArmed
  /\ IF b = LineTag
     THEN Store(b) /\ UNCHANGED <<left, flags>>
     ELSE FrameReset /\ UNCHANGED buf
  /\ UNCHANGED outputs

Tag(b) ==
  /\ cnt = 1 /\ ~lineArmed
  /\ IF b \in {GrayTag, MechanicTag} \cup ModuleTag
     THEN /\ Store(b)
          /\ left' = IF b \in ModuleTag THEN b ELSE left
          /\ mechArmed' = (mechArmed \/ b = MechanicTag)
          /\ moduleArmed' = (moduleArmed \/ b \in ModuleTag)
          /\ UNCHANGED lineArmed
     ELSE FrameReset /\ UNCHANGED buf
  /\ UNCHANGED outputs

\* (mutant) the checksum byte of a mechanic frame is not counted
LeftWithoutChecksum(b) ==
  IF buf[1] = LineTag THEN LinePayload
  ELSE IF buf[1] \in ModuleTag /\ b = Filler THEN left + 1
  ELSE IF buf[1] \in ModuleTag THEN left
  ELSE b

\* The payload counter the header byte leaves behind.
LeftAfterHeader(b) ==
  IF buf[1] = LineTag THEN LinePayload
  ELSE IF buf[1] = MechanicTag THEN (b + 1) % 256
  ELSE IF buf[1] = GrayTag THEN b
  ELSE IF b = Filler THEN left + 1
  ELSE left

(* Position 2.                                                             *)
Header(b) ==
  /\ cnt = 2
  /\ IF lineArmed /\ b # LineHeader
     THEN FrameReset /\ UNCHANGED buf
     ELSE Store(b) /\ left' = LeftAfterHeader(b) /\ UNCHANGED flags
  /\ UNCHANGED outputs

\* (mutant) fillers of an option module are counted
PayloadFillersCount(b) ==
  /\ cnt >= 3 /\ left > 0
  /\ IF cnt >= BufSize
     THEN FrameReset /\ UNCHANGED buf
     ELSE Store(b) /\ left' = left - 1 /\ UNCHANGED flags
  /\ UNCHANGED outputs

\* (mutant) the overflow guard is off by one
PayloadLateGuard(b) ==
  /\ cnt >= 3 /\ left > 0
  /\ IF cnt > BufSize
     THEN FrameReset /\ UNCHANGED buf
     ELSE /\ Store(b)
          /\ left' = IF buf[1] \in ModuleTag /\ b = Filler THEN left ELSE left - 1
          /\ UNCHANGED flags
  /\ UNCHANGED outputs

(* Positions from 3 on, with payload to come.                              *)
Payload(b) ==
  /\ cnt >= 3 /\ left > 0
  /\ IF cnt >= BufSize
     THEN FrameReset /\ UNCHANGED buf
     ELSE /\ Store(b)
          /\ left' = IF buf[1] \in ModuleTag /\ b = Filler THEN left ELSE left - 1
          /\ UNCHANGED flags
  /\ UNCHANGED outputs

-----------------------------------------------------------------------------
(* The seal: the byte that arrives with no payload to come is dropped.     *)

Sealing == cnt >= 3 /\ left = 0

ByteSum(s) == FoldFunction(LAMBDA x, y : x + y, 0, s)

SumOf(first, last) ==
  ByteSum([i \in 1..(last - first + 1) |-> buf[first + i - 1]]) % 256

\* The values a gray frame refreshes; the byte pairs come from the buffer.
SealGray ==
  /\ Sealing /\ buf[1] = GrayTag
  /\ gray' = [k \in 0..GraySlots - 1 |->
                IF k < (buf[2] + 1) \div 2
                THEN buf[3 + 2 * k] + 256 * buf[4 + 2 * k]
                ELSE gray[k]]
  /\ cnt' = 0
  /\ UNCHANGED <<buf, left, flags, motion>>

LineVerified == 255 - SumOf(2, LinePayload + 1) = buf[LinePayload + 2]

\* (mutant) the motion is taken before the sum is checked
SealLineUnchecked ==
  /\ Sealing /\ buf[1] = LineTag
  /\ motion' = buf[3]
  /\ lineArmed' = FALSE
  /\ cnt' = 0
  /\ UNCHANGED <<buf, left, mechArmed, moduleArmed, gray>>

\* (mutant) a verified frame leaves the line-option mode armed
SealLineStaysArmed ==
  /\ Sealing /\ buf[1] = LineTag
  /\ IF LineVerified
     THEN /\ motion' = buf[3]
          /\ cnt' = 0
          /\ UNCHANGED <<left, flags>>
     ELSE FrameReset /\ UNCHANGED motion
  /\ UNCHANGED <<buf, gray>>

SealLine ==
  /\ Sealing /\ buf[1] = LineTag
  /\ IF LineVerified
     THEN /\ motion' = buf[3]
          /\ lineArmed' = FALSE
          /\ cnt' = 0
          /\ UNCHANGED <<left, mechArmed, moduleArmed>>
     ELSE FrameReset /\ UNCHANGED motion
  /\ UNCHANGED <<buf, gray>>

(* The sum and its place follow from the header byte.  A header that       *)
(* points past the buffer makes the comparison read memory the model does  *)
(* not have: both outcomes are possible.                                   *)
MechanicVerified ==
  LET len == buf[2]
  IN IF 3 + len < BufSize
     THEN {buf[3 + len] = (256 - SumOf(3, 2 + len)) % 256}
     ELSE BOOLEAN

SealMechanic ==
  /\ Sealing /\ buf[1] = MechanicTag
  /\ \E verified \in MechanicVerified :
       IF verified THEN cnt' = 0 /\ UNCHANGED <<left, flags>> ELSE FrameReset
  /\ UNCHANGED <<buf, outputs>>

SealModule ==
  /\ Sealing /\ buf[1] \in ModuleTag
  /\ cnt' = 0
  /\ UNCHANGED <<buf, left, flags, outputs>>

(* An interrupt without the receive flag (overrun, noise).                 *)
ReceiveError == Noise /\ FrameReset /\ UNCHANGED <<buf, outputs>>

Receive(b) ==
  Idle(b) \/ LineOptionTag(b) \/ Tag(b) \/ Header(b) \/ Payload(b)

Next ==
  \/ \E b \in Bytes : Receive(b)
  \/ SealGray \/ SealLine \/ SealMechanic \/ SealModule
  \/ ReceiveError

Spec == Init /\ [][Next]_vars

-----------------------------------------------------------------------------
(* Properties.                                                             *)

(* The types; cnt never leaves the buffer (rule 6's overflow guard).       *)
TypeOK ==
  /\ buf \in [0..BufSize - 1 -> Byte]
  /\ cnt \in 0..BufSize
  /\ left \in Byte
  /\ lineArmed \in BOOLEAN /\ mechArmed \in BOOLEAN /\ moduleArmed \in BOOLEAN
  /\ gray \in [0..GraySlots - 1 -> Nat]
  /\ motion \in Byte

(* The line-option mode is armed exactly while a frame that began with 'w' *)
(* is being received, whatever errors, resets and seals came before; a     *)
(* stale arming would make the next gray frame be thrown away.             *)
ModeAgrees ==
  /\ lineArmed <=> (cnt > 0 /\ buf[0] = LineStart)
  /\ cnt > 1 => (lineArmed <=> buf[1] = LineTag)

\* The last position of the buffer the handler reads when it seals a frame.
LastRead ==
  IF buf[1] = LineTag THEN LinePayload + 2
  ELSE IF buf[1] = MechanicTag THEN 3 + buf[2]
  ELSE IF buf[1] = GrayTag /\ buf[2] < 2 * GraySlots
       THEN 2 + 2 * ((buf[2] + 1) \div 2)
  ELSE IF buf[1] = GrayTag THEN 2 + 2 * GraySlots
  ELSE 2

(* A seal reads bytes received for its own frame, with two exceptions the  *)
(* header byte alone decides: a gray frame of an odd number of bytes also  *)
(* reads the one byte behind them, which an earlier frame left in the      *)
(* buffer; and the mechanic header 0xFF makes the 8-bit counter wrap, so   *)
(* that the next byte seals a frame without payload and the sum runs over  *)
(* old bytes and past the buffer.                                          *)
SealReadsFrame ==
  Sealing =>
    \/ LastRead < cnt
    \/ buf[1] = GrayTag /\ buf[2] % 2 = 1 /\ LastRead = cnt /\ cnt < BufSize
    \/ buf[1] = MechanicTag /\ buf[2] = 255 /\ cnt = 3

(* Without the exceptions: what PROTOCOL.md leads one to expect.           *)
SealWithinFrame == Sealing => LastRead < cnt

\* A gray frame carries whole values, a mechanic frame less than 255 bytes.
RegularHeader ==
  cnt >= 3 =>
    /\ buf[1] = GrayTag => buf[2] % 2 = 0
    /\ buf[1] = MechanicTag => buf[2] # 255

(* The parser recognises the grammar of PROTOCOL.md: its counters and      *)
(* flags never accept, reject, cut or extend a frame that the bytes        *)
(* themselves do not.  The steps of a frame with one of the two irregular  *)
(* headers are left out; those of every frame before and after it are not, *)
(* so it leaves nothing behind that later frames would notice.             *)
Grammar == INSTANCE SensorGrammar WITH frame <- [i \in 1..cnt |-> buf[i - 1]]

FollowsGrammar ==
  /\ Grammar!Init
  /\ [][RegularHeader /\ RegularHeader' => Grammar!Next]_(Grammar!gvars)

(* The same for every header.                                              *)
AlwaysFollowsGrammar == Grammar!Spec

=============================================================================
