-------------------------- MODULE SensorFramesProofs --------------------------
(***************************************************************************)
(* The sensor-line parser keeps its invariants for every buffer size,      *)
(* payload length and byte alphabet.                                       *)
(*                                                                         *)
(* None of the three properties is inductive alone.  The strengthening     *)
(* says how the payload counter follows from the tag and the header byte   *)
(* in the buffer, which is what the grammar computes and the code carries  *)
(* along in left.  The last part uses it to show that the parser is a      *)
(* refinement of SensorGrammar.                                            *)
(***************************************************************************)
EXTENDS SensorFrames, Sequences, FiniteSetTheorems, TLAPS

USE DEF Byte, Start, Filler, GrayTag, MechanicTag, ModuleTag, LineStart,
        LineTag, LineHeader

\* Past position 1 the tag is one of the four the code advances on.
TagKnown == cnt >= 2 => buf[1] \in {GrayTag, MechanicTag, LineTag} \cup ModuleTag

\* Before the header the counter is zero, or the tag of an option module.
LeftSmall ==
  /\ cnt < 2 => left = 0
  /\ cnt = 2 => left \in ModuleTag

\* The header byte came over the line.
HeaderReceived == cnt >= 3 => buf[2] \in Bytes

\* Payload received and payload to come add up to what the header declared.
Counters ==
  cnt >= 3 =>
    /\ buf[1] = LineTag => cnt - 3 + left = LinePayload
    /\ buf[1] = GrayTag => cnt - 3 + left = buf[2]
    /\ buf[1] = MechanicTag /\ buf[2] # 255 => cnt - 3 + left = buf[2] + 1
    /\ buf[1] = MechanicTag /\ buf[2] = 255 => cnt = 3 /\ left = 0

IInv == TypeOK /\ ModeAgrees /\ TagKnown /\ LeftSmall /\ HeaderReceived /\ Counters

USE DEF IInv, TypeOK, ModeAgrees, TagKnown, LeftSmall, HeaderReceived, Counters

(* At position 0 with the line-option mode off, only the types matter.      *)
LEMMA IdleStateInv ==
  ASSUME cnt' = 0, left' = 0, lineArmed' = FALSE, TypeOK'
  PROVE  IInv'
<1>1. ~lineArmed' /\ ~(cnt' > 0) /\ ~(cnt' > 1)
  OBVIOUS
<1>2. ModeAgrees'
  BY <1>1, Zenon
<1>3. TagKnown' /\ LeftSmall' /\ HeaderReceived' /\ Counters'
  OBVIOUS
<1> HIDE DEF TypeOK, ModeAgrees, TagKnown, LeftSmall, HeaderReceived, Counters
<1> QED BY <1>2, <1>3

(* A full reset establishes the invariant whatever the parser was doing.   *)
LEMMA ResetInv ==
  ASSUME TypeOK, FrameReset, UNCHANGED <<buf, outputs>>
  PROVE  IInv'
<1>1. 0 \in 0..BufSize /\ 0 \in Byte
  BY SensorFramesAssumption
<1>2. TypeOK'
  BY <1>1, Zenon DEF FrameReset, outputs
<1> QED BY <1>2, IdleStateInv DEF FrameReset

(* Sealing a verified frame, with the line-option mode off.                *)
LEMMA SealInv ==
  ASSUME IInv, Sealing, cnt' = 0, lineArmed' = FALSE,
         UNCHANGED <<buf, left, mechArmed, moduleArmed>>,
         gray' \in [0..GraySlots - 1 -> Nat], motion' \in Byte
  PROVE  IInv'
<1>1. 0 \in 0..BufSize
  BY SensorFramesAssumption
<1>2. TypeOK'
  BY <1>1, Zenon
<1> QED BY <1>2, IdleStateInv DEF Sealing

LEMMA IdleInv == ASSUME IInv, NEW b \in Bytes, Idle(b) PROVE IInv'
<1>1. CASE b \in Start \cup {LineStart}
  <2>0. cnt = 0 /\ Store(b) /\ UNCHANGED <<left, mechArmed, moduleArmed, outputs>>
    BY <1>1, Zenon DEF Idle
  <2>1. /\ b \in Byte /\ cnt = 0 /\ cnt' = 1 /\ buf' = [buf EXCEPT ![0] = b]
        /\ left = 0 /\ UNCHANGED <<left, mechArmed, moduleArmed, gray, motion>>
    BY <2>0, SensorFramesAssumption DEF Store, outputs
  <2>2. buf' \in [0..BufSize - 1 -> Byte] /\ buf'[0] = b
    BY <2>1, SensorFramesAssumption
  <2>3. ~lineArmed
    BY <2>1
  <2>4. (lineArmed' <=> b = LineStart) /\ lineArmed' \in BOOLEAN
    <3>1. CASE b = LineStart BY <1>1, <2>3, <3>1, Zenon DEF Idle
    <3>2. CASE b # LineStart
      <4>1. lineArmed' = IF b = LineStart THEN TRUE ELSE lineArmed
        BY <1>1, Zenon DEF Idle
      <4>2. lineArmed' = lineArmed
        BY <3>2, <4>1, Zenon
      <4> QED BY <2>3, <3>2, <4>2, Zenon
    <3> QED BY <3>1, <3>2
  <2>5. 1 \in 0..BufSize
    BY SensorFramesAssumption
  <2>6. TypeOK'
    BY <2>1, <2>2, <2>4, <2>5, Zenon
  <2>9. (cnt' > 0) /\ ~(cnt' > 1)
    BY <2>1
  <2>7. ModeAgrees'
    BY <2>9, <2>2, <2>4, Zenon
  <2>8. TagKnown' /\ LeftSmall' /\ HeaderReceived' /\ Counters'
    BY <2>1
  <2> HIDE DEF TypeOK, ModeAgrees, TagKnown, LeftSmall, HeaderReceived, Counters
  <2> QED BY <2>6, <2>7, <2>8
<1>2. CASE b \notin Start \cup {LineStart}
  <2>1. /\ cnt' = cnt /\ buf' = buf /\ left' = left /\ UNCHANGED outputs
        /\ lineArmed' = FALSE /\ UNCHANGED <<mechArmed, moduleArmed>>
    BY <1>2 DEF Idle
  <2>2. TypeOK'
    BY <2>1, Zenon DEF outputs
  <2>3. cnt' = 0 /\ left' = 0
    BY <1>2, <2>1 DEF Idle
  <2> QED BY <2>1, <2>2, <2>3, IdleStateInv
<1> QED BY <1>1, <1>2

(* Position 1 to 2: the tag and the line-option mode agree.                *)
LEMMA TagStoredInv ==
  ASSUME IInv, NEW b \in Byte, cnt = 1, cnt' = 2, buf' = [buf EXCEPT ![1] = b],
         b \in {GrayTag, MechanicTag, LineTag} \cup ModuleTag,
         lineArmed <=> b = LineTag, lineArmed' = lineArmed,
         left' \in ModuleTag, mechArmed' \in BOOLEAN, moduleArmed' \in BOOLEAN,
         UNCHANGED <<gray, motion>>
  PROVE  IInv'
<1>1. buf' \in [0..BufSize - 1 -> Byte] /\ buf'[0] = buf[0] /\ buf'[1] = b
  BY SensorFramesAssumption
<1>2. 2 \in 0..BufSize /\ left' \in Byte
  BY SensorFramesAssumption
<1>3. TypeOK'
  BY <1>1, <1>2, Zenon
<1>4. ModeAgrees'
  BY <1>1
<1>5. TagKnown' /\ LeftSmall' /\ HeaderReceived' /\ Counters'
  BY <1>1
<1> HIDE DEF TypeOK, ModeAgrees, TagKnown, LeftSmall, HeaderReceived, Counters
<1> QED BY <1>3, <1>4, <1>5

LEMMA LineOptionTagInv == ASSUME IInv, NEW b \in Bytes, LineOptionTag(b) PROVE IInv'
<1>1. CASE b = LineTag
  <2>1. /\ b \in Byte /\ cnt = 1 /\ cnt' = 2 /\ buf' = [buf EXCEPT ![1] = b]
        /\ lineArmed /\ left = 0 /\ UNCHANGED <<left, flags, outputs>>
    BY <1>1, SensorFramesAssumption DEF LineOptionTag, Store
  <2>2. lineArmed <=> b = LineTag
    BY <1>1, <2>1, Zenon
  <2>3. b \in {GrayTag, MechanicTag, LineTag} \cup ModuleTag /\ left' \in ModuleTag
    BY <1>1, <2>1
  <2>4. mechArmed' \in BOOLEAN /\ moduleArmed' \in BOOLEAN
    BY <2>1, Zenon DEF flags
  <2> HIDE DEF TypeOK, ModeAgrees, TagKnown, LeftSmall, HeaderReceived, Counters, IInv
  <2>5. lineArmed' = lineArmed /\ UNCHANGED <<gray, motion>>
    BY <2>1, Zenon DEF flags, outputs
  <2>6. /\ b \in Byte /\ cnt = 1 /\ cnt' = 2 /\ buf' = [buf EXCEPT ![1] = b]
    BY <2>1
  <2> QED BY <2>2, <2>3, <2>4, <2>5, <2>6, TagStoredInv
<1>2. CASE b # LineTag
  BY <1>2, ResetInv DEF LineOptionTag, outputs
<1> QED BY <1>1, <1>2

LEMMA TagInv == ASSUME IInv, NEW b \in Bytes, Tag(b) PROVE IInv'
<1>1. CASE b \in {GrayTag, MechanicTag} \cup ModuleTag
  <2>1. /\ b \in Byte /\ cnt = 1 /\ cnt' = 2 /\ buf' = [buf EXCEPT ![1] = b]
        /\ ~lineArmed /\ UNCHANGED <<lineArmed, outputs>>
    BY <1>1, SensorFramesAssumption DEF Tag, Store
  <2>2. left' \in ModuleTag
    BY <1>1, <2>1, SensorFramesAssumption DEF Tag
  <2>3. mechArmed' \in BOOLEAN /\ moduleArmed' \in BOOLEAN
    BY <1>1, Zenon DEF Tag
  <2>4. b \in {GrayTag, MechanicTag, LineTag} \cup ModuleTag /\ b # LineTag
    BY <1>1
  <2>5. lineArmed <=> b = LineTag
    BY <2>1, <2>4, Zenon
  <2> HIDE DEF TypeOK, ModeAgrees, TagKnown, LeftSmall, HeaderReceived, Counters, IInv
  <2> QED BY <2>1, <2>2, <2>3, <2>4, <2>5, TagStoredInv DEF outputs
<1>2. CASE b \notin {GrayTag, MechanicTag} \cup ModuleTag
  BY <1>2, ResetInv DEF Tag, outputs
<1> QED BY <1>1, <1>2

LEMMA HeaderInv == ASSUME IInv, NEW b \in Bytes, Header(b) PROVE IInv'
<1>1. CASE lineArmed /\ b # LineHeader
  BY <1>1, ResetInv DEF Header, outputs
<1>2. CASE ~(lineArmed /\ b # LineHeader)
  <2>1. b \in Byte /\ cnt = 2 /\ cnt' = 3 /\ buf' = [buf EXCEPT ![2] = b]
        /\ left' = LeftAfterHeader(b) /\ UNCHANGED <<flags, outputs>>
    BY <1>2, SensorFramesAssumption DEF Header, Store
  <2>2. /\ buf' \in [0..BufSize - 1 -> Byte]
        /\ buf'[0] = buf[0] /\ buf'[1] = buf[1] /\ buf'[2] = b
    BY <2>1, SensorFramesAssumption
  <2>3. buf[1] \in {GrayTag, MechanicTag, LineTag} \cup ModuleTag /\ left \in ModuleTag
    BY <2>1
  <2>4. LeftAfterHeader(b) \in Byte
    BY <2>1, <2>3, SensorFramesAssumption DEF LeftAfterHeader
  <2>5. Counters'
    <3>1. CASE b = 255
      BY <2>1, <2>2, <2>3, <3>1, SensorFramesAssumption DEF LeftAfterHeader
    <3>2. CASE b # 255
      <4>1. (b + 1) % 256 = b + 1
        BY <2>1, <3>2
      <4> QED
        BY <2>1, <2>2, <2>3, <3>2, <4>1, SensorFramesAssumption DEF LeftAfterHeader
    <3> QED BY <3>1, <3>2
  <2>6. 3 \in 0..BufSize
    BY SensorFramesAssumption
  <2>7. TypeOK'
    BY <2>1, <2>2, <2>4, <2>6, Zenon DEF flags, outputs
  <2>8. ModeAgrees' /\ TagKnown' /\ LeftSmall' /\ HeaderReceived'
    BY <2>1, <2>2 DEF flags
  <2> HIDE DEF TypeOK, ModeAgrees, TagKnown, LeftSmall, HeaderReceived, Counters
  <2> QED BY <2>5, <2>7, <2>8
<1> QED BY <1>1, <1>2

LEMMA PayloadInv == ASSUME IInv, NEW b \in Bytes, Payload(b) PROVE IInv'
<1>1. CASE cnt >= BufSize
  BY <1>1, ResetInv DEF Payload, outputs
<1>2. CASE ~(cnt >= BufSize)
  <2>1. /\ b \in Byte /\ cnt >= 3 /\ cnt < BufSize /\ left > 0
        /\ cnt' = cnt + 1 /\ buf' = [buf EXCEPT ![cnt] = b]
        /\ left' = IF buf[1] \in ModuleTag /\ b = Filler THEN left ELSE left - 1
        /\ UNCHANGED <<flags, outputs>>
    BY <1>2, SensorFramesAssumption DEF Payload, Store
  <2>2. /\ buf' \in [0..BufSize - 1 -> Byte]
        /\ buf'[0] = buf[0] /\ buf'[1] = buf[1] /\ buf'[2] = buf[2]
    BY <2>1, SensorFramesAssumption
  <2>3. buf[1] \in {GrayTag, MechanicTag, LineTag} => left' = left - 1
    BY <2>1
  <2>4. Counters'
    BY <2>1, <2>2, <2>3, SensorFramesAssumption
  <2>5. left' \in Byte /\ cnt' \in 0..BufSize
    BY <2>1, SensorFramesAssumption
  <2>6. TypeOK'
    BY <2>1, <2>2, <2>5 DEF flags, outputs
  <2>7. ModeAgrees' /\ TagKnown' /\ LeftSmall' /\ HeaderReceived'
    BY <2>1, <2>2 DEF flags
  <2> HIDE DEF TypeOK, ModeAgrees, TagKnown, LeftSmall, HeaderReceived, Counters
  <2> QED BY <2>4, <2>6, <2>7
<1> QED BY <1>1, <1>2

LEMMA SealGrayInv == ASSUME IInv, SealGray PROVE IInv'
<1>1. gray' \in [0..GraySlots - 1 -> Nat]
  <2>1. ASSUME NEW k \in 0..GraySlots - 1
        PROVE  buf[3 + 2 * k] + 256 * buf[4 + 2 * k] \in Nat
    <3>1. 3 + 2 * k \in 0..BufSize - 1 /\ 4 + 2 * k \in 0..BufSize - 1
      BY SensorFramesAssumption
    <3>2. buf[3 + 2 * k] \in Byte /\ buf[4 + 2 * k] \in Byte
      BY <3>1
    <3> QED BY <3>2
  <2> QED BY <2>1 DEF SealGray
<1>2. ~lineArmed
  BY DEF SealGray, Sealing
<1> QED BY <1>1, <1>2, SealInv DEF SealGray, flags

LEMMA SealLineInv == ASSUME IInv, SealLine PROVE IInv'
<1>1. CASE LineVerified
  <2>1. motion' \in Byte
    BY <1>1, SensorFramesAssumption DEF SealLine
  <2> QED BY <1>1, <2>1, SealInv DEF SealLine
<1>2. CASE ~LineVerified
  BY <1>2, ResetInv DEF SealLine, outputs
<1> QED BY <1>1, <1>2

LEMMA SealMechanicInv == ASSUME IInv, SealMechanic PROVE IInv'
<1>1. ~lineArmed /\ Sealing /\ UNCHANGED <<buf, outputs>>
  BY DEF SealMechanic, Sealing
<1>2. (cnt' = 0 /\ UNCHANGED <<left, flags>>) \/ FrameReset
  BY DEF SealMechanic
<1>3. CASE FrameReset
  BY <1>1, <1>3, ResetInv
<1>4. CASE cnt' = 0 /\ UNCHANGED <<left, flags>>
  BY <1>1, <1>4, SealInv DEF flags, outputs
<1> QED BY <1>2, <1>3, <1>4

LEMMA SealModuleInv == ASSUME IInv, SealModule PROVE IInv'
<1>1. ~lineArmed
  BY DEF SealModule, Sealing
<1> QED BY <1>1, SealInv DEF SealModule, flags, outputs

-----------------------------------------------------------------------------
LEMMA InitInv == Init => IInv
<1> SUFFICES ASSUME Init PROVE IInv
  OBVIOUS
<1>1. buf \in [0..BufSize - 1 -> Byte] /\ gray \in [0..GraySlots - 1 -> Nat]
  BY SensorFramesAssumption DEF Init
<1>2. cnt = 0 /\ left = 0 /\ motion = 0
      /\ lineArmed = FALSE /\ mechArmed = FALSE /\ moduleArmed = FALSE
  BY DEF Init
<1>3. 0 \in 0..BufSize /\ 0 \in Byte
  BY SensorFramesAssumption
<1>4. TypeOK
  BY <1>1, <1>2, <1>3, Zenon
<1>5. ModeAgrees
  BY <1>2
<1>6. TagKnown /\ LeftSmall /\ HeaderReceived /\ Counters
  BY <1>2
<1> HIDE DEF TypeOK, ModeAgrees, TagKnown, LeftSmall, HeaderReceived, Counters
<1> QED BY <1>4, <1>5, <1>6

LEMMA StutterInv == IInv /\ UNCHANGED vars => IInv'
<1> SUFFICES ASSUME IInv, UNCHANGED vars PROVE IInv'
  OBVIOUS
<1>1. /\ buf' = buf /\ cnt' = cnt /\ left' = left /\ gray' = gray
      /\ motion' = motion /\ lineArmed' = lineArmed
      /\ mechArmed' = mechArmed /\ moduleArmed' = moduleArmed
  BY DEF vars, flags, outputs
<1>2. TypeOK'
  BY <1>1, Zenon
<1>3. ModeAgrees'
  BY <1>1
<1>4. TagKnown' /\ LeftSmall' /\ HeaderReceived' /\ Counters'
  BY <1>1
<1> HIDE DEF TypeOK, ModeAgrees, TagKnown, LeftSmall, HeaderReceived, Counters
<1> QED BY <1>2, <1>3, <1>4

HIDE DEF IInv, TypeOK, ModeAgrees, TagKnown, LeftSmall, HeaderReceived,
         Counters

(* The strengthened invariant holds in every state of the parser.          *)
THEOREM Invariance == Spec => []IInv
<1>1. Init => IInv
  BY InitInv
<1>2. IInv /\ [Next]_vars => IInv'
  <2> SUFFICES ASSUME IInv, [Next]_vars PROVE IInv'
    OBVIOUS
  <2>1. ASSUME NEW b \in Bytes, Receive(b) PROVE IInv'
    BY <2>1, IdleInv, LineOptionTagInv, TagInv, HeaderInv, PayloadInv DEF Receive
  <2>2. CASE SealGray BY <2>2, SealGrayInv
  <2>3. CASE SealLine BY <2>3, SealLineInv
  <2>4. CASE SealMechanic BY <2>4, SealMechanicInv
  <2>5. CASE SealModule BY <2>5, SealModuleInv
  <2>6. CASE ReceiveError BY <2>6, ResetInv DEF ReceiveError, IInv
  <2>7. CASE UNCHANGED vars BY <2>7, StutterInv
  <2> QED BY <2>1, <2>2, <2>3, <2>4, <2>5, <2>6, <2>7 DEF Next
<1> QED BY <1>1, <1>2, PTL DEF Spec

(* The frame position and the counter keep their widths: no byte is ever   *)
(* stored past Uart5RxBuf, for any bytes on the line.                      *)
THEOREM TypeCorrect == Spec => []TypeOK
<1>1. IInv => TypeOK BY DEF IInv
<1> QED BY <1>1, Invariance, PTL

(* The line-option mode is armed exactly while a 'w' frame is received.    *)
THEOREM ModeFollowsFrame == Spec => []ModeAgrees
<1>1. IInv => ModeAgrees BY DEF IInv
<1> QED BY <1>1, Invariance, PTL

(* Every seal reads bytes received for its own frame, but for a gray frame *)
(* of an odd number of bytes, which reads the one byte behind its own, and *)
(* the mechanic header 0xFF, whose counter wraps; whatever bytes come over *)
(* the line.                                                               *)
THEOREM SealIsWithinFrame == Spec => []SealReadsFrame
<1>1. IInv => SealReadsFrame
  <2> SUFFICES ASSUME IInv, Sealing PROVE SealReadsFrame
    BY DEF SealReadsFrame
  <2>1. /\ cnt \in Int /\ cnt >= 3 /\ cnt <= BufSize /\ left = 0 /\ Counters
        /\ buf[2] \in Int /\ 0 <= buf[2] /\ buf[2] <= 255
    <3>1. 2 \in 0..BufSize - 1
      BY SensorFramesAssumption
    <3> QED BY <3>1, SensorFramesAssumption DEF Sealing, IInv, TypeOK
  <2>2. CASE buf[1] = LineTag
    BY <2>1, <2>2, SensorFramesAssumption DEF SealReadsFrame, LastRead, Counters
  <2>3. CASE buf[1] = MechanicTag /\ buf[2] # 255
    BY <2>1, <2>3, SensorFramesAssumption DEF SealReadsFrame, LastRead, Counters
  <2>4. CASE buf[1] = MechanicTag /\ buf[2] = 255
    BY <2>1, <2>4 DEF SealReadsFrame, Counters
  <2>5. CASE buf[1] = GrayTag
    <3>1. cnt = 3 + buf[2]
      BY <2>1, <2>5 DEF Counters
    <3>2. CASE buf[2] < 2 * GraySlots
      <4>1. LastRead = 2 + 2 * ((buf[2] + 1) \div 2)
        BY <2>5, <3>2 DEF LastRead
      <4>2. CASE buf[2] % 2 = 0
        BY <2>1, <3>1, <4>1, <4>2 DEF SealReadsFrame
      <4>3. CASE buf[2] % 2 = 1
        BY <2>1, <2>5, <3>1, <3>2, <4>1, <4>3, SensorFramesAssumption DEF SealReadsFrame
      <4> QED BY <2>1, <4>2, <4>3
    <3>3. CASE ~(buf[2] < 2 * GraySlots)
      BY <2>1, <2>5, <3>1, <3>3, SensorFramesAssumption DEF SealReadsFrame, LastRead
    <3> QED BY <3>2, <3>3
  <2>6. CASE buf[1] \notin {LineTag, MechanicTag, GrayTag}
    BY <2>1, <2>6 DEF SealReadsFrame, LastRead
  <2> QED BY <2>2, <2>3, <2>4, <2>5, <2>6
<1> QED BY <1>1, Invariance, PTL

-----------------------------------------------------------------------------
(* The refinement: while the header is one of the documented forms every   *)
(* step of the parser is a step of SensorGrammar's recogniser.             *)
(* SensorOdd.cfg and SensorHeader.cfg show what the other two headers do.  *)

HIDE DEF Byte

\* The first n bytes of a buffer: the frame received so far.
Prefix(n, g) == [i \in 1..n |-> g[i - 1]]

\* The counter and the flags are what the grammar reads off the frame.
Recognised(n, g, l) ==
  /\ n > 0 => Grammar!Viable(Prefix(n, g))
  /\ n >= 3 => Grammar!Counted(Prefix(n, g)) + l = Grammar!Declared(Prefix(n, g))
  /\ n = 2 /\ g[1] \in ModuleTag => l = g[1]

GrammarInv == Recognised(cnt, buf, left)

LEMMA PrefixIs ==
  ASSUME NEW n \in Nat, n <= BufSize, NEW g \in [0..BufSize - 1 -> Byte]
  PROVE  /\ Prefix(n, g) \in Seq(Byte) /\ Len(Prefix(n, g)) = n
         /\ \A i \in 1..n : Prefix(n, g)[i] = g[i - 1]
         /\ n = 0 => Prefix(n, g) = <<>>
<1>1. \A i \in 1..n : i - 1 \in 0..BufSize - 1
  BY SensorFramesAssumption
<1>2. Prefix(n, g) \in [1..n -> Byte]
  BY <1>1 DEF Prefix
<1> QED BY <1>2 DEF Prefix

LEMMA FrameIs ==
  ASSUME IInv
  PROVE  /\ cnt \in Nat /\ cnt <= BufSize /\ buf \in [0..BufSize - 1 -> Byte]
         /\ Prefix(cnt, buf) \in Seq(Byte) /\ Len(Prefix(cnt, buf)) = cnt
         /\ cnt = 0 => Prefix(cnt, buf) = <<>>
<1>1. cnt \in Nat /\ cnt <= BufSize /\ buf \in [0..BufSize - 1 -> Byte]
  BY SensorFramesAssumption DEF IInv, TypeOK
<1> QED BY <1>1, PrefixIs

LEMMA StoreAppends ==
  ASSUME NEW n \in Nat, n < BufSize, NEW g \in [0..BufSize - 1 -> Byte],
         NEW b \in Byte
  PROVE  Prefix(n + 1, [g EXCEPT ![n] = b]) = Append(Prefix(n, g), b)
<1> DEFINE h == [g EXCEPT ![n] = b]
<1>1. \A i \in 1..(n + 1) : i - 1 \in 0..BufSize - 1
  BY SensorFramesAssumption
<1>2. \A i \in 1..(n + 1) : h[i - 1] = IF i = n + 1 THEN b ELSE g[i - 1]
  BY <1>1
<1>0. n <= BufSize
  BY SensorFramesAssumption
<1>3. Prefix(n, g) \in Seq(Byte) /\ Len(Prefix(n, g)) = n
  BY <1>0, PrefixIs
<1> HIDE DEF h
<1>5. Prefix(n + 1, h) = [i \in 1..(n + 1) |-> IF i = n + 1 THEN b ELSE g[i - 1]]
  BY <1>2 DEF Prefix
<1> QED BY <1>3, <1>5 DEF Prefix, h

LEMMA AppendIs ==
  ASSUME NEW f \in Seq(Byte), NEW b \in Byte
  PROVE  LET e == Append(f, b) IN
         /\ e \in Seq(Byte) /\ Len(e) = Len(f) + 1 /\ e[Len(f) + 1] = b
         /\ \A i \in 1..Len(f) : e[i] = f[i]
OBVIOUS

(* What the next byte must be for the frame to go on.                      *)
LEMMA ViableAppend ==
  ASSUME NEW f \in Seq(Byte), NEW b \in Byte, Len(f) > 0 => Grammar!Viable(f)
  PROVE  LET v == Grammar!Viable(Append(f, b)) IN
         /\ Len(f) = 0 => (v <=> b \in {170, 254, 119})
         /\ Len(f) = 1 => (v <=> IF f[1] = 119 THEN b = 104
                                 ELSE b = 85 \/ b = 170 \/ b <= 63)
         /\ Len(f) = 2 => (v <=> (f[1] = 119 => b = 23))
         /\ Len(f) > 2 => v
<1> DEFINE e == Append(f, b)
<1>1. /\ Len(e) = Len(f) + 1 /\ e[Len(f) + 1] = b
      /\ \A i \in 1..Len(f) : e[i] = f[i]
  OBVIOUS
<1>2. Len(f) \in Nat
  OBVIOUS
<1> HIDE DEF e
<1> USE DEF Grammar!Viable, Grammar!Starts, Grammar!IsLine, Grammar!IsGray,
            Grammar!IsMechanic, Grammar!IsModule
<1>3. ASSUME Len(f) = 0
      PROVE  Grammar!Viable(e) <=> b \in {170, 254, 119}
  <2>1. Len(e) = 1 /\ e[1] = b
    BY <1>1, <1>3
  <2> QED BY <2>1
<1>4. Len(f) = 1 => (Grammar!Viable(e) <=> IF f[1] = 119 THEN b = 104
                                           ELSE b = 85 \/ b = 170 \/ b <= 63)
  BY <1>1
<1>5. Len(f) = 2 => (Grammar!Viable(e) <=> (f[1] = 119 => b = 23))
  BY <1>1
<1>6. Len(f) > 2 => Grammar!Viable(e)
  BY <1>1
<1> QED BY <1>3, <1>4, <1>5, <1>6 DEF e

(* A byte past the header counts unless it is the filler of a module.      *)
LEMMA CountedAppend ==
  ASSUME NEW f \in Seq(Byte), NEW b \in Byte
  PROVE  /\ Grammar!Counted(f) \in Nat
         /\ Len(f) <= 3 => Grammar!Counted(f) = 0
         /\ Len(f) >= 3 =>
              Grammar!Counted(Append(f, b)) =
                Grammar!Counted(f) + (IF Grammar!IsModule(f) /\ b = 254 THEN 0 ELSE 1)
<1> DEFINE e == Append(f, b)
           n == Len(f)
           C(s) == {i \in 4..Len(s) : ~(Grammar!IsModule(s) /\ s[i] = 254)}
<1>1. n \in Nat /\ Len(e) = n + 1 /\ e[n + 1] = b /\ \A i \in 1..n : e[i] = f[i]
  OBVIOUS
<1>2. IsFiniteSet(4..n) /\ (n <= 3 => 4..n = {})
  BY <1>1, FS_Interval
<1>3. C(f) \subseteq 4..n
  OBVIOUS
<1>4. IsFiniteSet(C(f))
  BY <1>2, <1>3, FS_Subset
<1>5. Cardinality(C(f)) \in Nat
  BY <1>4, FS_CardinalityType
<1>6. n <= 3 => Cardinality(C(f)) = 0
  <2>1. n <= 3 => C(f) = {}
    BY <1>2, <1>3
  <2> QED BY <2>1, FS_EmptySet
<1>7. ASSUME n >= 3
      PROVE  Cardinality(C(e)) =
               Cardinality(C(f)) + (IF Grammar!IsModule(f) /\ b = 254 THEN 0 ELSE 1)
  <2>1. Grammar!IsModule(e) <=> Grammar!IsModule(f)
    BY <1>1, <1>7 DEF Grammar!IsModule, Grammar!IsLine
  <2>2. \A i \in 4..n : e[i] = f[i]
    BY <1>1
  <2>3. 4..(n + 1) = 4..n \cup {n + 1} /\ n + 1 \notin 4..n
    BY <1>1, <1>7
  <2> HIDE DEF e, n
  <2>4. C(e) = {i \in 4..(n + 1) : ~(Grammar!IsModule(f) /\ e[i] = 254)}
    BY <1>1, <2>1
  <2>5. C(f) = {i \in 4..n : ~(Grammar!IsModule(f) /\ f[i] = 254)}
    BY DEF n
  <2>6. CASE Grammar!IsModule(f) /\ b = 254
    <3>1. C(e) = C(f)
      BY <1>1, <2>2, <2>3, <2>4, <2>5, <2>6
    <3> HIDE DEF C
    <3> QED BY <1>5, <2>6, <3>1
  <2>7. CASE ~(Grammar!IsModule(f) /\ b = 254)
    <3>1. C(e) = C(f) \cup {n + 1}
      BY <1>1, <2>2, <2>3, <2>4, <2>5, <2>7
    <3>2. n + 1 \notin C(f)
      BY <1>3, <2>3
    <3> HIDE DEF C
    <3>3. Cardinality(C(e)) = Cardinality(C(f)) + 1
      BY <1>4, <3>1, <3>2, FS_AddElement
    <3> QED BY <2>7, <3>3
  <2> QED BY <2>6, <2>7
<1>8. Grammar!Counted(f) = Cardinality(C(f)) /\ Grammar!Counted(e) = Cardinality(C(e))
  BY Zenon DEF Grammar!Counted, Grammar!Cardinality, Cardinality
<1> HIDE DEF C, e
<1> QED BY <1>5, <1>6, <1>7, <1>8 DEF e

(* A frame's kind, as the code and as the grammar tell it.                 *)
LEMMA KindsAgree ==
  ASSUME IInv, GrammarInv, cnt >= 2
  PROVE  LET f == Prefix(cnt, buf) IN
         /\ f[1] = buf[0] /\ f[2] = buf[1] /\ (cnt >= 3 => f[3] = buf[2])
         /\ buf[1] \in Byte
         /\ Grammar!IsLine(f) <=> buf[1] = LineTag
         /\ Grammar!IsGray(f) <=> buf[1] = GrayTag
         /\ Grammar!IsMechanic(f) <=> buf[1] = MechanicTag
         /\ Grammar!IsModule(f) <=> buf[1] \in ModuleTag
         /\ buf[1] \in {GrayTag, MechanicTag, LineTag} \cup ModuleTag
         /\ lineArmed <=> buf[1] = LineTag
<1> DEFINE f == Prefix(cnt, buf)
<1>1. /\ cnt \in Nat /\ cnt <= BufSize /\ buf \in [0..BufSize - 1 -> Byte]
      /\ buf[1] \in {GrayTag, MechanicTag, LineTag} \cup ModuleTag
      /\ lineArmed <=> buf[0] = LineStart
      /\ lineArmed <=> buf[1] = LineTag
  BY SensorFramesAssumption DEF IInv, TypeOK, TagKnown, ModeAgrees
<1>2. f[1] = buf[0] /\ f[2] = buf[1] /\ (cnt >= 3 => f[3] = buf[2])
  <2>1. \A i \in 1..cnt : f[i] = buf[i - 1]
    BY DEF Prefix
  <2> HIDE DEF f
  <2>2. f[1] = buf[1 - 1] /\ f[2] = buf[2 - 1] /\ (cnt >= 3 => f[3] = buf[3 - 1])
    BY <1>1, <2>1
  <2> QED BY <2>2
<1>3. buf[0] = 119 <=> buf[1] = 104
  BY <1>1
<1>4. buf[1] \in Byte
  <2>1. 1 \in 0..BufSize - 1
    BY <1>1, SensorFramesAssumption
  <2> QED BY <1>1, <2>1
<1> HIDE DEF f
<1> QED BY <1>1, <1>2, <1>3, <1>4
        DEF f, Grammar!IsLine, Grammar!IsGray, Grammar!IsMechanic, Grammar!IsModule

(* A frame is complete exactly when the code is about to seal it.          *)
LEMMA CompleteIsSealing ==
  ASSUME IInv, GrammarInv
  PROVE  Grammar!Complete(Prefix(cnt, buf)) <=> Sealing
<1> DEFINE f == Prefix(cnt, buf)
<1>1. /\ cnt \in Nat /\ cnt <= BufSize /\ buf \in [0..BufSize - 1 -> Byte]
      /\ left \in Int
  BY SensorFramesAssumption DEF IInv, TypeOK, Byte
<1>2. Len(f) = cnt /\ f \in Seq(Byte)
  BY <1>1, PrefixIs
<1>3. cnt >= 3 => Grammar!Counted(f) + left = Grammar!Declared(f)
  BY DEF GrammarInv, Recognised
<1>4. Grammar!Counted(f) \in Nat
  <2>1. 0 \in Byte
    BY DEF Byte
  <2> QED BY <1>2, <2>1, CountedAppend
<1> HIDE DEF f
<1> QED BY <1>1, <1>2, <1>3, <1>4 DEF f, Grammar!Complete, Sealing

-----------------------------------------------------------------------------
(* The three things a byte can do to the frame, in the grammar's terms.    *)

NextFrame(f, g, m) ==
  Prefix(cnt, buf)' = f /\ gray' = g /\ motion' = m

\* It is stored,
Stored(b) ==
  /\ b \in Bytes /\ ~Sealing /\ cnt < BufSize
  /\ Grammar!Viable(Append(Prefix(cnt, buf), b))
  /\ NextFrame(Append(Prefix(cnt, buf), b), gray, motion)

\* or the frame is dropped,
Dropped(b) ==
  /\ b \in Bytes /\ ~Sealing
  /\ cnt < BufSize => ~Grammar!Viable(Append(Prefix(cnt, buf), b))
  /\ NextFrame(<<>>, gray, motion)

LEMMA StoredExtends ==
  ASSUME IInv, GrammarInv, NEW b, Stored(b) \/ Dropped(b)
  PROVE  Grammar!Next
<1> DEFINE f == Prefix(cnt, buf)
<1>1. ~Grammar!Complete(f)
  BY CompleteIsSealing DEF Stored, Dropped
<1>2. Len(f) = cnt /\ b \in Bytes
  BY PrefixIs, SensorFramesAssumption DEF IInv, TypeOK, Stored, Dropped
<1>3. Prefix(cnt, buf)' =
        IF Grammar!Viable(Append(f, b)) /\ Len(f) < BufSize THEN Append(f, b) ELSE <<>>
  BY <1>2 DEF Stored, Dropped, NextFrame
<1>4. gray' = gray /\ motion' = motion
  BY DEF Stored, Dropped, NextFrame
<1>5. Grammar!Extend(b)
  BY <1>1, <1>3, <1>4 DEF Grammar!Extend, Prefix
<1> QED BY <1>2, <1>5 DEF Grammar!Next

(* An idle line: a byte that begins no frame leaves it idle.               *)
LEMMA IdleRefines ==
  ASSUME IInv, GrammarInv, NEW b \in Bytes, Idle(b)
  PROVE  (Stored(b) \/ Dropped(b)) /\ GrammarInv'
<1>1. /\ cnt = 0 /\ cnt < BufSize /\ b \in Byte /\ ~Sealing
      /\ buf \in [0..BufSize - 1 -> Byte] /\ 0 \in Nat
  BY SensorFramesAssumption DEF Idle, IInv, TypeOK, Sealing
<1> DEFINE f == Prefix(cnt, buf)
<1>2. f = <<>> /\ f \in Seq(Byte) /\ Len(f) = 0
  BY <1>1, FrameIs
<1>3. Grammar!Viable(Append(f, b)) <=> b \in {170, 254, 119}
  BY <1>1, <1>2, ViableAppend
<1>4. CASE b \in Start \cup {LineStart}
  <2>1. cnt' = 1 /\ buf' = [buf EXCEPT ![0] = b] /\ gray' = gray /\ motion' = motion
    <3>1. Store(b) /\ UNCHANGED outputs
      BY <1>4, Zenon DEF Idle
    <3> QED BY <1>1, <3>1 DEF Store, outputs
  <2>2. Prefix(0 + 1, [buf EXCEPT ![0] = b]) = Append(Prefix(0, buf), b)
    BY <1>1, StoreAppends
  <2>3. Prefix(cnt, buf)' = Append(f, b)
    BY <1>1, <2>1, <2>2 DEF Prefix
  <2>4. Grammar!Viable(Append(f, b))
    BY <1>3, <1>4
  <2>5. Stored(b)
    BY <1>1, <2>1, <2>3, <2>4 DEF Stored, NextFrame
  <2>6. Grammar!Viable(Prefix(cnt, buf)')
    BY <2>3, <2>4, Zenon
  <2>7. GrammarInv'
    <3> HIDE DEF f
    <3> QED BY <2>1, <2>6 DEF GrammarInv, Recognised, Prefix
  <2> QED BY <2>5, <2>7
<1>5. CASE b \notin Start \cup {LineStart}
  <2>1. cnt' = 0 /\ buf' = buf /\ gray' = gray /\ motion' = motion
    BY <1>1, <1>5 DEF Idle, outputs
  <2>2. Prefix(cnt, buf)' = <<>>
    BY <1>1, <1>2, <2>1 DEF Prefix
  <2>3. Dropped(b)
    BY <1>1, <1>3, <1>5, <2>1, <2>2 DEF Dropped, NextFrame
  <2>4. GrammarInv'
    BY <2>1 DEF GrammarInv, Recognised
  <2> QED BY <2>3, <2>4
<1> QED BY <1>4, <1>5

(* A reset drops the frame, whatever comes next.                           *)
LEMMA ResetRefines ==
  ASSUME IInv, FrameReset, UNCHANGED outputs
  PROVE  NextFrame(<<>>, gray, motion) /\ GrammarInv'
<1>1. cnt' = 0 /\ gray' = gray /\ motion' = motion
  BY DEF FrameReset, outputs
<1>2. [i \in 1..0 |-> buf'[i - 1]] = <<>>
  OBVIOUS
<1>3. Prefix(cnt, buf)' = <<>>
  BY <1>1, <1>2 DEF Prefix
<1> QED BY <1>1, <1>3 DEF NextFrame, GrammarInv, Recognised

(* A byte that is stored is one the grammar takes.                         *)
LEMMA StoreRefines ==
  ASSUME IInv, GrammarInv, NEW b \in Bytes, ~Sealing, cnt < BufSize,
         Grammar!Viable(Append(Prefix(cnt, buf), b)),
         Store(b), UNCHANGED outputs
  PROVE  /\ Stored(b)
         /\ Prefix(cnt, buf)' = Append(Prefix(cnt, buf), b)
         /\ cnt' > 0 => Grammar!Viable(Prefix(cnt, buf)')
<1>1. /\ cnt \in Nat /\ b \in Byte /\ buf \in [0..BufSize - 1 -> Byte]
  BY SensorFramesAssumption DEF IInv, TypeOK
<1>2. cnt' = cnt + 1 /\ buf' = [buf EXCEPT ![cnt] = b]
  BY DEF Store
<1>3. Prefix(cnt + 1, [buf EXCEPT ![cnt] = b]) = Append(Prefix(cnt, buf), b)
  BY <1>1, StoreAppends
<1>4. Prefix(cnt, buf)' = Append(Prefix(cnt, buf), b)
  BY <1>2, <1>3 DEF Prefix
<1>5. gray' = gray /\ motion' = motion
  BY DEF outputs
<1> QED BY <1>4, <1>5 DEF Stored, NextFrame

(* Position 1: the two tags of the code are those of the grammar.          *)
LEMMA TagRefines ==
  ASSUME IInv, GrammarInv, NEW b \in Bytes, LineOptionTag(b) \/ Tag(b)
  PROVE  (Stored(b) \/ Dropped(b)) /\ GrammarInv'
<1> DEFINE f == Prefix(cnt, buf)
<1>1. /\ cnt = 1 /\ cnt < BufSize /\ b \in Byte /\ b \in Int /\ ~Sealing
      /\ buf \in [0..BufSize - 1 -> Byte] /\ cnt \in Nat
      /\ lineArmed <=> buf[0] = 119
      /\ UNCHANGED outputs
  BY SensorFramesAssumption
     DEF LineOptionTag, Tag, IInv, TypeOK, ModeAgrees, Sealing, Byte
<1>2. f \in Seq(Byte) /\ Len(f) = 1 /\ f[1] = buf[0]
  <2>1. f \in Seq(Byte) /\ Len(f) = 1
    BY <1>1, FrameIs
  <2>2. f[1] = buf[1 - 1]
    BY <1>1 DEF Prefix
  <2> QED BY <2>1, <2>2
<1>3. Grammar!Viable(f)
  BY <1>1 DEF GrammarInv, Recognised
<1>4. Grammar!Viable(Append(f, b)) <=>
        IF lineArmed THEN b = 104 ELSE b = 85 \/ b = 170 \/ b <= 63
  <2> HIDE DEF f
  <2>1. Grammar!Viable(Append(f, b)) <=>
          IF f[1] = 119 THEN b = 104 ELSE b = 85 \/ b = 170 \/ b <= 63
    BY <1>1, <1>2, <1>3, ViableAppend
  <2> QED BY <1>1, <1>2, <2>1
<1>5. CASE FrameReset /\ ~Grammar!Viable(Append(f, b))
  BY <1>1, <1>5, ResetRefines DEF Dropped
<1>6. CASE Store(b) /\ Grammar!Viable(Append(f, b)) /\ (b \in ModuleTag => left' = b)
  <2>1. /\ Stored(b) /\ Prefix(cnt, buf)' = Append(f, b)
        /\ cnt' > 0 => Grammar!Viable(Prefix(cnt, buf)')
    BY <1>1, <1>6, StoreRefines
  <2>2. cnt' = 2 /\ buf'[1] = b
    BY <1>1, <1>6, SensorFramesAssumption DEF Store
  <2>3. GrammarInv'
    BY <1>6, <2>1, <2>2 DEF GrammarInv, Recognised, Prefix
  <2> QED BY <2>1, <2>3
<1>7. \/ FrameReset /\ ~Grammar!Viable(Append(f, b))
      \/ Store(b) /\ Grammar!Viable(Append(f, b)) /\ (b \in ModuleTag => left' = b)
  <2> HIDE DEF f
  <2>1. CASE LineOptionTag(b)
    BY <1>1, <1>4, <2>1 DEF LineOptionTag
  <2>2. CASE Tag(b)
    BY <1>1, <1>4, <2>2 DEF Tag
  <2> QED BY <2>1, <2>2
<1> QED BY <1>5, <1>6, <1>7

(* Position 2: the counter is loaded with what the frame declares.         *)
LEMMA HeaderRefines ==
  ASSUME IInv, GrammarInv, NEW b \in Bytes, Header(b), IInv', RegularHeader'
  PROVE  (Stored(b) \/ Dropped(b)) /\ GrammarInv'
<1> DEFINE f == Prefix(cnt, buf)
           e == Append(f, b)
<1>1. /\ cnt = 2 /\ cnt < BufSize /\ b \in Byte /\ b \in Int /\ 0 <= b /\ ~Sealing
      /\ buf \in [0..BufSize - 1 -> Byte] /\ cnt \in Nat
      /\ UNCHANGED outputs
  BY SensorFramesAssumption DEF Header, IInv, TypeOK, Sealing, Byte
<1>2. f \in Seq(Byte) /\ Len(f) = 2
  BY <1>1, FrameIs
<1>3. /\ f[1] = buf[0] /\ f[2] = buf[1] /\ buf[1] \in Int
      /\ Grammar!IsLine(f) <=> buf[1] = LineTag
      /\ Grammar!IsLine(f) <=> lineArmed
      /\ buf[1] \in {GrayTag, MechanicTag, LineTag} \cup ModuleTag
  BY <1>1, KindsAgree DEF Byte
<1>4. Grammar!Viable(f)
  BY <1>1 DEF GrammarInv, Recognised
<1>5. Grammar!Viable(e) <=> (lineArmed => b = 23)
  <2> HIDE DEF f
  <2>1. Grammar!Viable(e) <=> (f[1] = 119 => b = 23)
    BY <1>1, <1>2, <1>4, ViableAppend
  <2> QED BY <1>3, <2>1 DEF Grammar!IsLine
<1>6. CASE lineArmed /\ b # LineHeader
  <2>1. FrameReset
    BY <1>6 DEF Header
  <2> QED BY <1>1, <1>5, <1>6, <2>1, ResetRefines DEF Dropped
<1>7. CASE ~(lineArmed /\ b # LineHeader)
  <2>1. Store(b) /\ left' = LeftAfterHeader(b)
    BY <1>7 DEF Header
  <2>2. Grammar!Viable(e)
    BY <1>5, <1>7
  <2>3. /\ Stored(b) /\ Prefix(cnt, buf)' = e
        /\ cnt' > 0 => Grammar!Viable(Prefix(cnt, buf)')
    BY <1>1, <2>1, <2>2, StoreRefines
  <2>4. cnt' = 3 /\ buf'[1] = buf[1] /\ buf'[2] = b
    BY <1>1, <2>1, SensorFramesAssumption DEF Store
  <2>5. /\ Len(e) = 3 /\ e[1] = f[1] /\ e[2] = f[2] /\ e[3] = b /\ e \in Seq(Byte)
    <3> HIDE DEF f
    <3>1. /\ Len(e) = Len(f) + 1 /\ e \in Seq(Byte) /\ e[Len(f) + 1] = b
          /\ \A i \in 1..Len(f) : e[i] = f[i]
      <4>1. b \in Byte
        BY <1>1
      <4> QED BY <1>2, <4>1, AppendIs
    <3> HIDE DEF e
    <3> QED BY <1>2, <3>1
  <2>6. Grammar!Counted(e) = 0
    <3> HIDE DEF e
    <3>1. e \in Seq(Byte) /\ Len(e) <= 3 /\ b \in Byte
      BY <1>1, <2>5
    <3> QED BY <3>1, CountedAppend
  <2>7. Grammar!Declared(e) = left'
    <3> HIDE DEF e, f
    <3>1. /\ Grammar!IsLine(e) <=> buf[1] = LineTag
          /\ Grammar!IsGray(e) <=> buf[1] = GrayTag
          /\ Grammar!IsMechanic(e) <=> buf[1] = MechanicTag
      BY <1>3, <2>5 DEF Grammar!IsLine, Grammar!IsGray, Grammar!IsMechanic
    <3>2. buf[1] \in ModuleTag => left = buf[1]
      BY <1>1 DEF GrammarInv, Recognised
    <3>3. buf[1] = MechanicTag => (b + 1) % 256 = b + 1
      <4>1. buf[1] = MechanicTag => b # 255
        BY <2>4 DEF RegularHeader
      <4>2. b <= 255
        BY <1>1 DEF Byte
      <4> QED BY <1>1, <4>1, <4>2
    <3>4. buf[1] \in ModuleTag => buf[1] <= 63
      OBVIOUS
    <3>5. e[2] = buf[1] /\ e[3] = b
      BY <1>3, <2>5
    <3>6. CASE buf[1] = LineTag
      BY <2>1, <3>1, <3>6 DEF LeftAfterHeader, Grammar!Declared
    <3>7. CASE buf[1] = GrayTag
      BY <2>1, <3>1, <3>5, <3>7 DEF LeftAfterHeader, Grammar!Declared
    <3>8. CASE buf[1] = MechanicTag
      BY <2>1, <3>1, <3>3, <3>5, <3>8 DEF LeftAfterHeader, Grammar!Declared
    <3>9. CASE buf[1] \in ModuleTag
      BY <1>1, <1>3, <2>1, <3>1, <3>2, <3>4, <3>5, <3>9
         DEF LeftAfterHeader, Grammar!Declared
    <3> QED BY <1>3, <3>6, <3>7, <3>8, <3>9
  <2>8. left' \in Int
    BY DEF IInv, TypeOK, Byte
  <2>9. GrammarInv'
    <3> HIDE DEF e, f
    <3>1. Grammar!Counted(Prefix(cnt, buf)') + left' = Grammar!Declared(Prefix(cnt, buf)')
      <4>1. Grammar!Counted(e) + left' = Grammar!Declared(e)
        <5>1. \A x \in Int : 0 + x = x
          OBVIOUS
        <5> QED BY <2>6, <2>7, <2>8, <5>1, Zenon
      <4> QED BY <2>3, <4>1, Zenon
    <3> QED BY <2>3, <2>4, <3>1 DEF GrammarInv, Recognised, Prefix
  <2> QED BY <2>3, <2>9
<1> QED BY <1>6, <1>7

(* From position 3 on: what is counted down is what the grammar counts up. *)
LEMMA PayloadRefines ==
  ASSUME IInv, GrammarInv, NEW b \in Bytes, Payload(b)
  PROVE  (Stored(b) \/ Dropped(b)) /\ GrammarInv'
<1> DEFINE f == Prefix(cnt, buf)
           e == Append(f, b)
<1>1. /\ cnt >= 3 /\ cnt \in Nat /\ left > 0 /\ left \in Int /\ b \in Byte /\ ~Sealing
      /\ UNCHANGED outputs
  BY SensorFramesAssumption DEF Payload, IInv, TypeOK, Sealing, Byte
<1>2. f \in Seq(Byte) /\ Len(f) = cnt
  BY FrameIs
<1>3. /\ f[1] = buf[0] /\ f[2] = buf[1] /\ f[3] = buf[2]
      /\ Grammar!IsModule(f) <=> buf[1] \in ModuleTag
  BY <1>1, KindsAgree
<1>4. Grammar!Viable(f) /\ Grammar!Counted(f) + left = Grammar!Declared(f)
  BY <1>1 DEF GrammarInv, Recognised
<1>5. CASE cnt >= BufSize
  <2>1. FrameReset
    BY <1>5 DEF Payload
  <2>2. ~(cnt < BufSize)
    BY <1>1, <1>5, SensorFramesAssumption
  <2> QED BY <1>1, <2>1, <2>2, ResetRefines DEF Dropped
<1>6. CASE ~(cnt >= BufSize)
  <2>1. /\ Store(b) /\ cnt < BufSize
        /\ left' = IF buf[1] \in ModuleTag /\ b = Filler THEN left ELSE left - 1
    BY <1>1, <1>6, SensorFramesAssumption DEF Payload
  <2>2. Grammar!Viable(e)
    <3> HIDE DEF f
    <3> QED BY <1>1, <1>2, <1>4, ViableAppend
  <2>3. /\ Stored(b) /\ Prefix(cnt, buf)' = e
        /\ cnt' > 0 => Grammar!Viable(Prefix(cnt, buf)')
    BY <1>1, <2>1, <2>2, StoreRefines
  <2>4. cnt' = cnt + 1
    BY <2>1 DEF Store
  <2>5. e[1] = f[1] /\ e[2] = f[2] /\ e[3] = f[3]
    <3> HIDE DEF f
    <3> QED BY <1>1, <1>2
  <2>6. /\ Grammar!Counted(f) \in Nat
        /\ Grammar!Counted(e) =
             Grammar!Counted(f) + (IF Grammar!IsModule(f) /\ b = 254 THEN 0 ELSE 1)
    <3> HIDE DEF f
    <3> QED BY <1>1, <1>2, CountedAppend
  <2>7. Grammar!Declared(e) = Grammar!Declared(f)
    <3> HIDE DEF e, f
    <3> QED BY <2>5 DEF Grammar!Declared, Grammar!IsLine, Grammar!IsGray, Grammar!IsMechanic
  <2>8. Grammar!Counted(e) + left' = Grammar!Declared(e)
    <3> HIDE DEF e, f
    <3> QED BY <1>1, <1>3, <1>4, <2>1, <2>6, <2>7
  <2>9. GrammarInv'
    <3> HIDE DEF e, f
    <3>1. Grammar!Counted(Prefix(cnt, buf)') + left' = Grammar!Declared(Prefix(cnt, buf)')
      BY <2>3, <2>8
    <3> QED BY <1>1, <2>3, <2>4, <3>1 DEF GrammarInv, Recognised, Prefix
  <2> QED BY <2>3, <2>9
<1> QED BY <1>5, <1>6

-----------------------------------------------------------------------------
(* The seals.                                                              *)

LEMMA LineSum ==
  SumOf(2, LinePayload + 1) =
    ByteSum([i \in 1..((LinePayload + 1) - 2 + 1) |-> buf[2 + i - 1]]) % 256
BY DEF SumOf

(* A seal clears the frame; the grammar agrees on what comes of it.        *)
LEMMA SealRefines ==
  ASSUME IInv, GrammarInv, Sealing, cnt' = 0,
         gray' = [k \in 0..GraySlots - 1 |->
                    IF buf[1] = GrayTag /\ 2 * k + 2 <= buf[2]
                    THEN buf[3 + 2 * k] + 256 * buf[4 + 2 * k]
                    ELSE gray[k]],
         motion' = IF buf[1] = LineTag /\ LineVerified THEN buf[3] ELSE motion
  PROVE  Grammar!Next /\ GrammarInv'
<1> DEFINE f == Prefix(cnt, buf)
<1>1. /\ cnt >= 3 /\ left = 0 /\ cnt \in Nat
      /\ buf[1] = LineTag => cnt = LinePayload + 3
      /\ buf[1] = GrayTag => cnt = buf[2] + 3
  BY SensorFramesAssumption DEF Sealing, IInv, TypeOK, Counters, Byte
<1>2. /\ f[2] = buf[1] /\ f[3] = buf[2] /\ f \in Seq(Byte) /\ Len(f) = cnt
      /\ Grammar!IsLine(f) <=> buf[1] = LineTag
      /\ Grammar!IsGray(f) <=> buf[1] = GrayTag
  BY <1>1, KindsAgree, FrameIs
<1>3. \A i \in 1..cnt : f[i] = buf[i - 1]
  BY DEF Prefix
<1>4. Grammar!Complete(f)
  BY CompleteIsSealing
<1>5. [i \in 1..0 |-> buf'[i - 1]] = <<>>
  OBVIOUS
<1>6. Prefix(cnt, buf)' = <<>>
  BY <1>5 DEF Prefix
<1>7. gray' = [k \in 0..GraySlots - 1 |->
                 IF Grammar!IsGray(f) /\ 2 * k + 2 <= f[3]
                 THEN f[4 + 2 * k] + 256 * f[5 + 2 * k]
                 ELSE gray[k]]
  <2>1. ASSUME NEW k \in 0..GraySlots - 1, buf[1] = GrayTag, 2 * k + 2 <= buf[2]
        PROVE  f[4 + 2 * k] = buf[3 + 2 * k] /\ f[5 + 2 * k] = buf[4 + 2 * k]
    <3>1. buf[2] \in Int
      BY <1>1, SensorFramesAssumption DEF IInv, TypeOK, Byte
    <3>2. 4 + 2 * k \in 1..cnt /\ 5 + 2 * k \in 1..cnt
      BY <1>1, <2>1, <3>1, SensorFramesAssumption
    <3>3. (4 + 2 * k) - 1 = 3 + 2 * k /\ (5 + 2 * k) - 1 = 4 + 2 * k
      BY SensorFramesAssumption
    <3> HIDE DEF f
    <3> QED BY <1>3, <3>2, <3>3
  <2> HIDE DEF f
  <2> QED BY <1>2, <2>1
<1>8. Grammar!IsLine(f) => (Grammar!Verified(f) <=> LineVerified) /\ f[4] = buf[3]
  <2> SUFFICES ASSUME Grammar!IsLine(f)
               PROVE  (Grammar!Verified(f) <=> LineVerified) /\ f[4] = buf[3]
    OBVIOUS
  <2>1. cnt = LinePayload + 3 /\ LinePayload \in Nat /\ LinePayload >= 1
    BY <1>1, <1>2, SensorFramesAssumption
  <2>2. f[4] = buf[3]
    <3> HIDE DEF f
    <3>1. f[4] = buf[4 - 1]
      BY <1>3, <2>1
    <3> QED BY <3>1
  <2>3. f[Len(f)] = buf[LinePayload + 2]
    <3> HIDE DEF f
    <3>1. f[LinePayload + 3] = buf[(LinePayload + 3) - 1]
      BY <1>3, <2>1
    <3>2. (LinePayload + 3) - 1 = LinePayload + 2
      BY <2>1
    <3> QED BY <1>2, <2>1, <3>1, <3>2
  <2>4. SubSeq(f, 3, Len(f) - 1) =
          [i \in 1..((LinePayload + 1) - 2 + 1) |-> buf[2 + i - 1]]
    <3> HIDE DEF f
    <3>1. SubSeq(f, 3, Len(f) - 1) = [i \in 1..LinePayload |-> f[i + 2]]
      BY <1>2, <2>1
    <3>2. ASSUME NEW i \in 1..LinePayload
          PROVE  f[i + 2] = buf[2 + i - 1]
      <4>1. i + 2 \in 1..cnt /\ (i + 2) - 1 = 2 + i - 1
        BY <2>1
      <4> QED BY <1>3, <4>1
    <3>3. (LinePayload + 1) - 2 + 1 = LinePayload
      BY <2>1
    <3> QED BY <3>1, <3>2, <3>3
  <2>5. LineVerified <=>
          255 - (ByteSum([i \in 1..((LinePayload + 1) - 2 + 1) |-> buf[2 + i - 1]]) % 256)
            = buf[LinePayload + 2]
    <3>1. LineVerified <=> 255 - SumOf(2, LinePayload + 1) = buf[LinePayload + 2]
      BY DEF LineVerified
    <3> QED BY <3>1, LineSum
  <2>6. Grammar!Verified(f) <=>
          f[Len(f)] = 255 - (ByteSum(SubSeq(f, 3, Len(f) - 1)) % 256)
    BY DEF Grammar!Verified
  <2> HIDE DEF f
  <2>7. Grammar!Verified(f) <=> LineVerified
    BY <2>3, <2>4, <2>5, <2>6, Zenon
  <2> QED BY <2>2, <2>7
<1>9. motion' = IF Grammar!IsLine(f) /\ Grammar!Verified(f) THEN f[4] ELSE motion
  <2> HIDE DEF f
  <2> QED BY <1>2, <1>8, Zenon
<1>10. Grammar!Seal
  BY <1>4, <1>6, <1>7, <1>9 DEF Grammar!Seal, Prefix
<1> QED BY <1>10 DEF Grammar!Next, GrammarInv, Recognised

LEMMA SealGrayRefines ==
  ASSUME IInv, GrammarInv, SealGray, RegularHeader
  PROVE  Grammar!Next /\ GrammarInv'
<1>1. Sealing /\ buf[1] = GrayTag /\ cnt' = 0 /\ motion' = motion
  BY DEF SealGray
<1>2. buf[2] \in Nat /\ buf[2] % 2 = 0
  <2>1. 2 \in 0..BufSize - 1
    BY SensorFramesAssumption
  <2>2. buf[2] \in Byte
    BY <2>1 DEF IInv, TypeOK
  <2> QED BY <1>1, <2>2 DEF RegularHeader, Sealing, Byte
<1>3. \A k \in 0..GraySlots - 1 :
        k < (buf[2] + 1) \div 2 <=> 2 * k + 2 <= buf[2]
  BY <1>2, SensorFramesAssumption
<1>4. gray' = [k \in 0..GraySlots - 1 |->
                 IF buf[1] = GrayTag /\ 2 * k + 2 <= buf[2]
                 THEN buf[3 + 2 * k] + 256 * buf[4 + 2 * k]
                 ELSE gray[k]]
  BY <1>1, <1>3 DEF SealGray
<1> QED BY <1>1, <1>4, SealRefines

\* The other seals leave the gray values alone.
LEMMA GrayStays ==
  ASSUME IInv, buf[1] # GrayTag, gray' = gray
  PROVE  gray' = [k \in 0..GraySlots - 1 |->
                    IF buf[1] = GrayTag /\ 2 * k + 2 <= buf[2]
                    THEN buf[3 + 2 * k] + 256 * buf[4 + 2 * k]
                    ELSE gray[k]]
BY DEF IInv, TypeOK

LEMMA SealOtherRefines ==
  ASSUME IInv, GrammarInv, SealLine \/ SealMechanic \/ SealModule
  PROVE  Grammar!Next /\ GrammarInv'
<1>1. /\ Sealing /\ buf[1] # GrayTag /\ gray' = gray /\ cnt' = 0
  BY DEF SealLine, SealMechanic, SealModule, FrameReset, outputs
<1>2. CASE SealLine
  <2>1. motion' = IF buf[1] = LineTag /\ LineVerified THEN buf[3] ELSE motion
    BY <1>2 DEF SealLine
  <2> QED BY <1>1, <2>1, GrayStays, SealRefines
<1>3. CASE SealMechanic \/ SealModule
  <2>1. buf[1] # LineTag /\ motion' = motion
    BY <1>3 DEF SealMechanic, SealModule, outputs
  <2> QED BY <1>1, <2>1, GrayStays, SealRefines
<1> QED BY <1>2, <1>3

-----------------------------------------------------------------------------
(* Every step of the parser is one of the grammar.                         *)

LEMMA StepRefines ==
  ASSUME IInv, IInv', GrammarInv, RegularHeader, RegularHeader', [Next]_vars
  PROVE  [Grammar!Next]_(Grammar!gvars) /\ GrammarInv'
<1>1. ASSUME NEW b \in Bytes, Receive(b)
      PROVE  (Stored(b) \/ Dropped(b)) /\ GrammarInv'
  <2>1. CASE Idle(b) BY <2>1, IdleRefines
  <2>2. CASE LineOptionTag(b) \/ Tag(b) BY <2>2, TagRefines
  <2>3. CASE Header(b) BY <2>3, HeaderRefines
  <2>4. CASE Payload(b) BY <2>4, PayloadRefines
  <2> QED BY <1>1, <2>1, <2>2, <2>3, <2>4 DEF Receive
<1>2. CASE \E b \in Bytes : Receive(b)
  BY <1>1, <1>2, StoredExtends
<1>3. CASE SealGray
  BY <1>3, SealGrayRefines
<1>4. CASE SealLine \/ SealMechanic \/ SealModule
  BY <1>4, SealOtherRefines
<1>5. CASE ReceiveError
  <2>1. NextFrame(<<>>, gray, motion) /\ GrammarInv' /\ Noise
    BY <1>5, ResetRefines DEF ReceiveError
  <2>2. Grammar!Abandon
    BY <2>1 DEF NextFrame, Grammar!Abandon, Prefix
  <2> QED BY <2>1, <2>2 DEF Grammar!Next
<1>6. CASE UNCHANGED vars
  <2>1. UNCHANGED Grammar!gvars
    BY <1>6 DEF vars, outputs, Grammar!gvars
  <2>2. GrammarInv'
    BY <1>6 DEF vars, GrammarInv, Recognised, Prefix
  <2> QED BY <2>1, <2>2
<1> QED BY <1>2, <1>3, <1>4, <1>5, <1>6 DEF Next

(* A frame with an irregular header stays irregular until it is gone.      *)
LEMMA IrregularUntilIdle ==
  ASSUME IInv, ~RegularHeader, [Next]_vars
  PROVE  cnt' = 0 \/ ~RegularHeader'
<1>1. cnt \in Int /\ cnt >= 3 /\ buf \in [0..BufSize - 1 -> Byte]
  BY SensorFramesAssumption DEF RegularHeader, IInv, TypeOK
<1>2. ASSUME NEW b \in Bytes, Receive(b), ~FrameReset
      PROVE  Store(b)
  <2>1. ~(cnt = 0) /\ ~(cnt = 1) /\ ~(cnt = 2)
    BY <1>1
  <2>2. Payload(b)
    BY <1>2, <2>1, Zenon DEF Receive, Idle, LineOptionTag, Tag, Header
  <2> QED BY <1>2, <2>2 DEF Payload
<1>3. CASE \E b \in Bytes : Receive(b) /\ ~FrameReset
  <2> PICK b \in Bytes : Store(b)
    BY <1>2, <1>3
  <2>1. cnt' = cnt + 1 /\ buf'[1] = buf[1] /\ buf'[2] = buf[2]
    BY <1>1, SensorFramesAssumption DEF Store
  <2> QED BY <1>1, <2>1 DEF RegularHeader
<1>4. CASE FrameReset \/ SealGray \/ SealLine \/ SealMechanic \/ SealModule \/ ReceiveError
  BY <1>4 DEF FrameReset, SealGray, SealLine, SealMechanic, SealModule, ReceiveError
<1>5. CASE UNCHANGED vars
  BY <1>5 DEF vars, RegularHeader
<1> QED BY <1>3, <1>4, <1>5 DEF Next

(* The code recognises the documented grammar, for every buffer size,      *)
(* payload length, number of gray values and byte alphabet: while the      *)
(* header is regular its counters and modes accept, reject, cut and extend *)
(* the frame as the bytes themselves do, a sealed frame changes the gray   *)
(* values and the motion as documented, and an irregular frame leaves      *)
(* nothing behind that disturbs the frames after it.                       *)
THEOREM RecognisesGrammar == Spec => FollowsGrammar
<1>1. Init => Grammar!Init /\ (RegularHeader => GrammarInv)
  <2> SUFFICES ASSUME Init PROVE Grammar!Init /\ GrammarInv
    OBVIOUS
  <2>1. cnt = 0 /\ gray = [k \in 0..GraySlots - 1 |-> 0] /\ motion = 0
    BY DEF Init
  <2>2. [i \in 1..0 |-> buf[i - 1]] = <<>>
    OBVIOUS
  <2> QED BY <2>1, <2>2 DEF Grammar!Init, GrammarInv, Recognised
<1>2. /\ IInv /\ IInv' /\ (RegularHeader => GrammarInv) /\ [Next]_vars
      => (RegularHeader' => GrammarInv')
  <2> SUFFICES ASSUME IInv, IInv', RegularHeader => GrammarInv, [Next]_vars, RegularHeader'
               PROVE  GrammarInv'
    OBVIOUS
  <2>1. CASE RegularHeader
    BY <2>1, StepRefines
  <2>2. CASE cnt' = 0
    BY <2>2 DEF GrammarInv, Recognised
  <2> QED BY <2>1, <2>2, IrregularUntilIdle
<1>3. /\ IInv /\ IInv' /\ (RegularHeader => GrammarInv) /\ [Next]_vars
      => [RegularHeader /\ RegularHeader' => Grammar!Next]_(Grammar!gvars)
  BY StepRefines
<1> QED BY <1>1, <1>2, <1>3, Invariance, PTL DEF Spec, FollowsGrammar

=============================================================================
