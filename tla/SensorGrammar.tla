---------------------------- MODULE SensorGrammar ----------------------------
(***************************************************************************)
(* What open_core/PROTOCOL.md promises of the smart-sensor line: a         *)
(* recogniser of its frame grammar.  The state is the frame received so    *)
(* far; its meaning and its length follow from its own bytes, with no      *)
(* counters and no mode flags.                                             *)
(***************************************************************************)
EXTENDS Integers, Sequences, FiniteSets

CONSTANTS
  Bytes,        (* the bytes the line may carry          *)
  BufSize,      (* longest frame that can be assembled   *)
  LinePayload,  (* payload length of a line-option frame *)
  GraySlots,    (* gray values                           *)
  Noise,        (* whether receive errors happen         *)
  ByteSum(_)    (* the sum of a sequence of bytes        *)

VARIABLES
  frame,   (* bytes of the frame being received, <<>> when idle *)
  gray,    (* the gray values                                   *)
  motion   (* the dance-motion register                         *)

gvars == <<frame, gray, motion>>

Starts == {170, 254}
IsLine(f) == f[1] = 119
IsGray(f) == ~IsLine(f) /\ f[2] = 85
IsMechanic(f) == ~IsLine(f) /\ f[2] = 170
IsModule(f) == ~IsLine(f) /\ f[2] <= 63

(* The first three bytes of the four frame types.                          *)
Viable(f) ==
  /\ f[1] \in Starts \cup {119}
  /\ Len(f) > 1 => IF IsLine(f) THEN f[2] = 104
                   ELSE IsGray(f) \/ IsMechanic(f) \/ IsModule(f)
  /\ Len(f) > 2 => (IsLine(f) => f[3] = 23)

\* Payload bytes that count: an option module's 0xFE bytes are fillers.
Counted(f) == Cardinality({i \in 4..Len(f) : ~(IsModule(f) /\ f[i] = 254)})

Declared(f) ==
  IF IsLine(f) THEN LinePayload
  ELSE IF IsGray(f) THEN f[3]
  ELSE IF IsMechanic(f) THEN f[3] + 1
  ELSE f[2] + (IF f[3] = 254 THEN 1 ELSE 0)

Complete(f) == Len(f) >= 3 /\ Counted(f) = Declared(f)

\* The one-complement sum of a line-option frame.
Verified(f) == f[Len(f)] = 255 - (ByteSum(SubSeq(f, 3, Len(f) - 1)) % 256)

Init ==
  /\ frame = <<>>
  /\ gray = [k \in 0..GraySlots - 1 |-> 0]
  /\ motion = 0

(* A byte extends the frame, or the frame is abandoned because no frame    *)
(* begins like that or because it outgrows the buffer.                     *)
Extend(b) ==
  /\ ~Complete(frame)
  /\ frame' = IF Viable(Append(frame, b)) /\ Len(frame) < BufSize
              THEN Append(frame, b) ELSE <<>>
  /\ UNCHANGED <<gray, motion>>

(* The byte after a complete frame seals it and is dropped.  A gray frame  *)
(* updates only the values it fully carried.                               *)
Seal ==
  /\ Complete(frame)
  /\ frame' = <<>>
  /\ gray' = [k \in 0..GraySlots - 1 |->
                IF IsGray(frame) /\ 2 * k + 2 <= frame[3]
                THEN frame[4 + 2 * k] + 256 * frame[5 + 2 * k]
                ELSE gray[k]]
  /\ motion' = IF IsLine(frame) /\ Verified(frame) THEN frame[4] ELSE motion

(* A receive error abandons the frame.                                     *)
Abandon == Noise /\ frame' = <<>> /\ UNCHANGED <<gray, motion>>

Next == Seal \/ Abandon \/ \E b \in Bytes : Extend(b)

Spec == Init /\ [][Next]_gvars

=============================================================================
