------------------------------- MODULE BoardProofs -------------------------------
(***************************************************************************)
(* The board for every number of tasks, slots, values and files.           *)
(*                                                                         *)
(* First the emulated EEPROM by itself.  NoForeignValue is not inductive:  *)
(* what a writer will program is in its buffer, so the buffers hold own    *)
(* values too, from the first copied slot on.                              *)
(*                                                                         *)
(* Then the board implements its two services: whatever its tasks, its key *)
(* and its resets do, the EEPROM's variables behave as Eeprom specifies    *)
(* and the player's as Speech does, so what is proved of those holds here. *)
(***************************************************************************)
EXTENDS Board, TLAPS

USE EepromAssumption

Writer == [at : Stages, n : SlotNos, idx : SlotNos, value : HalfWord,
           buf : [SlotNos -> HalfWord], loaded : BOOLEAN, seen : Bits]

\* What one task is about to write is its slots' own.
OwnBuffer(u) ==
  /\ \A s \in SlotNos : wr[u].buf[s] \in Own(s)
  /\ wr[u].at = "copy" => wr[u].value \in written[wr[u].idx]

IInv == TypeOK /\ NoForeignValue /\ BootsSelected /\ \A u \in Tasks : OwnBuffer(u)

LEMMA Constants ==
  /\ 0 \in SlotNos /\ ProgramSlot \in SlotNos /\ Blank \in HalfWord
  /\ EmptyBuf \in [SlotNos -> HalfWord] /\ Out \in Writer /\ Locked \in Bits
  /\ \A s \in SlotNos : EmptyBuf[s] = Blank /\ Out.buf[s] = Blank
  /\ Out.at = "out"
<1>1. 0 \in SlotNos /\ ProgramSlot \in SlotNos /\ Blank \in HalfWord
  BY DEF SlotNos, Blank, HalfWord
<1>2. EmptyBuf \in [SlotNos -> HalfWord] /\ \A s \in SlotNos : EmptyBuf[s] = Blank
  BY <1>1 DEF EmptyBuf
<1>3. 0 \in HalfWord
  BY DEF HalfWord, Blank
<1>4. Locked \in Bits
  BY DEF Locked, Bits
<1>5. Out \in Writer /\ Out.buf = EmptyBuf /\ Out.at = "out"
  BY <1>1, <1>2, <1>3, <1>4 DEF Out, Writer, Stages
<1> QED BY <1>1, <1>2, <1>4, <1>5

(* Only the writer that steps changes.                                     *)
LEMMA OneWriter ==
  ASSUME wr \in [Tasks -> Writer], NEW t \in Tasks, NEW w \in Writer,
         wr' = [wr EXCEPT ![t] = w]
  PROVE  /\ wr' \in [Tasks -> Writer]
         /\ wr'[t] = w /\ \A u \in Tasks \ {t} : wr'[u] = wr[u]
  OBVIOUS

(* A stage passes: of the locals, only the register is forgotten.          *)
LEMMA GotoWriter ==
  ASSUME wr \in [Tasks -> Writer], NEW t \in Tasks, NEW stage \in Stages,
         Goto(t, stage)
  PROVE  /\ wr' \in [Tasks -> Writer]
         /\ wr'[t].at = stage /\ wr'[t].n = wr[t].n
         /\ wr'[t].idx = wr[t].idx /\ wr'[t].value = wr[t].value
         /\ wr'[t].buf = wr[t].buf /\ wr'[t].loaded = FALSE
         /\ \A u \in Tasks \ {t} : wr'[u] = wr[u]
<1> DEFINE w == [wr[t] EXCEPT !.at = stage, !.loaded = FALSE, !.seen = Locked]
<1>1. wr' = [wr EXCEPT ![t] = w]
  BY DEF Goto
<1>2. /\ w \in Writer /\ w.at = stage /\ w.n = wr[t].n /\ w.idx = wr[t].idx
      /\ w.value = wr[t].value /\ w.buf = wr[t].buf /\ w.loaded = FALSE
  BY Constants DEF Writer
<1> HIDE DEF w
<1> QED BY <1>1, <1>2, OneWriter

(* FLASH_CR is loaded: only the register changes.                          *)
LEMMA LoadWriter ==
  ASSUME wr \in [Tasks -> Writer], cr \in Bits, NEW t \in Tasks, Load(t)
  PROVE  /\ wr' \in [Tasks -> Writer]
         /\ wr'[t].at = wr[t].at /\ wr'[t].n = wr[t].n
         /\ wr'[t].idx = wr[t].idx /\ wr'[t].value = wr[t].value
         /\ wr'[t].buf = wr[t].buf /\ wr'[t].seen = cr
         /\ \A u \in Tasks \ {t} : wr'[u] = wr[u]
<1> DEFINE w == [wr[t] EXCEPT !.loaded = TRUE, !.seen = cr]
<1>1. wr' = [wr EXCEPT ![t] = w]
  BY DEF Load
<1>2. /\ w \in Writer /\ w.at = wr[t].at /\ w.n = wr[t].n /\ w.idx = wr[t].idx
      /\ w.value = wr[t].value /\ w.buf = wr[t].buf /\ w.seen = cr
  BY DEF Writer
<1> HIDE DEF w
<1> QED BY <1>1, <1>2, OneWriter

(* So it is in the loop over the slots.                                    *)
LEMMA NextSlotWriter ==
  ASSUME wr \in [Tasks -> Writer], NEW t \in Tasks, NextSlot(t)
  PROVE  /\ wr' \in [Tasks -> Writer]
         /\ wr'[t].at = IF wr[t].n + 1 < Slots THEN "arm" ELSE "lock"
         /\ wr'[t].n = IF wr[t].n + 1 < Slots THEN wr[t].n + 1 ELSE 0
         /\ wr'[t].idx = wr[t].idx /\ wr'[t].value = wr[t].value
         /\ wr'[t].buf = wr[t].buf /\ wr'[t].loaded = FALSE
         /\ \A u \in Tasks \ {t} : wr'[u] = wr[u]
<1>1. wr[t] \in Writer
  OBVIOUS
<1>2. 0 \in SlotNos /\ (wr[t].n + 1 < Slots => wr[t].n + 1 \in SlotNos)
  BY <1>1 DEF Writer, SlotNos
<1>3. CASE wr[t].n + 1 < Slots
  <2> DEFINE w == [wr[t] EXCEPT !.at = "arm", !.n = wr[t].n + 1,
                             !.loaded = FALSE, !.seen = Locked]
  <2>1. w \in Writer /\ wr' = [wr EXCEPT ![t] = w]
    BY <1>1, <1>2, <1>3, Constants DEF NextSlot, Writer, Stages
  <2>2. /\ w.at = "arm" /\ w.n = wr[t].n + 1 /\ w.idx = wr[t].idx
        /\ w.value = wr[t].value /\ w.buf = wr[t].buf /\ w.loaded = FALSE
    BY <1>1 DEF Writer
  <2> HIDE DEF w
  <2> QED BY <1>3, <2>1, <2>2, OneWriter
<1>4. CASE ~(wr[t].n + 1 < Slots)
  <2> DEFINE w == [wr[t] EXCEPT !.at = "lock", !.n = 0,
                             !.loaded = FALSE, !.seen = Locked]
  <2>1. w \in Writer /\ wr' = [wr EXCEPT ![t] = w]
    BY <1>1, <1>2, <1>4, Constants DEF NextSlot, Writer, Stages, CRStages
  <2>2. /\ w.at = "lock" /\ w.n = 0 /\ w.idx = wr[t].idx
        /\ w.value = wr[t].value /\ w.buf = wr[t].buf /\ w.loaded = FALSE
    BY <1>1 DEF Writer
  <2> HIDE DEF w
  <2> QED BY <1>4, <2>1, <2>2, OneWriter
<1> QED BY <1>3, <1>4

(* The last slot copied, the new value is in the buffer.                   *)
LEMMA CopyWriter ==
  ASSUME TypeOK, NEW t \in Tasks, Copy(t)
  PROVE  /\ wr' \in [Tasks -> Writer]
         /\ \A s \in SlotNos :
              wr'[t].buf[s] =
                IF s = wr[t].idx /\ ~(wr[t].n + 1 < Slots) THEN wr[t].value
                ELSE IF s = wr[t].n THEN page[s] ELSE wr[t].buf[s]
         /\ wr[t].n + 1 < Slots =>
              /\ wr'[t].at = "copy" /\ wr'[t].n = wr[t].n + 1
              /\ wr'[t].idx = wr[t].idx /\ wr'[t].value = wr[t].value
              /\ wr'[t].loaded = wr[t].loaded
         /\ ~(wr[t].n + 1 < Slots) => wr'[t].at = "unlock" /\ wr'[t].n = 0
                                    /\ wr'[t].loaded = FALSE
         /\ \A u \in Tasks \ {t} : wr'[u] = wr[u]
<1>1. wr[t] \in Writer /\ wr \in [Tasks -> Writer] /\ page \in [SlotNos -> HalfWord]
  BY DEF TypeOK, Writer
<1>2. wr[t].at = "copy"
  BY DEF Copy, At
<1> DEFINE buf == [wr[t].buf EXCEPT ![wr[t].n] = page[wr[t].n]]
<1>3. /\ buf \in [SlotNos -> HalfWord]
      /\ \A s \in SlotNos : buf[s] = IF s = wr[t].n THEN page[s] ELSE wr[t].buf[s]
  BY <1>1 DEF Writer
<1>4. wr' = [wr EXCEPT ![t] =
               IF wr[t].n + 1 < Slots
               THEN [wr[t] EXCEPT !.n = wr[t].n + 1, !.buf = buf]
               ELSE [Out EXCEPT !.at = "unlock",
                                !.buf = [buf EXCEPT ![wr[t].idx] = wr[t].value]]]
  BY DEF Copy
<1> HIDE DEF buf
<1>5. CASE wr[t].n + 1 < Slots
  <2> DEFINE w == [wr[t] EXCEPT !.n = wr[t].n + 1, !.buf = buf]
  <2>1. wr[t].n + 1 \in SlotNos
    BY <1>1, <1>5 DEF Writer, SlotNos
  <2>2. /\ w \in Writer /\ w.at = "copy" /\ w.n = wr[t].n + 1 /\ w.idx = wr[t].idx
        /\ w.value = wr[t].value /\ w.buf = buf /\ w.loaded = wr[t].loaded
    BY <1>1, <1>2, <1>3, <2>1 DEF Writer
  <2>3. wr' = [wr EXCEPT ![t] = w]
    BY <1>4, <1>5
  <2> HIDE DEF w
  <2>4. wr' \in [Tasks -> Writer] /\ wr'[t] = w /\ \A u \in Tasks \ {t} : wr'[u] = wr[u]
    BY <1>1, <2>2, <2>3, OneWriter
  <2> QED BY <1>3, <1>5, <2>2, <2>4
<1>6. CASE ~(wr[t].n + 1 < Slots)
  <2> DEFINE b == [buf EXCEPT ![wr[t].idx] = wr[t].value]
             w == [Out EXCEPT !.at = "unlock", !.buf = b]
  <2>1. /\ b \in [SlotNos -> HalfWord]
        /\ \A s \in SlotNos : b[s] = IF s = wr[t].idx THEN wr[t].value ELSE buf[s]
    BY <1>1, <1>3 DEF Writer
  <2>2. wr' = [wr EXCEPT ![t] = w]
    BY <1>4, <1>6
  <2> HIDE DEF b
  <2>3. w \in Writer /\ w.at = "unlock" /\ w.n = 0 /\ w.buf = b /\ w.loaded = FALSE
    BY <2>1, Constants DEF Writer, Out, Stages
  <2> HIDE DEF w
  <2>4. wr' \in [Tasks -> Writer] /\ wr'[t] = w /\ \A u \in Tasks \ {t} : wr'[u] = wr[u]
    BY <1>1, <2>2, <2>3, OneWriter
  <2> QED BY <1>3, <1>6, <2>1, <2>3, <2>4
<1> QED BY <1>5, <1>6

-----------------------------------------------------------------------------
(* Types, own values and the program the chip boots.                       *)

\* A step that only moves writer t on, with the buffer it has.
Advances(t) ==
  /\ wr' \in [Tasks -> Writer]
  /\ wr'[t].buf = wr[t].buf /\ wr'[t].at # "copy"
  /\ \A u \in Tasks \ {t} : wr'[u] = wr[u]

LEMMA AdvanceOwn ==
  ASSUME NEW t \in Tasks, Advances(t), \A u \in Tasks : OwnBuffer(u), UNCHANGED written
  PROVE  \A u \in Tasks : OwnBuffer(u)'
<1> TAKE u \in Tasks
<1>1. CASE u = t
  BY <1>1 DEF Advances, OwnBuffer, Own
<1>2. CASE u # t
  BY <1>2 DEF Advances, OwnBuffer, Own
<1> QED BY <1>1, <1>2

LEMMA WriteKeeps ==
  ASSUME IInv, NEW t \in Tasks, NEW s \in SlotNos, NEW v \in Values, Write(t, s, v)
  PROVE  IInv'
<1> DEFINE w == [Out EXCEPT !.at = "copy", !.idx = s, !.value = v]
<1>1. w \in Writer /\ w.at = "copy" /\ w.idx = s /\ w.value = v /\ w.buf = EmptyBuf
  BY Constants DEF Writer, Out, Stages
<1>2. wr' = [wr EXCEPT ![t] = w]
  BY DEF Write
<1>3. wr \in [Tasks -> Writer] /\ written \in [SlotNos -> SUBSET HalfWord]
  BY DEF IInv, TypeOK, Writer
<1>4. written' \in [SlotNos -> SUBSET HalfWord] /\ v \in written'[s]
      /\ \A r \in SlotNos : written[r] \subseteq written'[r]
  BY <1>3 DEF Write
<1>5. \A r \in SlotNos : Own(r) \subseteq Own(r)'
  BY <1>4 DEF Own
<1> HIDE DEF w
<1>6. wr' \in [Tasks -> Writer] /\ wr'[t] = w /\ \A u \in Tasks \ {t} : wr'[u] = wr[u]
  BY <1>1, <1>2, <1>3, OneWriter
<1>7. TypeOK'
  BY <1>4, <1>6 DEF Write, IInv, TypeOK, Writer, controller
<1>8. NoForeignValue'
  BY <1>5 DEF Write, IInv, NoForeignValue
<1>9. BootsSelected'
  <2>1. written[ProgramSlot] \subseteq written'[ProgramSlot] /\ program' = program
    BY <1>4, Constants DEF Write
  <2> QED BY <2>1 DEF IInv, BootsSelected
<1>10. ASSUME NEW u \in Tasks PROVE OwnBuffer(u)'
  <2>1. CASE u = t
    BY <2>1, <1>1, <1>4, <1>6, Constants DEF OwnBuffer, Own
  <2>2. CASE u # t
    <3>1. wr[u] \in Writer /\ wr'[u] = wr[u] /\ OwnBuffer(u)
      BY <2>2, <1>3, <1>6 DEF IInv
    <3>2. \A r \in SlotNos : wr'[u].buf[r] \in Own(r)'
      BY <3>1, <1>5 DEF OwnBuffer
    <3>3. wr'[u].at = "copy" => wr'[u].value \in written'[wr'[u].idx]
      BY <3>1, <1>4 DEF OwnBuffer, Writer
    <3> QED BY <3>2, <3>3 DEF OwnBuffer
  <2> QED BY <2>1, <2>2
<1> QED BY <1>7, <1>8, <1>9, <1>10 DEF IInv

LEMMA CopyKeeps ==
  ASSUME IInv, NEW t \in Tasks, Copy(t)
  PROVE  IInv'
<1>1. TypeOK /\ NoForeignValue /\ OwnBuffer(t)
  BY DEF IInv
<1>2. UNCHANGED <<page, controller, program, written>>
  BY DEF Copy
<1>3. wr' \in [Tasks -> Writer]
  BY <1>1, CopyWriter
<1>4. TypeOK'
  BY <1>1, <1>2, <1>3 DEF TypeOK, Writer, controller
<1>5. NoForeignValue' /\ BootsSelected'
  BY <1>2 DEF IInv, NoForeignValue, BootsSelected, Own
<1>6. wr[t] \in Writer /\ wr[t].at = "copy" /\ wr[t].value \in Own(wr[t].idx)
  BY <1>1 DEF Copy, At, OwnBuffer, Own, TypeOK, Writer
<1>7. OwnBuffer(t)'
  <2>1. \A s \in SlotNos : wr'[t].buf[s] \in Own(s)
    <3> TAKE s \in SlotNos
    <3>1. page[s] \in Own(s) /\ wr[t].buf[s] \in Own(s)
      BY <1>1 DEF NoForeignValue, OwnBuffer
    <3>2. wr'[t].buf[s] \in {wr[t].buf[s], page[s]}
          \/ (s = wr[t].idx /\ wr'[t].buf[s] = wr[t].value)
      BY <1>1, CopyWriter
    <3> QED BY <3>1, <3>2, <1>6
  <2>2. \A s \in SlotNos : wr'[t].buf[s] \in Own(s)'
    BY <2>1, <1>2 DEF Own
  <2>3. wr'[t].at = "copy" => wr'[t].value \in written'[wr'[t].idx]
    <3>1. CASE wr[t].n + 1 < Slots
      BY <3>1, <1>1, <1>2, <1>6, CopyWriter DEF OwnBuffer
    <3>2. CASE ~(wr[t].n + 1 < Slots)
      BY <3>2, <1>1, CopyWriter
    <3> QED BY <3>1, <3>2
  <2> QED BY <2>2, <2>3 DEF OwnBuffer
<1>8. ASSUME NEW u \in Tasks \ {t} PROVE OwnBuffer(u)'
  <2>1. wr'[u] = wr[u] /\ OwnBuffer(u)
    BY <1>1, CopyWriter DEF IInv
  <2> QED BY <2>1, <1>2 DEF OwnBuffer, Own
<1> QED BY <1>4, <1>5, <1>7, <1>8 DEF IInv

(* The other steps of a writer, which copy nothing.                        *)
LEMMA StepAdvances ==
  ASSUME wr \in [Tasks -> Writer], cr \in Bits, NEW t \in Tasks,
         Step(t), ~Copy(t), ~Lock(t)
  PROVE  Advances(t)
<1>1. ASSUME NEW stage \in Stages, stage # "copy", Goto(t, stage) PROVE Advances(t)
  BY <1>1, GotoWriter DEF Advances
<1>2. ASSUME NextSlot(t) PROVE Advances(t)
  BY <1>2, NextSlotWriter DEF Advances
<1>3. CASE Unlock(t) \/ ClearFlag(t) \/ ErasePage(t) \/ Arm(t)
  BY <1>1, <1>3 DEF Unlock, ClearFlag, ErasePage, Arm, Stages, CRStages
<1>4. CASE SetPER(t) \/ Start(t) \/ ClearPER(t) \/ SetPG(t) \/ ProgramHalfWord(t)
  BY <1>1, <1>4 DEF SetPER, Start, ClearPER, SetPG, ProgramHalfWord, Stages, CRStages
<1>5. CASE SkipHalfWord(t) \/ ClearPG(t)
  BY <1>2, <1>5 DEF SkipHalfWord, ClearPG
<1>6. CASE Load(t)
  <2>1. wr[t].at # "copy"
    BY <1>6 DEF Load, CRStages
  <2> QED BY <1>6, <2>1, LoadWriter DEF Advances
<1> QED BY <1>3, <1>4, <1>5, <1>6 DEF Step

(* What they do to the page: at most a half-word of the writer's buffer.   *)
LEMMA PageKeeps ==
  ASSUME IInv, NEW t \in Tasks, Step(t)
  PROVE  page' \in [SlotNos -> HalfWord] /\ \A s \in SlotNos : page'[s] \in Own(s)
<1>1. /\ page \in [SlotNos -> HalfWord] /\ wr[t] \in Writer
      /\ \A s \in SlotNos : page[s] \in Own(s) /\ wr[t].buf[s] \in Own(s)
  BY DEF IInv, TypeOK, Writer, NoForeignValue, OwnBuffer
<1>2. CASE page' = page
  BY <1>1, <1>2
<1>3. CASE page' = EmptyBuf
  BY <1>1, <1>3, Constants DEF Own
<1>4. CASE page' = [page EXCEPT ![wr[t].n] = wr[t].buf[wr[t].n]]
  BY <1>1, <1>4 DEF Writer
<1>5. CASE Start(t)
  BY <1>2, <1>3, <1>5 DEF Start
<1>6. CASE ProgramHalfWord(t)
  BY <1>2, <1>4, <1>6 DEF ProgramHalfWord
<1>7. ~Start(t) /\ ~ProgramHalfWord(t) => page' = page
  BY DEF Step, Copy, Unlock, ClearFlag, Load, ErasePage, SetPER, ClearPER,
         SkipHalfWord, Arm, SetPG, ClearPG, Lock
<1> QED BY <1>2, <1>5, <1>6, <1>7

(* FLASH_CR keeps its type, whatever is stored.                            *)
LEMMA ControllerTyped ==
  ASSUME TypeOK, NEW t \in Tasks, Step(t)
  PROVE  cr' \in Bits /\ dead' \in BOOLEAN /\ pgerr' \in BOOLEAN
<1>1. /\ wr[t].seen \in Bits /\ cr \in Bits /\ dead \in BOOLEAN /\ pgerr \in BOOLEAN
      /\ cr.lock \in BOOLEAN
  BY DEF TypeOK, Bits
<1>2. ASSUME NEW stage, NEW bits \in Bits, Store(t, stage, bits)
      PROVE  cr' \in Bits /\ dead' \in BOOLEAN /\ pgerr' \in BOOLEAN
  BY <1>1, <1>2 DEF Store
<1>3. CASE SetPER(t)
  BY <1>1, <1>2, <1>3 DEF SetPER, Bits
<1>4. CASE Start(t)
  BY <1>1, <1>2, <1>4 DEF Start
<1>5. CASE ClearPER(t)
  BY <1>1, <1>2, <1>5 DEF ClearPER, Bits
<1>6. CASE SetPG(t)
  BY <1>1, <1>2, <1>6 DEF SetPG, Bits
<1>7. CASE ClearPG(t)
  BY <1>1, <1>2, <1>7 DEF ClearPG, Bits
<1>8. CASE Lock(t)
  BY <1>1, <1>2, <1>8 DEF Lock, Bits
<1>9. CASE Unlock(t)
  <2>1. dead' \in BOOLEAN /\ cr' = [cr EXCEPT !.lock = dead'] /\ pgerr' = pgerr
    BY <1>1, <1>9 DEF Unlock
  <2> QED BY <1>1, <2>1 DEF Bits
<1>10. CASE ProgramHalfWord(t)
  <2>1. cr' = cr /\ dead' = dead /\ pgerr' \in BOOLEAN
    BY <1>10, Zenon DEF ProgramHalfWord
  <2> QED BY <1>1, <2>1
<1>11. CASE Copy(t) \/ ClearFlag(t) \/ Load(t) \/ ErasePage(t) \/ SkipHalfWord(t) \/ Arm(t)
  BY <1>1, <1>11 DEF Copy, ClearFlag, Load, ErasePage, SkipHalfWord, Arm, controller
<1> QED BY <1>3, <1>4, <1>5, <1>6, <1>7, <1>8, <1>9, <1>10, <1>11 DEF Step

LEMMA StepKeeps ==
  ASSUME IInv, NEW t \in Tasks, Step(t), ~Copy(t)
  PROVE  IInv'
<1>1. wr \in [Tasks -> Writer] /\ TypeOK /\ cr \in Bits
  BY DEF IInv, TypeOK, Writer
<1>2. UNCHANGED <<program, written>>
  BY DEF Step, Unlock, ClearFlag, Load, ErasePage, SetPER, Start, ClearPER, SkipHalfWord,
         Arm, SetPG, ProgramHalfWord, ClearPG, Lock, Store
<1>3. cr' \in Bits /\ dead' \in BOOLEAN /\ pgerr' \in BOOLEAN
  BY <1>1, ControllerTyped
<1>4. page' \in [SlotNos -> HalfWord] /\ NoForeignValue' /\ BootsSelected'
  BY <1>2, PageKeeps DEF NoForeignValue, Own, IInv, BootsSelected
<1>5. wr' \in [Tasks -> Writer] /\ \A u \in Tasks : OwnBuffer(u)'
  <2>1. CASE Lock(t)
    <3>1. /\ wr' \in [Tasks -> Writer] /\ wr'[t] = Out
          /\ \A u \in Tasks \ {t} : wr'[u] = wr[u]
      BY <2>1, <1>1, Constants, OneWriter DEF Lock
    <3>2. \A u \in Tasks \ {t} : OwnBuffer(u)'
      BY <1>2, <3>1 DEF IInv, OwnBuffer, Own
    <3>3. OwnBuffer(t)'
      BY <3>1, Constants DEF OwnBuffer, Own
    <3> QED BY <3>1, <3>2, <3>3
  <2>2. CASE ~Lock(t)
    BY <2>2, <1>1, <1>2, StepAdvances, AdvanceOwn DEF IInv, Advances
  <2> QED BY <2>1, <2>2
<1>6. TypeOK'
  BY <1>1, <1>2, <1>3, <1>4, <1>5 DEF TypeOK, Writer
<1> QED BY <1>4, <1>5, <1>6 DEF IInv

(* An erased slot selects the first program.                               *)
LEMMA BlankProgram == ProgramOf(Blank) = 1 /\ \A v \in HalfWord : ProgramOf(v) \in 1..4
  BY DEF ProgramOf, ReadEEPROM, Blank, HalfWord

LEMMA ResetKeeps ==
  ASSUME IInv, Reset
  PROVE  IInv'
<1>1. page[ProgramSlot] \in Own(ProgramSlot) /\ page[ProgramSlot] \in HalfWord
  BY Constants DEF IInv, TypeOK, NoForeignValue
<1>2. program' = ProgramOf(page[ProgramSlot]) /\ UNCHANGED <<page, written>>
  BY DEF Reset
<1>3. BootsSelected'
  <2>1. CASE page[ProgramSlot] = Blank
    BY <2>1, <1>2, BlankProgram DEF BootsSelected
  <2>2. CASE page[ProgramSlot] \in written[ProgramSlot]
    BY <2>2, <1>2 DEF BootsSelected
  <2> QED BY <1>1, <2>1, <2>2 DEF Own
<1>4. program' \in {1, 2, 3, 4}
  BY <1>1, <1>2, BlankProgram
<1>5. wr' \in [Tasks -> Writer] /\ \A u \in Tasks : wr'[u] = Out
  BY Constants DEF Reset
<1>6. TypeOK'
  BY <1>2, <1>4, <1>5, Constants DEF Reset, IInv, TypeOK, Writer
<1>7. NoForeignValue'
  BY <1>2 DEF IInv, NoForeignValue, Own
<1>8. \A u \in Tasks : OwnBuffer(u)'
  BY <1>5, Constants DEF OwnBuffer, Own
<1> QED BY <1>3, <1>6, <1>7, <1>8 DEF IInv

LEMMA NextKeeps ==
  ASSUME IInv, [Next]_vars
  PROVE  IInv'
<1>1. CASE UNCHANGED vars
  BY <1>1 DEF vars, controller, IInv, TypeOK, NoForeignValue, BootsSelected, OwnBuffer, Own
<1>2. ASSUME NEW t \in Tasks, Step(t) PROVE IInv'
  BY <1>2, CopyKeeps, StepKeeps
<1> QED BY <1>1, <1>2, WriteKeeps, ResetKeeps DEF Next

LEMMA Initially == Init => IInv
<1> SUFFICES ASSUME Init PROVE IInv
  OBVIOUS
<1>1. wr \in [Tasks -> Writer] /\ \A u \in Tasks : wr[u] = Out
  BY Constants DEF Init
<1>2. program = 1 /\ page = EmptyBuf /\ written \in [SlotNos -> SUBSET HalfWord]
  BY BlankProgram DEF Init
<1>3. TypeOK
  BY <1>1, <1>2, Constants DEF Init, TypeOK, Writer
<1>4. NoForeignValue /\ BootsSelected
  BY <1>2, Constants DEF NoForeignValue, BootsSelected, Own
<1>5. \A u \in Tasks : OwnBuffer(u)
  BY <1>1, Constants DEF OwnBuffer, Own
<1> QED BY <1>3, <1>4, <1>5 DEF IInv

LEMMA Always == Spec => []IInv
<1>1. IInv /\ [Next]_vars => IInv'
  BY NextKeeps
<1> QED BY Initially, <1>1, PTL DEF Spec

(* The variables have their types for every number of tasks and slots.     *)
THEOREM TypeCorrect == Spec => []TypeOK
<1>1. IInv => TypeOK
  BY DEF IInv
<1> QED BY Always, <1>1, PTL

(* No interleaving of any number of writers, and no reset, leaves a value  *)
(* in a slot it was not written to.                                        *)
THEOREM NothingForeign == Spec => []NoForeignValue
<1>1. IInv => NoForeignValue
  BY DEF IInv
<1> QED BY Always, <1>1, PTL

(* The program that starts is one that was selected, or the first.         *)
THEOREM BootsWhatWasSelected == Spec => []BootsSelected
<1>1. IInv => BootsSelected
  BY DEF IInv
<1> QED BY Always, <1>1, PTL

-----------------------------------------------------------------------------
(* A write that runs alone.  A quiet controller is locked, so the call     *)
(* finds it fit, dead, or with PG set.  The strengthening says, stage by   *)
(* stage, how far the page and FLASH_CR have come: either the page was     *)
(* erased and holds the new slots up to the loop's counter, or it was not, *)
(* and then, since the slots before the written one are programmed with    *)
(* what they hold, it is the old page or the new one.                      *)

Target == [SlotNos -> HalfWord]
Wants == [known : BOOLEAN, fit : BOOLEAN, old : Target, new : Target]

Opened == Stages \ {"out", "copy", "unlock"}
Filling == {"arm", "setPG", "program", "clearPG"}

\* The slots programmed so far.
Done(u) ==
  CASE wr[u].at = "clearPG" -> wr[u].n + 1 [] wr[u].at = "lock" -> Slots [] OTHER -> wr[u].n

Erased(u) ==
  /\ ~dead /\ ~pgerr
  /\ \A s \in SlotNos : page[s] = IF s < Done(u) THEN want[u].new[s] ELSE Blank

Spared(u) == ~want[u].fit /\ page \in {want[u].old, want[u].new}

\* The registers, as far as the writer's stage tells them.
Registers(u) ==
  /\ wr[u].loaded => wr[u].at \in CRStages /\ wr[u].seen = cr
  /\ want[u].fit => ~dead
  /\ want[u].fit /\ wr[u].at \notin {"program", "clearPG"} => ~cr.pg
  /\ wr[u].at \in Opened => cr.lock = dead
  /\ wr[u].at \notin Opened => cr.lock
  /\ wr[u].at \in {"erase", "setPER", "start"} => ~pgerr
  /\ wr[u].at = "start" /\ ~dead => cr.per
  /\ wr[u].at \in Filling \cup {"lock"} /\ ~dead => ~cr.per
  /\ wr[u].at = "program" /\ ~dead => cr.pg

\* The writer's buffer and the page.
Content(u) ==
  /\ \E s \in SlotNos : \A r \in SlotNos \ {s} : want[u].new[r] = want[u].old[r]
  /\ wr[u].at = "copy" => \A s \in SlotNos :
       /\ s < wr[u].n => wr[u].buf[s] = page[s]
       /\ want[u].new[s] = IF s = wr[u].idx THEN wr[u].value ELSE page[s]
  /\ wr[u].at # "copy" => \A s \in SlotNos : wr[u].buf[s] = want[u].new[s]
  /\ wr[u].at \in (Opened \cup {"unlock"}) \ (Filling \cup {"lock"}) => wr[u].n = 0
  /\ wr[u].at \notin Filling \cup {"clearPER", "lock"} => page = want[u].old
  /\ wr[u].at \in Filling \cup {"clearPER", "lock"} => Erased(u) \/ Spared(u)

Lone(u) ==
  want[u].known => wr[u].at # "out" /\ Resting(u) /\ Registers(u) /\ Content(u)

\* Whoever opened the controller has yet to lock it.
Closed ==
  /\ dead => cr.lock
  /\ cr.lock \/ \E u \in Tasks : wr[u].at \in Opened

LInv ==
  /\ TypeOK /\ want \in [Tasks -> Wants] /\ Closed
  /\ \A u \in Tasks : Lone(u)

\* A step of a writer from a stage to a stage of its own.
Passes(t, from, to) ==
  /\ wr[t].at = from /\ wr'[t].at = to /\ wr'[t].n = wr[t].n
  /\ wr'[t].buf = wr[t].buf /\ ~wr'[t].loaded

LEMMA PassesTo ==
  ASSUME wr \in [Tasks -> Writer], NEW t \in Tasks, NEW from, NEW to \in Stages,
         wr[t].at = from, Goto(t, to)
  PROVE  Passes(t, from, to)
  BY GotoWriter DEF Passes

\* A step from a slot to the next, or to the end.
Turns(t, from) ==
  /\ wr[t].at = from /\ ~wr'[t].loaded /\ wr'[t].buf = wr[t].buf
  /\ wr'[t].at = IF wr[t].n + 1 < Slots THEN "arm" ELSE "lock"
  /\ wr[t].n + 1 < Slots => wr'[t].n = wr[t].n + 1

LEMMA TurnsTo ==
  ASSUME wr \in [Tasks -> Writer], NEW t \in Tasks, NEW from, wr[t].at = from, NextSlot(t)
  PROVE  Turns(t, from)
  BY NextSlotWriter DEF Turns

LEMMA StageOf ==
  ASSUME TypeOK, NEW t \in Tasks
  PROVE  /\ SetPER(t) => Passes(t, "setPER", "start")
         /\ Start(t) => Passes(t, "start", "clearPER")
         /\ ClearPER(t) => Passes(t, "clearPER", "arm")
         /\ SetPG(t) => Passes(t, "setPG", "program")
         /\ ClearPG(t) => Turns(t, "clearPG")
         /\ Unlock(t) => Passes(t, "unlock", "clear")
         /\ ClearFlag(t) => Passes(t, "clear", "erase")
         /\ ErasePage(t) => Passes(t, "erase", IF pgerr THEN "arm" ELSE "setPER")
         /\ SkipHalfWord(t) => Turns(t, "arm")
         /\ Arm(t) => Passes(t, "arm", "setPG")
         /\ ProgramHalfWord(t) => Passes(t, "program", "clearPG")
<1>1. wr \in [Tasks -> Writer]
  BY DEF TypeOK, Writer
<1>2. /\ SetPER(t) => Passes(t, "setPER", "start")
      /\ Start(t) => Passes(t, "start", "clearPER")
      /\ ClearPER(t) => Passes(t, "clearPER", "arm")
      /\ SetPG(t) => Passes(t, "setPG", "program")
      /\ ClearPG(t) => Turns(t, "clearPG")
  BY <1>1, PassesTo, TurnsTo
     DEF SetPER, Start, ClearPER, SetPG, ClearPG, Store, At, Stages, CRStages
<1>3. /\ Unlock(t) => Passes(t, "unlock", "clear")
      /\ ClearFlag(t) => Passes(t, "clear", "erase")
      /\ ErasePage(t) => Passes(t, "erase", IF pgerr THEN "arm" ELSE "setPER")
  BY <1>1, PassesTo DEF Unlock, ClearFlag, ErasePage, At, Stages, CRStages
<1>4. /\ SkipHalfWord(t) => Turns(t, "arm")
      /\ Arm(t) => Passes(t, "arm", "setPG")
      /\ ProgramHalfWord(t) => Passes(t, "program", "clearPG")
  BY <1>1, PassesTo, TurnsTo DEF SkipHalfWord, Arm, ProgramHalfWord, At, Stages, CRStages
<1> QED BY <1>2, <1>3, <1>4

(* FLASH_CR after a store by a task alone.                                 *)
LEMMA StoreAlone ==
  ASSUME TypeOK, NEW t \in Tasks, Registers(t), NEW stage, NEW bits, Store(t, stage, bits)
  PROVE  /\ wr[t].seen = cr /\ wr[t].at = stage
         /\ cr' = IF cr.lock THEN cr ELSE bits
         /\ UNCHANGED <<dead, pgerr>>
  BY DEF Store, Registers, At

LEMMA StepRegisters ==
  ASSUME TypeOK, NEW t \in Tasks, Registers(t), Step(t), ~Lock(t),
         UNCHANGED want, cr' \in Bits, Closed
  PROVE  Registers(t)'
<1> USE DEF Registers, Opened, Stages, CRStages, Filling, Passes, Turns
<1>1. /\ wr \in [Tasks -> Writer] /\ wr[t].at \in Stages /\ cr \in Bits /\ dead \in BOOLEAN
      /\ dead => cr.lock
  BY DEF TypeOK, Writer, Closed
<1>2. CASE Copy(t)
  <2>1. wr[t].at = "copy" /\ ~wr[t].loaded /\ UNCHANGED <<cr, dead, pgerr>>
    BY <1>2 DEF Copy, At, controller
  <2>2. wr'[t].at \in {"copy", "unlock"} /\ ~wr'[t].loaded
    BY <1>2, <2>1, CopyWriter
  <2> QED BY <2>1, <2>2
<1>3. CASE Unlock(t)
  <2>1. Passes(t, "unlock", "clear") /\ cr.lock
    BY <1>3, StageOf
  <2>2. dead' = dead /\ cr' = [cr EXCEPT !.lock = dead] /\ pgerr' = pgerr
    BY <1>3, <2>1 DEF Unlock
  <2> QED BY <1>1, <2>1, <2>2 DEF Bits
<1>4. CASE ClearFlag(t)
  <2>1. Passes(t, "clear", "erase") /\ ~pgerr' /\ UNCHANGED <<cr, dead>>
    BY <1>4, StageOf DEF ClearFlag
  <2> QED BY <2>1
<1>5. CASE Load(t)
  <2>1. /\ wr[t].at \in CRStages /\ wr'[t].at = wr[t].at /\ wr'[t].seen = cr
        /\ UNCHANGED <<cr, dead, pgerr>>
    BY <1>1, <1>5, LoadWriter DEF Load, controller
  <2> QED BY <2>1
<1>6. CASE ErasePage(t)
  <2>1. Passes(t, "erase", "setPER") /\ ~pgerr /\ UNCHANGED <<cr, dead, pgerr>>
    BY <1>6, StageOf DEF ErasePage, controller
  <2> QED BY <2>1
<1>7. CASE SetPER(t)
  <2>1. Passes(t, "setPER", "start") /\ wr[t].seen = cr /\ UNCHANGED <<dead, pgerr>>
        /\ cr' = IF cr.lock THEN cr ELSE [cr EXCEPT !.per = TRUE]
    BY <1>7, StageOf, StoreAlone DEF SetPER
  <2> QED BY <1>1, <2>1 DEF Bits
<1>8. CASE Start(t)
  <2>1. Passes(t, "start", "clearPER") /\ UNCHANGED <<cr, dead, pgerr>>
    BY <1>8, StageOf, StoreAlone DEF Start
  <2> QED BY <2>1
<1>9. CASE ClearPER(t)
  <2>1. Passes(t, "clearPER", "arm") /\ UNCHANGED <<dead, pgerr>>
        /\ cr' = IF cr.lock THEN cr ELSE [cr EXCEPT !.per = FALSE]
    BY <1>9, StageOf, StoreAlone DEF ClearPER
  <2> QED BY <1>1, <2>1 DEF Bits
<1>10. CASE SkipHalfWord(t)
  <2>1. Turns(t, "arm") /\ UNCHANGED <<cr, dead, pgerr>>
    BY <1>10, StageOf DEF SkipHalfWord, controller
  <2> QED BY <2>1
<1>11. CASE Arm(t)
  <2>1. Passes(t, "arm", "setPG") /\ UNCHANGED <<cr, dead, pgerr>>
    BY <1>11, StageOf DEF Arm, controller
  <2> QED BY <2>1
<1>12. CASE SetPG(t)
  <2>1. Passes(t, "setPG", "program") /\ UNCHANGED <<dead, pgerr>>
        /\ cr' = IF cr.lock THEN cr ELSE [cr EXCEPT !.pg = TRUE]
    BY <1>12, StageOf, StoreAlone DEF SetPG
  <2> QED BY <1>1, <2>1 DEF Bits
<1>13. CASE ProgramHalfWord(t)
  <2>1. Passes(t, "program", "clearPG") /\ UNCHANGED <<cr, dead>>
    BY <1>13, StageOf DEF ProgramHalfWord
  <2> QED BY <2>1
<1>14. CASE ClearPG(t)
  <2>1. Turns(t, "clearPG") /\ UNCHANGED <<dead, pgerr>>
        /\ cr' = IF cr.lock THEN cr ELSE [cr EXCEPT !.pg = FALSE]
    BY <1>14, StageOf, StoreAlone DEF ClearPG
  <2> QED BY <1>1, <2>1 DEF Bits
<1> QED BY <1>2, <1>3, <1>4, <1>5, <1>6, <1>7, <1>8, <1>9, <1>10, <1>11, <1>12, <1>13, <1>14
        DEF Step

LEMMA CopyContent ==
  ASSUME TypeOK, NEW t \in Tasks, Content(t), Copy(t), want' = want
  PROVE  Content(t)'
<1>1. page' = page /\ wr[t].at = "copy" /\ wr[t] \in Writer
  BY DEF Copy, At, TypeOK, Writer
<1>2. /\ page = want[t].old
      /\ \E s \in SlotNos : \A r \in SlotNos \ {s} : want[t].new[r] = want[t].old[r]
  BY <1>1 DEF Content, Filling
<1>3. \A s \in SlotNos :
        /\ s < wr[t].n => wr[t].buf[s] = page[s]
        /\ want[t].new[s] = IF s = wr[t].idx THEN wr[t].value ELSE page[s]
  BY <1>1 DEF Content
<1>4. \A s \in SlotNos : s \in Int /\ wr[t].n \in Int
  BY <1>1 DEF SlotNos, Writer
<1>5. CASE wr[t].n + 1 < Slots
  <2>1. /\ wr'[t].at = "copy" /\ wr'[t].n = wr[t].n + 1
        /\ wr'[t].idx = wr[t].idx /\ wr'[t].value = wr[t].value
    BY <1>5, CopyWriter
  <2>2. \A s \in SlotNos : s < wr[t].n + 1 => wr'[t].buf[s] = page[s]
    <3> TAKE s \in SlotNos
    <3>1. wr'[t].buf[s] = IF s = wr[t].n THEN page[s] ELSE wr[t].buf[s]
      BY <1>5, CopyWriter
    <3>2. s < wr[t].n + 1 => s < wr[t].n \/ s = wr[t].n
      BY <1>4
    <3> QED BY <1>3, <3>1, <3>2
  <2> QED BY <1>1, <1>2, <1>3, <2>1, <2>2 DEF Content, Filling, Opened
<1>6. CASE ~(wr[t].n + 1 < Slots)
  <2>1. wr'[t].at = "unlock" /\ wr'[t].n = 0
    BY <1>6, CopyWriter
  <2>2. \A s \in SlotNos : s < wr[t].n \/ s = wr[t].n
    BY <1>1, <1>6 DEF SlotNos, Writer
  <2>3. \A s \in SlotNos : wr'[t].buf[s] = want[t].new[s]
    <3> TAKE s \in SlotNos
    <3>1. wr'[t].buf[s] = IF s = wr[t].idx THEN wr[t].value
                          ELSE IF s = wr[t].n THEN page[s] ELSE wr[t].buf[s]
      BY <1>6, CopyWriter
    <3> QED BY <1>3, <2>2, <3>1
  <2> QED BY <1>1, <1>2, <2>1, <2>3 DEF Content, Filling
<1> QED BY <1>5, <1>6

(* A step that leaves the page and the slots programmed as they are.       *)
LEMMA QuietContent ==
  ASSUME TypeOK, NEW t \in Tasks, Content(t), Step(t),
         ~Copy(t), ~Start(t), ~ProgramHalfWord(t), ~Lock(t), ~(ErasePage(t) /\ pgerr),
         UNCHANGED <<want, dead>>
  PROVE  Content(t)'
<1> USE DEF Opened, Stages, CRStages, Filling, Passes, Turns
<1>1. /\ page' = page /\ (pgerr' => pgerr) /\ wr \in [Tasks -> Writer]
      /\ wr[t] \in Writer /\ cr \in Bits
  BY DEF Step, Unlock, ClearFlag, Load, ErasePage, SetPER, ClearPER, SkipHalfWord,
         Arm, SetPG, ClearPG, Store, controller, TypeOK, Writer
<1>2. ASSUME wr'[t].buf = wr[t].buf, wr[t].at # "copy", wr'[t].at # "copy",
             wr'[t].at \in Stages, wr'[t].at \in Filling \cup {"clearPER", "lock"} =>
               /\ wr[t].at \in Filling \cup {"clearPER", "lock"} /\ Done(t)' = Done(t),
             wr'[t].at \notin Filling \cup {"clearPER", "lock"} =>
               wr[t].at \notin Filling \cup {"clearPER", "lock"},
             wr'[t].at \in (Opened \cup {"unlock"}) \ (Filling \cup {"lock"}) => wr'[t].n = 0
      PROVE  Content(t)'
  <2>1. /\ \E s \in SlotNos : \A r \in SlotNos \ {s} : want'[t].new[r] = want'[t].old[r]
        /\ \A s \in SlotNos : wr'[t].buf[s] = want'[t].new[s]
    BY <1>2 DEF Content
  <2>2. Erased(t) /\ Done(t)' = Done(t) => Erased(t)'
    BY <1>1 DEF Erased
  <2>3. Spared(t) => Spared(t)'
    BY <1>1 DEF Spared
  <2> HIDE DEF Opened, Stages, CRStages, Filling
  <2>4. page = want[t].old => page' = want'[t].old
    BY <1>1
  <2> QED BY <1>2, <2>1, <2>2, <2>3, <2>4 DEF Content
<1>3. CASE Unlock(t)
  <2>1. Passes(t, "unlock", "clear")
    BY <1>3, StageOf
  <2>2. wr[t].n = 0
    BY <2>1 DEF Content
  <2> QED BY <1>2, <2>1, <2>2
<1>4. CASE ClearFlag(t) \/ ErasePage(t) \/ SetPER(t)
  <2>1. \/ Passes(t, "clear", "erase") \/ Passes(t, "erase", "setPER")
        \/ Passes(t, "setPER", "start")
    BY <1>4, StageOf
  <2>2. wr[t].n = 0
    BY <2>1 DEF Content
  <2> QED BY <1>2, <2>1, <2>2
<1>5. CASE Load(t)
  <2>1. /\ wr[t].at \in CRStages /\ wr'[t].at = wr[t].at /\ wr'[t].n = wr[t].n
        /\ wr'[t].buf = wr[t].buf
    BY <1>1, <1>5, LoadWriter DEF Load
  <2>2. Done(t)' = Done(t)
    BY <2>1 DEF Done
  <2>3. wr'[t].at \in (Opened \cup {"unlock"}) \ (Filling \cup {"lock"}) => wr'[t].n = 0
    BY <2>1 DEF Content
  <2> QED BY <1>2, <2>1, <2>2, <2>3
<1>6. CASE ClearPER(t) \/ Arm(t) \/ SetPG(t)
  <2>1. \/ Passes(t, "clearPER", "arm") \/ Passes(t, "arm", "setPG")
        \/ Passes(t, "setPG", "program")
    BY <1>6, StageOf
  <2>2. Done(t)' = Done(t)
    BY <2>1 DEF Done
  <2> QED BY <1>2, <2>1, <2>2
<1>7. CASE ClearPG(t)
  <2>1. Turns(t, "clearPG") /\ wr[t].n \in SlotNos
    BY <1>1, <1>7, StageOf DEF Writer
  <2>2. CASE wr[t].n + 1 < Slots
    <3>1. Done(t)' = Done(t)
      BY <2>1, <2>2 DEF Done
    <3> QED BY <1>2, <2>1, <2>2, <3>1
  <2>3. CASE ~(wr[t].n + 1 < Slots)
    <3>1. Slots = wr[t].n + 1
      BY <2>1, <2>3 DEF SlotNos
    <3>2. Done(t)' = Done(t)
      BY <2>1, <2>3, <3>1 DEF Done
    <3> QED BY <1>2, <2>1, <2>3, <3>2
  <2> QED BY <2>2, <2>3
<1>8. CASE SkipHalfWord(t)
  <2>1. Turns(t, "arm") /\ pgerr
    BY <1>8, StageOf DEF SkipHalfWord
  <2>2. Spared(t)
    BY <2>1 DEF Content, Erased
  <2>3. Spared(t)'
    BY <1>1, <2>2 DEF Spared
  <2>4. /\ \E s \in SlotNos : \A r \in SlotNos \ {s} : want'[t].new[r] = want'[t].old[r]
        /\ \A s \in SlotNos : wr'[t].buf[s] = want'[t].new[s]
    BY <2>1 DEF Content
  <2> QED BY <2>1, <2>3, <2>4 DEF Content
<1> QED BY <1>3, <1>4, <1>5, <1>6, <1>7, <1>8 DEF Step

LEMMA StartContent ==
  ASSUME TypeOK, NEW t \in Tasks, Registers(t), Content(t), Start(t), Closed
  PROVE  Content(t)'
<1>1. Passes(t, "start", "clearPER") /\ wr[t].seen = cr /\ UNCHANGED <<dead, pgerr, want>>
  BY StageOf, StoreAlone DEF Start
<1>2. /\ ~pgerr /\ cr.lock = dead /\ (~dead => cr.per) /\ (want[t].fit => ~dead /\ ~cr.pg)
      /\ wr[t].n = 0 /\ page = want[t].old
      /\ \A s \in SlotNos : wr[t].buf[s] = want[t].new[s]
      /\ \E s \in SlotNos : \A r \in SlotNos \ {s} : want[t].new[r] = want[t].old[r]
  BY <1>1 DEF Registers, Content, Passes, Opened, Stages, CRStages, Filling
<1>3. page' \in IF cr.lock \/ ~cr.per THEN {page}
                ELSE IF cr.pg \/ cr.lock THEN {page, EmptyBuf} ELSE {EmptyBuf}
  BY <1>1 DEF Start
<1>4. dead \in BOOLEAN /\ cr.lock \in BOOLEAN /\ want'[t] = want[t]
  BY <1>1 DEF TypeOK, Bits
<1>5. CASE page' = EmptyBuf /\ ~dead
  <2>1. Done(t)' = 0
    BY <1>1, <1>2 DEF Done, Passes
  <2>2. \A s \in SlotNos : ~(s < 0) /\ page'[s] = Blank
    BY <1>5, Constants DEF SlotNos
  <2>3. Erased(t)'
    BY <1>1, <1>2, <1>5, <2>1, <2>2 DEF Erased
  <2> QED BY <1>1, <1>2, <1>4, <2>3 DEF Content, Passes, Filling, Opened, Stages
<1>6. CASE page' = page /\ ~want[t].fit
  <2>1. Spared(t)'
    BY <1>2, <1>4, <1>6 DEF Spared
  <2> QED BY <1>1, <1>2, <1>4, <2>1 DEF Content, Passes, Filling, Opened, Stages
<1> QED BY <1>2, <1>3, <1>4, <1>5, <1>6

LEMMA SamePage ==
  ASSUME NEW p \in Target, NEW q \in Target, \A r \in SlotNos : p[r] = q[r]
  PROVE  p = q
  BY DEF Target

LEMMA ProgramContent ==
  ASSUME TypeOK, NEW t \in Tasks, Registers(t), Content(t), ProgramHalfWord(t),
         want \in [Tasks -> Wants], Closed
  PROVE  Content(t)'
<1> DEFINE n == wr[t].n
<1>1. /\ Passes(t, "program", "clearPG") /\ UNCHANGED <<cr, dead, want>>
  BY StageOf DEF ProgramHalfWord
<1>2. /\ n \in SlotNos /\ n \in Int /\ page \in Target /\ wr[t] \in Writer
      /\ want[t].old \in Target /\ want[t].new \in Target
  BY DEF TypeOK, Writer, SlotNos, Target, Wants
<1>3. /\ \A s \in SlotNos : wr[t].buf[s] = want[t].new[s]
      /\ \E s \in SlotNos : \A r \in SlotNos \ {s} : want[t].new[r] = want[t].old[r]
      /\ Erased(t) \/ Spared(t)
  BY <1>1 DEF Content, Passes, Filling
<1>4. /\ cr.lock = dead /\ (~dead => cr.pg /\ ~cr.per)
  BY <1>1 DEF Registers, Passes, Opened, Stages, Filling, CRStages
<1>5. PICK done \in IF (~cr.lock /\ cr.pg) /\ cr.per THEN BOOLEAN ELSE {~cr.lock /\ cr.pg} :
        /\ page' = IF done /\ (page[n] = Blank \/ wr[t].buf[n] = 0)
                   THEN [page EXCEPT ![n] = wr[t].buf[n]] ELSE page
        /\ pgerr' = (pgerr \/ (done /\ ~(page[n] = Blank \/ wr[t].buf[n] = 0)))
  BY DEF ProgramHalfWord
<1> HIDE DEF n
<1>6. CASE Erased(t)
  <2>1. /\ ~dead /\ ~pgerr /\ Done(t) = n
        /\ \A s \in SlotNos : page[s] = IF s < n THEN want[t].new[s] ELSE Blank
    BY <1>1, <1>6 DEF Erased, Done, Passes, n
  <2>2. done /\ page[n] = Blank
    <3>1. page[n] = IF n < n THEN want[t].new[n] ELSE Blank
      BY <1>2, <2>1
    <3>2. ~cr.lock /\ cr.pg /\ ~cr.per
      BY <1>4, <2>1
    <3>3. page[n] = Blank /\ done \in {TRUE}
      <4>1. cr.lock = FALSE /\ cr.pg = TRUE /\ cr.per = FALSE
        BY <3>2 DEF TypeOK, Bits
      <4>2. done \in {TRUE}
        BY <4>1
      <4> QED BY <1>2, <3>1, <4>2
    <3> QED BY <3>3
  <2>3. page' = [page EXCEPT ![n] = wr[t].buf[n]] /\ ~pgerr'
    BY <1>5, <2>1, <2>2
  <2>4. \A s \in SlotNos : page'[s] = IF s < n + 1 THEN want[t].new[s] ELSE Blank
    <3> TAKE s \in SlotNos
    <3>1. s \in Int
      BY DEF SlotNos
    <3>2. page'[s] = IF s = n THEN want[t].new[s] ELSE page[s]
      BY <1>2, <1>3, <2>3 DEF Target
    <3> QED BY <1>2, <2>1, <3>1, <3>2
  <2>5. Done(t)' = n + 1
    BY <1>1 DEF Done, Passes, n
  <2>6. Erased(t)'
    BY <1>1, <2>1, <2>3, <2>4, <2>5 DEF Erased
  <2> QED BY <1>1, <1>3, <2>6 DEF Content, Passes, Filling, Opened, Stages
<1>7. CASE Spared(t)
  <2>1. PICK s \in SlotNos : \A r \in SlotNos \ {s} : want[t].new[r] = want[t].old[r]
    BY <1>3
  <2>2. page' \in {want[t].old, want[t].new}
    <3>1. CASE page' = page
      BY <1>7, <3>1 DEF Spared
    <3>2. CASE page' = [page EXCEPT ![n] = wr[t].buf[n]]
      <4>1. page' \in Target /\ \A r \in SlotNos : page'[r] = IF r = n THEN want[t].new[r]
                                                             ELSE page[r]
        BY <1>2, <1>3, <3>2 DEF Target, Writer
      <4>2. CASE page = want[t].new
        <5>1. \A r \in SlotNos : page'[r] = want[t].new[r]
          BY <4>1, <4>2
        <5> QED BY <1>2, <4>1, <5>1, SamePage
      <4>3. CASE page = want[t].old /\ n = s
        <5>1. \A r \in SlotNos : page'[r] = want[t].new[r]
          BY <2>1, <4>1, <4>3
        <5> QED BY <1>2, <4>1, <5>1, SamePage
      <4>4. CASE page = want[t].old /\ n # s
        <5>1. \A r \in SlotNos : page'[r] = want[t].old[r]
          BY <1>2, <2>1, <4>1, <4>4
        <5> QED BY <1>2, <4>1, <5>1, SamePage
      <4> QED BY <1>7, <4>2, <4>3, <4>4 DEF Spared
    <3> QED BY <1>5, <3>1, <3>2
  <2>3. Spared(t)'
    BY <1>1, <1>7, <2>2 DEF Spared
  <2> QED BY <1>1, <1>3, <2>3 DEF Content, Passes, Filling, Opened, Stages
<1> QED BY <1>3, <1>6, <1>7

(* Whoever opened the controller has yet to lock it.                       *)
LEMMA StepClosed ==
  ASSUME TypeOK, Closed, NEW t \in Tasks, Step(t)
  PROVE  Closed'
<1> USE DEF Closed, Opened, Stages, CRStages, Passes, Turns
<1>1. wr \in [Tasks -> Writer] /\ cr \in Bits /\ dead \in BOOLEAN
  BY DEF TypeOK, Writer
<1>2. ASSUME UNCHANGED <<cr, dead>>, wr[t].at \in Opened => wr'[t].at \in Opened,
             \A u \in Tasks \ {t} : wr'[u] = wr[u]
      PROVE  Closed'
  BY <1>2
<1>3. CASE Lock(t)
  <2>1. cr'.lock /\ dead' = dead
    BY <1>1, <1>3 DEF Lock, Store, Bits, TypeOK
  <2> QED BY <2>1
<1>4. CASE ~Lock(t)
  <2>1. ASSUME wr'[t].at \in Opened, dead' => cr'.lock PROVE Closed'
    BY <2>1
  <2>2. CASE Copy(t)
    <3>1. UNCHANGED <<cr, dead>> /\ wr[t].at = "copy"
      BY <2>2 DEF Copy, At, controller
    <3> QED BY <1>2, <2>2, <3>1, CopyWriter
  <2>3. CASE Unlock(t)
    <3>1. Passes(t, "unlock", "clear") /\ dead' \in BOOLEAN /\ cr'.lock = dead'
      BY <1>1, <2>3, StageOf DEF Unlock, Bits
    <3> QED BY <2>1, <3>1
  <2>4. CASE Load(t)
    <3>1. wr'[t].at \in Opened /\ UNCHANGED <<cr, dead>>
      BY <1>1, <2>4, LoadWriter DEF Load, controller
    <3> QED BY <2>1, <3>1
  <2>5. ASSUME dead' = dead, cr.lock => cr' = cr, wr'[t].at \in Opened PROVE Closed'
    BY <2>1, <2>5
  <2>6. CASE SetPER(t) \/ Start(t) \/ ClearPER(t) \/ SetPG(t) \/ ClearPG(t)
    <3>1. dead' = dead /\ (cr.lock => cr' = cr)
      BY <2>6 DEF SetPER, Start, ClearPER, SetPG, ClearPG, Store
    <3>2. wr'[t].at \in Opened
      BY <2>6, StageOf
    <3> QED BY <2>5, <3>1, <3>2
  <2>7. CASE ClearFlag(t) \/ ErasePage(t) \/ SkipHalfWord(t) \/ Arm(t) \/ ProgramHalfWord(t)
    <3>1. UNCHANGED <<cr, dead>>
      BY <2>7 DEF ClearFlag, ErasePage, SkipHalfWord, Arm, ProgramHalfWord, controller
    <3>2. wr'[t].at \in Opened
      BY <2>7, StageOf
    <3> QED BY <2>5, <3>1, <3>2
  <2> QED BY <1>4, <2>2, <2>3, <2>4, <2>6, <2>7 DEF Step
<1> QED BY <1>3, <1>4

(* A step of a writer: nobody else's write is a lone one.                  *)
LEMMA StepLone ==
  ASSUME LInv, NEW t \in Tasks, Step(t), TypeOK'
  PROVE  LInv'
<1>1. wr[t].at # "out" /\ wr \in [Tasks -> Writer] /\ cr \in Bits /\ cr' \in Bits
  BY DEF Step, Copy, Unlock, ClearFlag, Load, ErasePage, SetPER, Start, ClearPER,
         SkipHalfWord, Arm, SetPG, ProgramHalfWord, ClearPG, Lock, Store, At, CRStages,
         LInv, TypeOK, Writer
<1>2. \A u \in Tasks \ {t} : ~want[u].known
  BY <1>1 DEF LInv, Lone, Resting, At
<1>3. Closed'
  BY StepClosed DEF LInv
<1>4. CASE Lock(t)
  <2>1. want' = [want EXCEPT ![t] = Unknown]
    BY <1>4 DEF Lock
  <2>2. Unknown \in Wants /\ ~Unknown.known
    BY Constants DEF Unknown, Wants, Target
  <2>3. want' \in [Tasks -> Wants] /\ \A u \in Tasks : ~want'[u].known
    BY <1>2, <2>1, <2>2 DEF LInv
  <2> QED BY <1>3, <2>3 DEF LInv, Lone, Wants, Target
<1>5. CASE ~Lock(t)
  <2>1. want' = want
    BY <1>5 DEF Step, Copy, Unlock, ClearFlag, Load, ErasePage, SetPER, Start, ClearPER,
                SkipHalfWord, Arm, SetPG, ProgramHalfWord, ClearPG
  <2>2. ASSUME want[t].known PROVE Registers(t)' /\ Content(t)'
    <3>1. Registers(t) /\ Content(t) /\ TypeOK /\ Closed /\ want \in [Tasks -> Wants]
      BY <2>2 DEF LInv, Lone
    <3>2. Registers(t)'
      BY <1>1, <1>5, <2>1, <3>1, StepRegisters
    <3>3. CASE Copy(t)
      BY <2>1, <3>1, <3>2, <3>3, CopyContent
    <3>4. CASE Start(t)
      BY <3>1, <3>2, <3>4, StartContent
    <3>5. CASE ProgramHalfWord(t)
      BY <3>1, <3>2, <3>5, ProgramContent
    <3>6. CASE ~Copy(t) /\ ~Start(t) /\ ~ProgramHalfWord(t)
      <4>1. ~(ErasePage(t) /\ pgerr)
        BY <3>1 DEF ErasePage, At, Registers
      <4>2. dead' = dead
        <5>1. CASE Unlock(t)
          <6>1. cr.lock
            BY <3>1, <5>1 DEF Unlock, At, Registers, Opened
          <6> QED BY <5>1, <6>1 DEF Unlock
        <5>2. CASE ~Unlock(t)
          BY <1>5, <3>6, <5>2
             DEF Step, ClearFlag, Load, ErasePage, SetPER, ClearPER, SkipHalfWord, Arm,
                 SetPG, ClearPG, Store, controller
        <5> QED BY <5>1, <5>2
      <4> QED BY <1>5, <2>1, <3>1, <3>2, <3>6, <4>1, <4>2, QuietContent
    <3> QED BY <3>2, <3>3, <3>4, <3>5, <3>6
  <2>3. wr'[t].at # "out" /\ \A u \in Tasks \ {t} : wr'[u] = wr[u]
    <3>1. CASE Copy(t)
      BY <3>1, CopyWriter DEF LInv
    <3>2. CASE ~Copy(t)
      <4>1. Advances(t)
        BY <1>1, <1>5, <3>2, StepAdvances
      <4>2. TypeOK
        BY DEF LInv
      <4>3. CASE Load(t)
        BY <1>1, <4>3, LoadWriter DEF Load, CRStages
      <4>4. CASE ~Load(t)
        <5> USE <4>1, <4>2 DEF Passes, Turns, Advances
        <5>1. CASE Unlock(t) \/ ClearFlag(t) \/ ErasePage(t) \/ SetPER(t) \/ Start(t)
                   \/ ClearPER(t)
          BY <5>1, StageOf
        <5>2. CASE SkipHalfWord(t) \/ Arm(t) \/ SetPG(t) \/ ProgramHalfWord(t)
                   \/ ClearPG(t)
          BY <5>2, StageOf
        <5> QED BY <1>5, <3>2, <4>4, <5>1, <5>2, Zenon DEF Step
      <4> QED BY <4>1, <4>3, <4>4 DEF Advances
    <3> QED BY <3>1, <3>2
  <2>4. Lone(t)'
    BY <2>1, <2>2, <2>3 DEF LInv, Lone, Resting, At
  <2>5. \A u \in Tasks \ {t} : Lone(u)'
    BY <1>2, <2>1 DEF Lone
  <2> QED BY <1>3, <2>1, <2>4, <2>5 DEF LInv, Wants, Target
<1> QED BY <1>4, <1>5

LEMMA WriteLone ==
  ASSUME LInv, NEW t \in Tasks, NEW s \in SlotNos, NEW v \in Values, Write(t, s, v),
         TypeOK'
  PROVE  LInv'
<1>1. /\ wr \in [Tasks -> Writer] /\ page \in Target /\ v \in HalfWord
      /\ dead \in BOOLEAN /\ cr \in Bits /\ wr[t].at = "out" /\ Closed
  BY DEF LInv, TypeOK, Writer, Target, Write, At
<1> DEFINE w == [Out EXCEPT !.at = "copy", !.idx = s, !.value = v]
           p == [page EXCEPT ![s] = v]
           k == [known |-> TRUE, fit |-> ~dead /\ ~cr.pg, old |-> page, new |-> p]
<1>2. /\ w \in Writer /\ w.at = "copy" /\ w.idx = s /\ w.value = v /\ w.n = 0
      /\ ~w.loaded /\ wr' = [wr EXCEPT ![t] = w]
  BY <1>1, Constants DEF Writer, Out, Stages, Write
<1>3. p \in Target /\ \A r \in SlotNos : p[r] = IF r = s THEN v ELSE page[r]
  BY <1>1 DEF Target
<1>4. want' = [u \in Tasks |-> IF u = t /\ Resting(t) THEN k ELSE Unknown]
  BY DEF Write
<1>5. UNCHANGED <<page, cr, dead, pgerr>>
  BY DEF Write, controller
<1>6. Unknown \in Wants /\ ~Unknown.known
  BY Constants DEF Unknown, Wants, Target
<1>7. k \in Wants /\ k.old = page /\ k.new = p /\ (k.fit => ~dead /\ ~cr.pg)
  BY <1>1, <1>3 DEF Wants, Bits
<1> HIDE DEF w, p, k
<1>8. wr'[t] = w /\ \A u \in Tasks \ {t} : wr'[u] = wr[u]
  BY <1>1, <1>2, OneWriter
<1>9. want' \in [Tasks -> Wants]
  BY <1>4, <1>6, <1>7
<1>10. \A u \in Tasks \ {t} : Lone(u)'
  BY <1>4, <1>6 DEF Lone
<1>11. Closed'
  <2>1. \A u \in Tasks : wr[u].at \in Opened => u # t
    BY <1>1 DEF Opened
  <2> QED BY <1>1, <1>5, <1>8, <2>1 DEF Closed
<1>12. ASSUME want'[t].known PROVE Resting(t)' /\ Registers(t)' /\ Content(t)'
  <2>1. Resting(t) /\ want'[t] = k
    BY <1>4, <1>6, <1>12
  <2>2. Resting(t)'
    BY <2>1, <1>8 DEF Resting, At
  <2>3. cr.lock
    <3>1. \A u \in Tasks : wr[u].at = "out"
      BY <1>1, <2>1 DEF Resting, At
    <3> QED BY <1>1, <3>1 DEF Closed, Opened
  <2>4. Registers(t)'
    BY <1>2, <1>5, <1>7, <1>8, <2>1, <2>3 DEF Registers, Opened, Filling
  <2>5. \A r \in SlotNos : ~(r < 0)
    BY DEF SlotNos
  <2>6. Content(t)'
    BY <1>2, <1>3, <1>5, <1>7, <1>8, <2>1, <2>5 DEF Content, Opened, Filling
  <2> QED BY <2>2, <2>4, <2>6
<1>13. Lone(t)'
  BY <1>2, <1>8, <1>12 DEF Lone
<1> QED BY <1>9, <1>10, <1>11, <1>13 DEF LInv, Wants, Target

LEMMA LoneKept ==
  ASSUME IInv, LInv, [Next]_vars
  PROVE  LInv'
<1>1. TypeOK'
  BY NextKeeps DEF IInv
<1>2. CASE UNCHANGED vars
  BY <1>1, <1>2 DEF vars, controller, LInv, Lone, Registers, Content, Erased, Spared, Done,
                    Closed, Resting, At, Wants, Target
<1>3. CASE Reset
  <2>1. Unknown \in Wants /\ ~Unknown.known
    BY Constants DEF Unknown, Wants, Target
  <2>2. want' \in [Tasks -> Wants] /\ \A u \in Tasks : ~want'[u].known
    BY <1>3, <2>1 DEF Reset
  <2>3. Closed'
    BY <1>3 DEF Reset, Closed, Locked
  <2> QED BY <1>1, <2>2, <2>3 DEF LInv, Lone, Wants, Target
<1> QED BY <1>1, <1>2, <1>3, WriteLone, StepLone DEF Next

(* Whatever earlier overlaps left in the controller, a write that runs     *)
(* alone leaves exactly the page it asks for, or, if they left the         *)
(* controller dead or PG set, the page it found.                           *)
THEOREM LoneWriteIsExact == Spec => []LoneWriteLands
<1>1. Init => LInv
  <2> SUFFICES ASSUME Init PROVE LInv
    OBVIOUS
  <2>1. Unknown \in Wants /\ ~Unknown.known
    BY Constants DEF Unknown, Wants, Target
  <2>2. want \in [Tasks -> Wants] /\ \A u \in Tasks : ~want[u].known
    BY <2>1 DEF Init
  <2>3. Closed
    BY DEF Init, Closed, Locked
  <2> QED BY <2>2, <2>3, Initially DEF IInv, LInv, Lone
<1>2. IInv /\ LInv /\ [Next]_vars => LInv'
  BY LoneKept
<1>3. LInv => LoneWriteLands
  <2> SUFFICES ASSUME LInv, NEW t \in Tasks, At(t, "lock"), want[t].known
               PROVE  page = want[t].new \/ (~want[t].fit /\ page = want[t].old)
    BY DEF LoneWriteLands
  <2>1. Erased(t) \/ Spared(t)
    BY DEF LInv, Lone, Content, At
  <2>2. page \in Target /\ want[t].new \in Target
    BY DEF LInv, TypeOK, Target, Wants
  <2>3. CASE Erased(t)
    <3>1. \A s \in SlotNos : s < Slots
      BY DEF SlotNos
    <3>2. \A s \in SlotNos : page[s] = want[t].new[s]
      BY <2>3, <3>1 DEF Erased, Done, At
    <3> QED BY <2>2, <3>2, SamePage
  <2> QED BY <2>1, <2>3 DEF Spared
<1> QED BY Always, <1>1, <1>2, <1>3, PTL DEF Spec

-----------------------------------------------------------------------------
(* The player, for every set of speakers and files.  However callers       *)
(* overlap, the machine is idle once all of them are out.  A caller alone  *)
(* gets its blocks in order, all but the last of several: the              *)
(* strengthening says, stage by stage, which block each of the two buffers *)
(* holds, which one the channel plays and what is still unread; the caller *)
(* of a file without data waits for a channel armed for no sample.         *)

Sounds == Files \cup {Click}

LEMMA SpeechAssumed == Player!SpeechAssumption
BY BoardAssumption DEF Player!SpeechAssumption, Player!Nobody

USE SpeechAssumed DEF Player!SpeechAssumption, Sounds

Places == Player!Inside \cup {"out", "stop"}
Caller == [at : Places, file : Nat \cup {Player!Rejected}, buf : 1..2, len : Nat]
Channel == [on : BOOLEAN, buf : 1..2, len : Nat]

Types ==
  /\ Player!SpeechAssumption
  /\ says \in [Speakers -> Caller]
  /\ playState \in {0, 1, 3, 4, 5} /\ left \in Nat /\ read \in Nat
  /\ pageIndex \in 0..1 /\ pEncode \in 1..2
  /\ hwBuff \in [1..2 -> Nat] /\ playLength \in Nat
  /\ dma \in Channel
  /\ heard \in Seq(Nat) /\ lone \in Speakers \cup {Player!Nobody}

-----------------------------------------------------------------------------
(* What the parts of a step do.                                            *)

LEMMA SilentIsOut ==
  /\ Player!Silent \in Caller /\ Player!Silent.at = "out" /\ Player!Idle \in Channel
  /\ ~Player!Idle.on
BY DEF Player!Silent, Player!Idle, Caller, Channel, Places

LEMMA GotoCaller ==
  ASSUME says \in [Speakers -> Caller], NEW t \in Speakers, NEW where \in Places,
         Player!Goto(t, where)
  PROVE  /\ says' \in [Speakers -> Caller]
         /\ says'[t].at = where /\ says'[t].file = says[t].file
         /\ \A u \in Speakers \ {t} : says'[u] = says[u]
  BY DEF Player!Goto, Caller

LEMMA SetCaller ==
  ASSUME says \in [Speakers -> Caller], NEW t \in Speakers, NEW c \in Caller,
         says' = [says EXCEPT ![t] = c]
  PROVE  /\ says' \in [Speakers -> Caller]
         /\ says'[t] = c /\ \A u \in Speakers \ {t} : says'[u] = says[u]
  OBVIOUS

(* dac_dma_init, first half: the channel is off and the caller holds what  *)
(* it was called with.                                                     *)
LEMMA ClearCaller ==
  ASSUME Types, NEW t \in Speakers, NEW where \in Places, NEW b \in 1..2,
         Player!Clear(t, b, where)
  PROVE  /\ says' \in [Speakers -> Caller] /\ dma' \in Channel
         /\ says'[t].at = where /\ says'[t].file = says[t].file
         /\ says'[t].buf = b /\ says'[t].len = playLength
         /\ \A u \in Speakers \ {t} : says'[u] = says[u]
         /\ ~dma'.on
<1>1. says \in [Speakers -> Caller] /\ dma \in Channel /\ playLength \in Nat
  BY DEF Types
<1>2. says' = [says EXCEPT ![t] = [@ EXCEPT !.at = where, !.buf = b, !.len = playLength]]
      /\ dma' = [dma EXCEPT !.on = FALSE]
  BY DEF Player!Clear
<1>3. dma' \in Channel /\ ~dma'.on
  BY <1>1, <1>2 DEF Channel
<1> DEFINE c == [says[t] EXCEPT !.at = where, !.buf = b, !.len = playLength]
<1>4. c \in Caller /\ c.at = where /\ c.file = says[t].file /\ c.buf = b /\ c.len = playLength
  BY <1>1 DEF Caller
<1>5. says' = [says EXCEPT ![t] = c]
  BY <1>1, <1>2
<1> HIDE DEF c
<1>6. says' \in [Speakers -> Caller] /\ says'[t] = c /\ \A u \in Speakers \ {t} : says'[u] = says[u]
  BY <1>1, <1>4, <1>5, SetCaller
<1> QED BY <1>3, <1>4, <1>6

(* And its second half.                                                    *)
LEMMA EnableCaller ==
  ASSUME Types, NEW t \in Speakers, NEW where \in Places, Player!Enable(t, where)
  PROVE  /\ says' \in [Speakers -> Caller] /\ dma' \in Channel
         /\ says'[t].at = where /\ says'[t].file = says[t].file
         /\ \A u \in Speakers \ {t} : says'[u] = says[u]
         /\ ~dma.on => dma'.on /\ dma'.buf = says[t].buf /\ dma'.len = says[t].len
         /\ UNCHANGED <<playState, left, read, pageIndex, pEncode, hwBuff, playLength,
                        tc, tim7, heard, lone>>
<1> DEFINE armed == [on |-> TRUE, buf |-> says[t].buf, len |-> says[t].len]
           c == [Player!Silent EXCEPT !.at = where, !.file = says[t].file]
<1>1. says \in [Speakers -> Caller] /\ dma \in Channel /\ says[t] \in Caller
  BY DEF Types
<1>2. /\ says' = [says EXCEPT ![t] = c]
      /\ dma' \in IF dma.on THEN {dma, armed} ELSE {armed}
      /\ UNCHANGED <<playState, left, read, pageIndex, pEncode, hwBuff, playLength,
                     tc, tim7, heard, lone>>
  BY DEF Player!Enable, Player!machine
<1>3. armed \in Channel /\ armed.on /\ armed.buf = says[t].buf /\ armed.len = says[t].len
  BY <1>1 DEF Caller, Channel
<1>4. c \in Caller /\ c.at = where /\ c.file = says[t].file
  BY <1>1, SilentIsOut DEF Caller
<1> HIDE DEF c, armed
<1>5. says' \in [Speakers -> Caller] /\ says'[t] = c /\ \A u \in Speakers \ {t} : says'[u] = says[u]
  BY <1>1, <1>2, <1>4, SetCaller
<1> QED BY <1>1, <1>2, <1>3, <1>4, <1>5

(* A step moves its own caller only.                                       *)
LEMMA StepSays ==
  ASSUME Types, NEW t \in Speakers, Player!Step(t)
  PROVE  says' \in [Speakers -> Caller] /\ \A u \in Speakers \ {t} : says'[u] = says[u]
<1>1. says \in [Speakers -> Caller] /\ pEncode \in 1..2
  BY DEF Types
<1>2. CASE \E where \in Places : Player!Goto(t, where)
  BY <1>1, <1>2, GotoCaller
<1>3. CASE says' = [says EXCEPT ![t] = Player!Silent]
  BY <1>1, <1>3, SilentIsOut, SetCaller
<1>4. CASE \E where \in Places : Player!Clear(t, pEncode, where)
  BY <1>1, <1>4, ClearCaller
<1>5. CASE \E where \in Places : Player!Enable(t, where)
  BY <1>5, EnableCaller
<1> QED
  BY <1>2, <1>3, <1>4, <1>5 DEF Places, Player!Inside, Player!Step, Player!SwitchInit,
     Player!SwitchOn, Player!Reject, Player!Open, Player!Fill1, Player!Arm1,
     Player!Enable1, Player!Fill2, Player!Started, Player!NotOver, Player!Over,
     Player!TakeOver, Player!NoMore, Player!ArmNext, Player!EnableNext, Player!Refill,
     Player!End, Player!StopSound

(* A call takes a free task, and is alone if it finds the player quiet.    *)
LEMMA Speaks ==
  ASSUME Types, NEW t \in Speakers, NEW f \in Sounds \cup {Player!Rejected},
         Player!Speak(t, f)
  PROVE  /\ says[t].at = "out" /\ says' \in [Speakers -> Caller]
         /\ says'[t].at = "loop" /\ says'[t].file = f
         /\ \A u \in Speakers \ {t} : says'[u] = says[u]
         /\ lone' = (IF Player!Quiet /\ ~tc THEN t ELSE Player!Nobody) /\ heard' = <<>>
         /\ UNCHANGED <<playState, left, read, pageIndex, pEncode, hwBuff, playLength,
                        dma, tc, tim7>>
<1> DEFINE c == [Player!Silent EXCEPT !.at = "loop", !.file = f]
<1>1. c \in Caller /\ c.at = "loop" /\ c.file = f
  <2>1. f \in Nat \cup {Player!Rejected} /\ "loop" \in Places
    BY DEF Types, Places, Player!Inside
  <2> QED BY <2>1, SilentIsOut DEF Caller
<1>2. /\ says[t].at = "out" /\ says' = [says EXCEPT ![t] = c]
      /\ lone' = (IF Player!Quiet /\ ~tc THEN t ELSE Player!Nobody) /\ heard' = <<>>
      /\ UNCHANGED <<playState, left, read, pageIndex, pEncode, hwBuff, playLength,
                     dma, tc, tim7>>
  BY DEF Player!Speak, Player!At, Player!machine, Player!hardware
<1> HIDE DEF c
<1>3. says' \in [Speakers -> Caller] /\ says'[t] = c /\ \A u \in Speakers \ {t} : says'[u] = says[u]
  BY <1>1, <1>2, SetCaller DEF Types
<1> QED BY <1>1, <1>2, <1>3

(* A block is read into one buffer; the other one keeps its own.           *)
LEMMA Reads ==
  ASSUME Types, NEW b \in 1..2, Player!GetSpeechData(b)
  PROVE  /\ left' \in Nat /\ read' \in Nat /\ playLength' \in Nat
         /\ hwBuff' \in [1..2 -> Nat]
         /\ hwBuff'[3 - b] = hwBuff[3 - b]
         /\ left = 0 => left' = 0 /\ read' = read /\ playLength' = 0
         /\ left # 0 => /\ left' = left - 1 /\ read' = read + 1
                        /\ playLength' = read + 1 /\ hwBuff'[b] = read + 1
<1>1. CASE left = 0
  BY <1>1 DEF Player!GetSpeechData, Types
<1>2. CASE left # 0
  <2>1. hwBuff' = [hwBuff EXCEPT ![b] = read + 1] /\ hwBuff \in [1..2 -> Nat] /\ read \in Nat
    BY <1>2 DEF Player!GetSpeechData, Types
  <2>2. hwBuff' \in [1..2 -> Nat] /\ hwBuff'[b] = read + 1 /\ hwBuff'[3 - b] = hwBuff[3 - b]
    BY <2>1
  <2> QED BY <1>2, <2>2 DEF Player!GetSpeechData, Types
<1> QED BY <1>1, <1>2

(* The types are kept.                                                     *)
LEMMA TypesKept ==
  ASSUME Types, [Player!Next]_(Player!vars)
  PROVE  Types'
<1>1. ASSUME NEW t \in Speakers, NEW f \in Sounds \cup {Player!Rejected}, Player!Speak(t, f)
      PROVE  Types'
  <2>1. lone' \in Speakers \cup {Player!Nobody} /\ heard' = <<>>
        /\ says' \in [Speakers -> Caller]
        /\ UNCHANGED <<playState, left, read, pageIndex, pEncode, hwBuff, playLength, dma>>
    BY <1>1, Speaks
  <2> QED BY <2>1 DEF Types
<1>2. ASSUME NEW t \in Speakers, Player!Step(t) PROVE Types'
  <2>1. says' \in [Speakers -> Caller]
    BY <1>2, StepSays
  <2>2. CASE Player!SwitchInit(t) \/ Player!SwitchOn(t) \/ Player!Reject(t)
             \/ Player!Started(t) \/ Player!NotOver(t) \/ Player!Over(t)
             \/ Player!NoMore(t) \/ Player!End(t)
             \/ Player!TakeOver(t) \/ Player!StopSound(t)
    <3>1. UNCHANGED <<left, read, pEncode, hwBuff, playLength, dma>>
          /\ heard' \in {heard, <<>>} /\ lone' \in {lone, Player!Nobody}
      BY <2>2 DEF Player!SwitchInit, Player!SwitchOn, Player!Reject, Player!Started,
         Player!NotOver, Player!Over, Player!NoMore, Player!End, Player!TakeOver,
         Player!StopSound, Player!machine, Player!hardware, Player!Unheard
    <3>2. /\ playState' \in {playState, 0, 1, 3, 4, 5} /\ pageIndex' \in {pageIndex, 0}
          /\ <<>> \in Seq(Nat)
      BY <2>2 DEF Player!SwitchInit, Player!SwitchOn, Player!Reject, Player!Started,
         Player!NotOver, Player!Over, Player!NoMore, Player!End, Player!TakeOver,
         Player!StopSound, Player!machine
    <3>3. heard' \in Seq(Nat) /\ lone' \in Speakers \cup {Player!Nobody}
      BY <3>1, <3>2 DEF Types
    <3>4. playState' \in {0, 1, 3, 4, 5} /\ pageIndex' \in 0..1
      BY <3>2 DEF Types
    <3> QED BY <2>1, <3>1, <3>3, <3>4 DEF Types
  <2>3. CASE Player!Open(t)
    <3>1. says[t].file \in Nat /\ dma' \in Channel
      BY <2>3, SilentIsOut DEF Types, Caller, Player!Open
    <3> QED BY <2>1, <2>3, <3>1 DEF Player!Open, Types
  <2>4. CASE Player!Fill1(t) \/ Player!Fill2(t) \/ Player!Refill(t)
    <3>1. \E b \in 1..2 : Player!GetSpeechData(b) /\ pEncode' = b
      BY <2>4 DEF Player!Fill1, Player!Fill2, Player!Refill
    <3>2. /\ left' \in Nat /\ read' \in Nat /\ playLength' \in Nat
          /\ hwBuff' \in [1..2 -> Nat] /\ pEncode' \in 1..2
      BY <3>1, Reads
    <3>3. UNCHANGED <<pageIndex, dma, heard, lone>> /\ playState' \in {playState, 3}
      BY <2>4 DEF Player!Fill1, Player!Fill2, Player!Refill, Player!hardware
    <3> QED BY <2>1, <3>2, <3>3 DEF Types
  <2>5. CASE Player!Arm1(t) \/ Player!ArmNext(t)
    <3>1. \E where \in Places : Player!Clear(t, pEncode, where)
      BY <2>5 DEF Player!Arm1, Player!ArmNext, Places, Player!Inside
    <3>2. dma' \in Channel
      BY <3>1, ClearCaller DEF Types
    <3>3. /\ UNCHANGED <<playState, left, read, pEncode, hwBuff, playLength, heard, lone>>
          /\ pageIndex' \in {pageIndex, 1 - pageIndex}
      BY <2>5 DEF Player!Arm1, Player!ArmNext, Player!machine
    <3> QED BY <2>1, <3>2, <3>3 DEF Types
  <2>6. CASE Player!Enable1(t) \/ Player!EnableNext(t)
    <3>1. \E where \in Places : Player!Enable(t, where)
      BY <2>6 DEF Player!Enable1, Player!EnableNext, Places, Player!Inside
    <3> QED BY <2>1, <3>1, EnableCaller DEF Types
  <2> QED BY <1>2, <2>2, <2>3, <2>4, <2>5, <2>6 DEF Player!Step
<1>3. CASE Player!BlockDone
  <2>1. /\ heard' = IF lone = Player!Nobody THEN heard
                    ELSE Append(heard, IF dma.len = hwBuff[dma.buf] THEN dma.len ELSE 0)
        /\ dma' = [dma EXCEPT !.on = FALSE]
    BY <1>3 DEF Player!BlockDone
  <2>2. dma' \in Channel
    BY <2>1 DEF Types, Channel
  <2>3. (IF dma.len = hwBuff[dma.buf] THEN dma.len ELSE 0) \in Nat
    BY DEF Types, Channel
  <2>4. heard' \in Seq(Nat)
    BY <2>1, <2>3 DEF Types
  <2>5. UNCHANGED <<playState, left, read, pageIndex, pEncode, hwBuff, playLength, says, lone>>
    BY <1>3 DEF Player!BlockDone, Player!machine
  <2> QED BY <2>2, <2>4, <2>5 DEF Types
<1>4. CASE Player!Underrun \/ UNCHANGED Player!vars
  BY <1>4 DEF Player!Underrun, Player!vars, Player!machine, Player!hardware, Types
<1>5. CASE Player!Restart
  <2>1. says' = [u \in Speakers |-> Player!Silent] /\ dma' = Player!Idle
        /\ heard' = <<>> /\ lone' = Player!Nobody
    BY <1>5 DEF Player!Restart, Player!Unheard
  <2>2. says' \in [Speakers -> Caller] /\ dma' \in Channel
    BY <2>1, SilentIsOut
  <2> QED BY <1>5, <2>1, <2>2 DEF Player!Restart, Types
<1> QED BY <1>1, <1>2, <1>3, <1>4, <1>5 DEF Player!Next, Sounds

-----------------------------------------------------------------------------
(* All callers together.                                                   *)

\* Whoever left the machine in a state is still in it, and whoever started the
\* timer has yet to stop it.
IdleInv ==
  /\ Types
  /\ playState # 0 => \E t \in Speakers : says[t].at \in Player!Inside
  /\ tim7 => \E t \in Speakers : says[t].at # "out" /\ says[t].file # Player!Rejected

(* A step from one place inside to another.                                *)
LEMMA MovesOn ==
  ASSUME IdleInv, Types', NEW t \in Speakers, NEW where \in Player!Inside,
         says'[t].at = where, says'[t].file = says[t].file,
         \A u \in Speakers \ {t} : says'[u] = says[u],
         says[t].at # "out", tim7' => tim7 \/ says[t].file # Player!Rejected
  PROVE  IdleInv'
<1>1. where # "out"
  BY DEF Player!Inside
<1>2. ASSUME tim7'
      PROVE  \E u \in Speakers : says'[u].at # "out" /\ says'[u].file # Player!Rejected
  <2>1. CASE says[t].file # Player!Rejected
    BY <2>1, <1>1
  <2>2. CASE tim7
    <3>1. PICK u \in Speakers : says[u].at # "out" /\ says[u].file # Player!Rejected
      BY <2>2 DEF IdleInv
    <3> QED BY <3>1, <1>1
  <2> QED BY <1>2, <2>1, <2>2
<1> QED BY <1>2 DEF IdleInv

LEMMA StepIdle ==
  ASSUME IdleInv, NEW t \in Speakers, Player!Step(t)
  PROVE  IdleInv'
<1>1. Types /\ Types' /\ says \in [Speakers -> Caller]
      /\ \A u \in Speakers \ {t} : says'[u] = says[u]
  BY TypesKept, StepSays DEF IdleInv, Types, Player!Next
<1>2. CASE Player!SwitchInit(t) \/ Player!SwitchOn(t) \/ Player!Open(t) \/ Player!Fill1(t)
           \/ Player!Fill2(t) \/ Player!Started(t) \/ Player!NotOver(t) \/ Player!Over(t)
           \/ Player!TakeOver(t) \/ Player!NoMore(t) \/ Player!Refill(t)
  <2>1. PICK where \in Player!Inside : Player!Goto(t, where)
    BY <1>2 DEF Player!SwitchInit, Player!SwitchOn, Player!Open, Player!Fill1,
       Player!Fill2, Player!Started, Player!NotOver, Player!Over, Player!TakeOver,
       Player!NoMore, Player!Refill, Player!Inside
  <2>2. says[t].at # "out" /\ (tim7' => tim7 \/ says[t].file # Player!Rejected)
    BY <1>2 DEF Player!SwitchInit, Player!SwitchOn, Player!Open, Player!Fill1,
       Player!Fill2, Player!Started, Player!NotOver, Player!Over, Player!TakeOver,
       Player!NoMore, Player!Refill, Player!At, Player!hardware
  <2>3. says'[t].at = where /\ says'[t].file = says[t].file
    BY <1>1, <2>1, GotoCaller DEF Places
  <2> QED BY <1>1, <2>2, <2>3, MovesOn
<1>3. CASE Player!Arm1(t) \/ Player!ArmNext(t)
  <2>1. PICK where \in Player!Inside : Player!Clear(t, pEncode, where)
    BY <1>3 DEF Player!Arm1, Player!ArmNext, Player!Inside
  <2>2. says[t].at # "out" /\ tim7' = tim7
    BY <1>3 DEF Player!Arm1, Player!ArmNext, Player!At
  <2>3. pEncode \in 1..2 /\ where \in Places
    BY <1>1 DEF Types, Places
  <2>4. says'[t].at = where /\ says'[t].file = says[t].file
    BY <1>1, <2>1, <2>3, ClearCaller
  <2> QED BY <1>1, <2>2, <2>4, MovesOn
<1>4. CASE Player!Enable1(t) \/ Player!EnableNext(t)
  <2>1. PICK where \in Player!Inside : Player!Enable(t, where)
    BY <1>4 DEF Player!Enable1, Player!EnableNext, Player!Inside
  <2>2. says[t].at # "out"
    BY <1>4 DEF Player!Enable1, Player!EnableNext, Player!At
  <2>3. says'[t].at = where /\ says'[t].file = says[t].file /\ tim7' = tim7
    BY <1>1, <2>1, EnableCaller DEF Places
  <2> QED BY <1>1, <2>2, <2>3, MovesOn
<1>5. CASE Player!Reject(t)
  <2>1. playState' = 0 /\ tim7' = tim7 /\ says[t].file = Player!Rejected
    BY <1>5 DEF Player!Reject, Player!hardware
  <2> QED BY <1>1, <2>1 DEF IdleInv
<1>6. CASE Player!End(t)
  <2>1. says'[t].at = "stop" /\ says'[t].file = says[t].file
    BY <1>1, <1>6, GotoCaller DEF Player!End, Places
  <2>2. playState' = 0 /\ tim7' = tim7
    BY <1>6 DEF Player!End, Player!hardware
  <2> QED BY <1>1, <2>1, <2>2 DEF IdleInv
<1>7. CASE Player!StopSound(t)
  <2>1. playState' = playState /\ ~tim7' /\ says[t].at \notin Player!Inside
    BY <1>7 DEF Player!StopSound, Player!machine, Player!At, Player!Inside
  <2> QED BY <1>1, <2>1 DEF IdleInv
<1> QED BY <1>2, <1>3, <1>4, <1>5, <1>6, <1>7 DEF Player!Step

LEMMA NextIdle ==
  ASSUME IdleInv, [Player!Next]_(Player!vars)
  PROVE  IdleInv'
<1>1. Types /\ Types'
  BY TypesKept DEF IdleInv
<1>2. ASSUME NEW t \in Speakers, NEW f \in Sounds \cup {Player!Rejected}, Player!Speak(t, f)
      PROVE  IdleInv'
  <2>1. /\ says[t].at = "out" /\ says'[t].at = "loop" /\ UNCHANGED <<playState, tim7>>
        /\ \A u \in Speakers \ {t} : says'[u] = says[u]
    BY <1>1, <1>2, Speaks
  <2> QED BY <1>1, <2>1 DEF IdleInv, Player!Inside
<1>3. CASE Player!BlockDone \/ Player!Underrun \/ UNCHANGED Player!vars
  <2>1. UNCHANGED <<playState, tim7, says>>
    BY <1>3 DEF Player!BlockDone, Player!Underrun, Player!vars, Player!machine,
       Player!hardware
  <2> QED BY <1>1, <2>1 DEF IdleInv
<1>4. CASE Player!Restart
  BY <1>1, <1>4 DEF Player!Restart, IdleInv
<1> QED BY <1>2, <1>3, <1>4, StepIdle DEF Player!Next, Sounds

LEMMA IdleAlways == Player!Safe => []IdleInv
<1>1. Player!Init => IdleInv
  <2> SUFFICES ASSUME Player!Init PROVE IdleInv
    OBVIOUS
  <2>1. says \in [Speakers -> Caller] /\ dma \in Channel
    BY SilentIsOut DEF Player!Init
  <2> QED BY <2>1 DEF Player!Init, IdleInv, Types
<1>2. IdleInv /\ [Player!Next]_(Player!vars) => IdleInv'
  BY NextIdle
<1> QED BY <1>1, <1>2, PTL DEF Player!Safe

(* However many callers overlap in whatever way, the machine they share is *)
(* idle when the last of them is out.                                      *)
THEOREM QuietPlayerIsIdle == Player!Safe => []Player!QuietIsIdle
<1>1. IdleInv => Player!QuietIsIdle
  BY DEF IdleInv, Player!QuietIsIdle, Player!Quiet, Player!At, Player!Inside
<1> QED BY IdleAlways, <1>1, PTL

-----------------------------------------------------------------------------
(* One caller alone.                                                       *)

Played == Len(heard)

\* The channel rests, and every block it was given has been played.
Rested == ~dma.on /\ ~tc

Fresh == ~tim7 /\ ~tc /\ Played = 0

\* Block k was armed last, from buffer b: it plays, or has been played.
Flight(k, b) ==
  \/ /\ dma.on /\ ~tc /\ Played = k - 1
     /\ dma.buf = b /\ dma.len = k /\ hwBuff[b] = k
  \/ ~dma.on /\ tc /\ Played = k

\* The buffer the machine points at holds the block after k, or k is all the
\* file has.
Ahead(k) ==
  /\ pEncode = 2 - pageIndex
  /\ \/ read = k + 1 /\ playLength = k + 1 /\ hwBuff[pEncode] = k + 1
     \/ read = 1 /\ k = 1 /\ left = 0

\* Block k plays or has been played, and the next one is ready.
Playing ==
  \E k \in Nat \ {0} : Flight(k, 3 - pEncode) /\ Ahead(k)

\* What InitSpeech has read: the first block, or nothing of a file without data.
First(size, len) ==
  IF size = 0 THEN read = 0 /\ len = 0 ELSE read = 1 /\ len = 1 /\ hwBuff[1] = 1

\* A channel armed for no sample at all.
Stuck == dma.on /\ dma.len = 0 /\ ~tc

\* All that is heard of a phrase.
Whole(size) == IF size = 1 THEN 1 ELSE size - 1

\* How far a caller alone has come, with a file of this size.
Opening(at, size, buf, len) ==
  /\ at = "init" => Fresh /\ pageIndex = 0
  /\ at = "fill1" => Rested /\ Played = 0 /\ pageIndex = 0 /\ read = 0
  /\ at = "arm1" =>
       Rested /\ Played = 0 /\ pageIndex = 0 /\ pEncode = 1 /\ First(size, playLength)
  /\ at = "enable1" =>
       Rested /\ Played = 0 /\ pageIndex = 0 /\ buf = 1 /\ First(size, len)
  /\ at = "fill2" =>
       IF size = 0 THEN Stuck ELSE Flight(1, 1) /\ pageIndex = 0 /\ read = 1

Looping(at, size, buf, len) ==
  /\ at = "loop" => playState \in {0, 3, 5}
  /\ at = "loop" /\ playState = 0 => Fresh
  /\ at \in {"started", "wait"} \/ (at = "loop" /\ playState = 3) =>
       IF size = 0 THEN Stuck ELSE Playing
  /\ at \in {"wait", "took"} => playState = 3
  /\ at = "took" => ~dma.on /\ tc /\ Played > 0 /\ Ahead(Played)
  /\ at = "next" => Rested /\ Played > 0 /\ Ahead(Played)
  /\ at = "enable" =>
       /\ Rested /\ Played = read - 1 /\ buf = pEncode /\ len = read
       /\ hwBuff[pEncode] = read
  /\ at = "refill" => Flight(read, pEncode)
  /\ at \in {"enable", "refill"} => left # 0 /\ read > 0 /\ pEncode = 1 + pageIndex
  /\ at \in {"end", "stop"} \/ (at = "loop" /\ playState = 5) => Rested /\ Played = Whole(size)

Counted(at, size) ==
  at \in Player!Inside \ {"loop", "init", "end"} \/ (at = "loop" /\ playState = 3) =>
    left + read = size

StageOK(t) ==
  /\ says[t].at # "out"
  /\ Opening(says[t].at, says[t].file, says[t].buf, says[t].len)
  /\ Looping(says[t].at, says[t].file, says[t].buf, says[t].len)
  /\ Counted(says[t].at, says[t].file)

Alone(t) ==
  /\ \A u \in Speakers \ {t} : says[u].at = "out"
  /\ \A i \in 1..Len(heard) : heard[i] = i
  /\ StageOK(t)

AloneInv == Types /\ \A t \in Speakers : lone = t => Alone(t)

(* The beginning: the first block is read and armed.                       *)
LEMMA OpeningStage ==
  ASSUME Types, NEW t \in Speakers, StageOK(t),
         Player!SwitchInit(t) \/ Player!Open(t) \/ Player!Fill1(t) \/ Player!Arm1(t)
         \/ Player!Enable1(t) \/ Player!Fill2(t)
  PROVE  StageOK(t)'
<1> USE DEF Player!At
<1>0. /\ says \in [Speakers -> Caller] /\ left \in Nat /\ read \in Nat
      /\ pEncode \in 1..2 /\ pageIndex \in 0..1 /\ Played \in Nat
      /\ says[t].file \in Nat \cup {Player!Rejected}
      /\ Player!Rejected = -1
      /\ Opening(says[t].at, says[t].file, says[t].buf, says[t].len)
      /\ Looping(says[t].at, says[t].file, says[t].buf, says[t].len)
      /\ Counted(says[t].at, says[t].file)
  BY DEF Types, Caller, StageOK, Player!Rejected, Played
<1>1. CASE Player!SwitchInit(t)
  <2>1. says[t].at = "loop" /\ playState \in {0, 1} /\ playState' = 1
        /\ pageIndex' = (IF playState = 0 THEN 0 ELSE pageIndex)
        /\ UNCHANGED <<tim7, tc, heard>>
    BY <1>1 DEF Player!SwitchInit, Player!hardware
  <2>2. says'[t].at = "init"
    BY <1>0, <1>1, GotoCaller DEF Player!SwitchInit, Places, Player!Inside
  <2>3. Fresh' /\ pageIndex' = 0
    BY <1>0, <2>1 DEF Looping, Fresh, Played
  <2> QED BY <2>2, <2>3 DEF StageOK, Opening, Looping, Counted
<1>2. CASE Player!Open(t)
  <2>1. ~tc /\ Played = 0 /\ pageIndex = 0
    BY <1>0, <1>2 DEF Player!Open, Opening, Fresh
  <2>2. says'[t].at = "fill1" /\ says'[t].file = says[t].file
    BY <1>0, <1>2, GotoCaller DEF Player!Open, Places, Player!Inside
  <2>3. left' = says[t].file /\ says[t].file \in Nat /\ read' = 0 /\ ~dma'.on
        /\ UNCHANGED <<tc, heard, pageIndex>>
    BY <1>0, <1>2, SilentIsOut DEF Player!Open
  <2> QED BY <2>1, <2>2, <2>3 DEF StageOK, Opening, Looping, Counted, Rested, Played
<1>3. CASE Player!Fill1(t)
  <2>1. Rested /\ Played = 0 /\ pageIndex = 0 /\ read = 0 /\ left + read = says[t].file
    BY <1>0, <1>3 DEF Player!Fill1, Opening, Counted, Player!Inside
  <2>2. "arm1" \in Places /\ Player!Goto(t, "arm1") /\ Player!GetSpeechData(1) /\ pEncode' = 1
        /\ UNCHANGED <<dma, tc, heard, pageIndex>>
    BY <1>3 DEF Player!Fill1, Places, Player!Inside, Player!hardware
  <2>3. says'[t].at = "arm1" /\ says'[t].file = says[t].file
    BY <1>0, <2>2, GotoCaller
  <2>4. /\ left = 0 => left' = 0 /\ read' = 0 /\ playLength' = 0
        /\ left # 0 => left' = left - 1 /\ read' = 1 /\ playLength' = 1 /\ hwBuff'[1] = 1
    BY <2>1, <2>2, Reads
  <2>5. First(says[t].file, playLength)' /\ left' + read' = says[t].file
    BY <1>0, <2>1, <2>3, <2>4 DEF First
  <2>6. Rested' /\ Played' = 0 /\ pageIndex' = 0
    BY <2>1, <2>2 DEF Rested, Played
  <2> QED BY <2>2, <2>3, <2>5, <2>6 DEF StageOK, Opening, Looping, Counted
<1>4. CASE Player!Arm1(t)
  <2>1. /\ Rested /\ Played = 0 /\ pageIndex = 0 /\ pEncode = 1
        /\ First(says[t].file, playLength) /\ left + read = says[t].file
    BY <1>0, <1>4 DEF Player!Arm1, Opening, Counted, Player!Inside
  <2>2. "enable1" \in Places /\ Player!Clear(t, pEncode, "enable1")
        /\ UNCHANGED <<tc, heard, pageIndex, read, left, hwBuff>>
    BY <1>4 DEF Player!Arm1, Places, Player!Inside, Player!machine
  <2>3. /\ says'[t].at = "enable1" /\ says'[t].file = says[t].file
        /\ says'[t].buf = 1 /\ says'[t].len = playLength /\ ~dma'.on
    BY <1>0, <2>1, <2>2, ClearCaller
  <2>4. Rested' /\ Played' = 0 /\ First(says[t].file, says[t].len)'
    BY <2>1, <2>2, <2>3 DEF Rested, Played, First
  <2> QED BY <2>1, <2>2, <2>3, <2>4 DEF StageOK, Opening, Looping, Counted
<1>5. CASE Player!Enable1(t)
  <2>1. /\ Rested /\ Played = 0 /\ pageIndex = 0 /\ says[t].buf = 1
        /\ First(says[t].file, says[t].len) /\ left + read = says[t].file
    BY <1>0, <1>5 DEF Player!Enable1, Opening, Counted, Player!Inside
  <2>2. "fill2" \in Places /\ Player!Enable(t, "fill2")
    BY <1>5 DEF Player!Enable1, Places, Player!Inside
  <2>3. /\ says'[t].at = "fill2" /\ says'[t].file = says[t].file
        /\ dma'.on /\ dma'.buf = 1 /\ dma'.len = says[t].len
        /\ UNCHANGED <<tc, heard, pageIndex, read, left, hwBuff>>
    BY <2>1, <2>2, EnableCaller DEF Rested
  <2>4. CASE says[t].file = 0
    <3>1. Stuck'
      BY <2>1, <2>3, <2>4 DEF First, Stuck, Rested
    <3> QED BY <2>1, <2>3, <2>4, <3>1 DEF StageOK, Opening, Looping, Counted
  <2>5. CASE says[t].file # 0
    <3>1. Flight(1, 1)' /\ read' = 1
      BY <2>1, <2>3, <2>5 DEF First, Flight, Rested, Played
    <3> QED BY <2>1, <2>3, <2>5, <3>1 DEF StageOK, Opening, Looping, Counted
  <2> QED BY <2>4, <2>5
<1>6. CASE Player!Fill2(t)
  <2>1. /\ left + read = says[t].file
        /\ IF says[t].file = 0 THEN Stuck ELSE Flight(1, 1) /\ pageIndex = 0 /\ read = 1
    BY <1>0, <1>6 DEF Player!Fill2, Opening, Counted, Player!Inside
  <2>2. "started" \in Places /\ Player!Goto(t, "started") /\ Player!GetSpeechData(2) /\ pEncode' = 2
        /\ UNCHANGED <<dma, tc, heard, pageIndex>>
    BY <1>6 DEF Player!Fill2, Places, Player!Inside, Player!hardware
  <2>3. says'[t].at = "started" /\ says'[t].file = says[t].file
    BY <1>0, <2>2, GotoCaller
  <2>4. /\ hwBuff'[1] = hwBuff[1]
        /\ left = 0 => left' = 0 /\ read' = read
        /\ left # 0 => /\ left' = left - 1 /\ read' = read + 1
                       /\ playLength' = read + 1 /\ hwBuff'[2] = read + 1
    BY <2>1, <2>2, Reads
  <2>5. left' + read' = says[t].file
    BY <1>0, <2>1, <2>4
  <2>6. CASE says[t].file = 0
    <3>1. Stuck'
      BY <2>1, <2>2, <2>6 DEF Stuck
    <3> QED BY <2>3, <2>5, <2>6, <3>1 DEF StageOK, Opening, Looping, Counted
  <2>7. CASE says[t].file # 0
    <3>1. Flight(1, 1) /\ pageIndex = 0 /\ read = 1
      BY <2>1, <2>7
    <3>2. Flight(1, 3 - 2)' /\ Ahead(1)'
      BY <2>2, <2>4, <3>1 DEF Flight, Ahead, Played
    <3>3. Playing'
      BY <2>2, <3>2 DEF Playing
    <3> QED BY <2>3, <2>5, <2>7, <3>3 DEF StageOK, Opening, Looping, Counted
  <2> QED BY <2>6, <2>7
<1> QED BY <1>1, <1>2, <1>3, <1>4, <1>5, <1>6

(* The loop: a block plays while the other buffer is filled.               *)
LEMMA LoopStage ==
  ASSUME Types, NEW t \in Speakers, StageOK(t),
         Player!SwitchOn(t) \/ Player!Started(t) \/ Player!NotOver(t) \/ Player!Over(t)
         \/ Player!TakeOver(t)
  PROVE  StageOK(t)'
<1> USE DEF Player!At
<1>0. /\ says \in [Speakers -> Caller] /\ left \in Nat /\ read \in Nat
      /\ says[t].at # "out"
      /\ Looping(says[t].at, says[t].file, says[t].buf, says[t].len)
      /\ Counted(says[t].at, says[t].file)
  BY DEF Types, StageOK
<1>1. UNCHANGED <<dma, heard, hwBuff, pEncode, pageIndex, read, left, playLength>>
  BY DEF Player!SwitchOn, Player!Started, Player!NotOver, Player!Over, Player!TakeOver,
     Player!machine, Player!hardware
<1>2. /\ \A k \in Nat : Ahead(k)' = Ahead(k)
      /\ Played' = Played
      /\ tc' = tc => Playing' = Playing /\ Rested' = Rested /\ Stuck' = Stuck
  BY <1>1 DEF Ahead, Playing, Rested, Played, Flight, Stuck
<1>3. CASE Player!SwitchOn(t)
  <2>1. playState \in {3, 5} /\ says[t].at = "loop" /\ UNCHANGED <<playState, tc>>
    BY <1>0, <1>3 DEF Player!SwitchOn, Looping, Player!hardware, Player!machine
  <2>2. CASE playState = 3
    <3>1. says'[t].at = "wait" /\ says'[t].file = says[t].file
      BY <1>0, <1>3, <2>2, GotoCaller DEF Player!SwitchOn, Places, Player!Inside
    <3>2. (IF says[t].file = 0 THEN Stuck ELSE Playing) /\ left + read = says[t].file
      BY <1>0, <2>1, <2>2 DEF Looping, Counted
    <3> QED BY <1>1, <1>2, <2>1, <2>2, <3>1, <3>2 DEF StageOK, Opening, Looping, Counted
  <2>3. CASE playState = 5
    <3>1. says'[t].at = "end" /\ says'[t].file = says[t].file
      BY <1>0, <1>3, <2>3, GotoCaller DEF Player!SwitchOn, Places, Player!Inside
    <3>2. Rested /\ Played = Whole(says[t].file)
      BY <1>0, <2>1, <2>3 DEF Looping
    <3> QED BY <1>2, <2>1, <3>1, <3>2 DEF StageOK, Opening, Looping, Counted, Whole
  <2> QED BY <2>1, <2>2, <2>3
<1>4. CASE Player!Started(t)
  <2>1. (IF says[t].file = 0 THEN Stuck ELSE Playing) /\ left + read = says[t].file
    BY <1>0, <1>4 DEF Player!Started, Looping, Counted, Player!Inside
  <2>2. says'[t].at = "wait" /\ says'[t].file = says[t].file
    BY <1>0, <1>4, GotoCaller DEF Player!Started, Places, Player!Inside
  <2>3. playState' = 3 /\ tc' = tc
    BY <1>4 DEF Player!Started, Player!hardware
  <2> QED BY <1>1, <1>2, <2>1, <2>2, <2>3 DEF StageOK, Opening, Looping, Counted
<1>5. CASE Player!NotOver(t)
  <2>1. (IF says[t].file = 0 THEN Stuck ELSE Playing) /\ left + read = says[t].file
        /\ playState = 3
    BY <1>0, <1>5 DEF Player!NotOver, Looping, Counted, Player!Inside
  <2>2. says'[t].at = "loop" /\ says'[t].file = says[t].file
    BY <1>0, <1>5, GotoCaller DEF Player!NotOver, Places, Player!Inside
  <2>3. playState' = 3 /\ tc' = tc
    BY <1>5, <2>1 DEF Player!NotOver, Player!hardware, Player!machine
  <2> QED BY <1>1, <1>2, <2>1, <2>2, <2>3 DEF StageOK, Opening, Looping, Counted
<1>6. CASE Player!Over(t)
  <2>1. (IF says[t].file = 0 THEN Stuck ELSE Playing) /\ left + read = says[t].file
        /\ playState = 3 /\ tc /\ UNCHANGED <<playState, tc>>
    BY <1>0, <1>6 DEF Player!Over, Looping, Counted, Player!Inside, Player!hardware,
       Player!machine
  <2>2. PICK k \in Nat \ {0} : Flight(k, 3 - pEncode) /\ Ahead(k)
    BY <2>1 DEF Playing, Stuck
  <2>3. ~dma.on /\ Played = k
    BY <2>1, <2>2 DEF Flight
  <2>4. Played > 0 /\ Ahead(Played)
    BY <2>2, <2>3
  <2>5. says'[t].at = "took" /\ says'[t].file = says[t].file
    BY <1>0, <1>6, GotoCaller DEF Player!Over, Places, Player!Inside
  <2>6. Ahead(Played)'
    BY <1>1, <2>4 DEF Ahead, Played
  <2> QED BY <1>1, <1>2, <2>1, <2>3, <2>4, <2>5, <2>6 DEF StageOK, Opening, Looping, Counted
<1>7. CASE Player!TakeOver(t)
  <2>1. ~dma.on /\ Played > 0 /\ Ahead(Played) /\ left + read = says[t].file
    BY <1>0, <1>7 DEF Player!TakeOver, Looping, Counted, Player!Inside
  <2>2. says'[t].at = "next" /\ says'[t].file = says[t].file
    BY <1>0, <1>7, GotoCaller DEF Player!TakeOver, Places, Player!Inside
  <2>3. Ahead(Played)' /\ Rested'
    BY <1>1, <1>7, <2>1 DEF Ahead, Played, Rested, Player!TakeOver
  <2> QED BY <1>1, <1>2, <2>1, <2>2, <2>3 DEF StageOK, Opening, Looping, Counted
<1> QED BY <1>3, <1>4, <1>5, <1>6, <1>7

(* State 4 and the end: the buffer filled last is armed, the other refilled.*)
LEMMA EndStage ==
  ASSUME Types, NEW t \in Speakers, StageOK(t),
         Player!NoMore(t) \/ Player!ArmNext(t) \/ Player!EnableNext(t) \/ Player!Refill(t)
         \/ Player!End(t)
  PROVE  StageOK(t)'
<1> USE DEF Player!At
<1>0. /\ says \in [Speakers -> Caller] /\ left \in Nat /\ read \in Nat
      /\ pageIndex \in 0..1 /\ pEncode \in 1..2 /\ Played \in Nat
      /\ Looping(says[t].at, says[t].file, says[t].buf, says[t].len)
      /\ Counted(says[t].at, says[t].file)
  BY DEF Types, StageOK, Played
<1>1. CASE Player!NoMore(t)
  <2>1. Rested /\ Played > 0 /\ Ahead(Played) /\ left + read = says[t].file /\ left = 0
    BY <1>0, <1>1 DEF Player!NoMore, Looping, Counted, Player!Inside
  <2>2. says'[t].at = "loop" /\ says'[t].file = says[t].file
    BY <1>0, <1>1, GotoCaller DEF Player!NoMore, Places, Player!Inside
  <2>3. Played = Whole(says[t].file)
    BY <1>0, <2>1 DEF Ahead, Whole
  <2>4. playState' = 5 /\ UNCHANGED <<dma, tc, heard>>
    BY <1>1 DEF Player!NoMore, Player!hardware
  <2>5. Rested' /\ Played' = Whole(says'[t].file)
    BY <2>1, <2>2, <2>3, <2>4 DEF Rested, Played, Whole
  <2> QED BY <2>2, <2>4, <2>5 DEF StageOK, Opening, Looping, Counted, Whole
<1>2. CASE Player!ArmNext(t)
  <2>1. Rested /\ Played > 0 /\ Ahead(Played) /\ left + read = says[t].file /\ left # 0
    BY <1>0, <1>2 DEF Player!ArmNext, Looping, Counted, Player!Inside
  <2>2. /\ read = Played + 1 /\ playLength = read /\ hwBuff[pEncode] = read
        /\ pEncode = 2 - pageIndex
    BY <2>1 DEF Ahead
  <2>3. "enable" \in Places /\ Player!Clear(t, pEncode, "enable")
        /\ pageIndex' = 1 - pageIndex
        /\ UNCHANGED <<tc, heard, hwBuff, pEncode, read, left, playState>>
    BY <1>2 DEF Player!ArmNext, Places, Player!Inside
  <2>4. /\ says'[t].at = "enable" /\ says'[t].file = says[t].file
        /\ says'[t].buf = pEncode /\ says'[t].len = read /\ ~dma'.on
    BY <1>0, <2>2, <2>3, ClearCaller
  <2>5. pEncode' = 1 + pageIndex' /\ left' # 0 /\ read' > 0
    BY <1>0, <2>1, <2>2, <2>3
  <2>6. Rested' /\ Played' = read' - 1
    BY <1>0, <2>1, <2>2, <2>3, <2>4 DEF Rested, Played
  <2> QED BY <2>1, <2>2, <2>3, <2>4, <2>5, <2>6 DEF StageOK, Opening, Looping, Counted
<1>3. CASE Player!EnableNext(t)
  <2>1. /\ Rested /\ Played = read - 1 /\ says[t].buf = pEncode /\ says[t].len = read
        /\ hwBuff[pEncode] = read /\ left # 0 /\ read > 0 /\ pEncode = 1 + pageIndex
        /\ left + read = says[t].file
    BY <1>0, <1>3 DEF Player!EnableNext, Looping, Counted, Player!Inside
  <2>2. "refill" \in Places /\ Player!Enable(t, "refill")
    BY <1>3 DEF Player!EnableNext, Places, Player!Inside
  <2>3. /\ says'[t].at = "refill" /\ says'[t].file = says[t].file
        /\ dma'.on /\ dma'.buf = pEncode /\ dma'.len = read
        /\ UNCHANGED <<playState, left, read, pageIndex, pEncode, hwBuff, tc, heard>>
    BY <2>1, <2>2, EnableCaller DEF Rested
  <2>4. Flight(read, pEncode)'
    BY <2>1, <2>3 DEF Flight, Rested, Played
  <2> QED BY <2>1, <2>3, <2>4 DEF StageOK, Opening, Looping, Counted
<1>4. CASE Player!Refill(t)
  <2> DEFINE b == IF pageIndex = 1 THEN 1 ELSE 2
             k == read
  <2>1. /\ left # 0 /\ read > 0 /\ pEncode = 1 + pageIndex /\ Flight(k, pEncode)
        /\ left + read = says[t].file
    BY <1>0, <1>4 DEF Player!Refill, Looping, Counted, Player!Inside
  <2>2. b \in 1..2 /\ b = 3 - pEncode /\ b = 2 - pageIndex /\ pEncode = 3 - b
    BY <1>0, <2>1
  <2>3. Player!GetSpeechData(b) /\ pEncode' = b
        /\ playState' = 3 /\ UNCHANGED <<pageIndex, dma, tc, heard>>
    BY <1>4 DEF Player!Refill, Player!hardware
  <2>4. says'[t].at = "loop" /\ says'[t].file = says[t].file
    BY <1>0, <1>4, GotoCaller DEF Player!Refill, Places, Player!Inside
  <2> HIDE DEF b
  <2>5. /\ hwBuff'[3 - b] = hwBuff[3 - b]
        /\ left' = left - 1 /\ read' = read + 1
        /\ playLength' = read + 1 /\ hwBuff'[b] = read + 1
    BY <2>1, <2>2, <2>3, Reads
  <2>6. Flight(k, 3 - b)
    BY <2>1, <2>2
  <2>7. \/ /\ dma'.on /\ ~tc' /\ Played' = k - 1
           /\ dma'.buf = 3 - b /\ dma'.len = k /\ hwBuff'[3 - b] = k
        \/ ~dma'.on /\ tc' /\ Played' = k
    BY <2>3, <2>5, <2>6 DEF Flight, Played
  <2>8. pEncode' = 2 - pageIndex' /\ read' = k + 1 /\ playLength' = k + 1
        /\ hwBuff'[pEncode'] = k + 1
    BY <2>2, <2>3, <2>5
  <2>9. k \in Nat \ {0} /\ says[t].file # 0
    BY <1>0, <2>1
  <2> HIDE DEF k
  <2>10. Playing'
    BY <2>3, <2>7, <2>8, <2>9 DEF Playing, Flight, Ahead
  <2>11. left' + read' = says'[t].file
    BY <1>0, <2>1, <2>4, <2>5
  <2> QED BY <2>3, <2>4, <2>9, <2>10, <2>11 DEF StageOK, Opening, Looping, Counted
<1>5. CASE Player!End(t)
  <2>1. Rested /\ Played = Whole(says[t].file)
    BY <1>0, <1>5 DEF Player!End, Looping
  <2>2. says'[t].at = "stop" /\ says'[t].file = says[t].file
    BY <1>0, <1>5, GotoCaller DEF Player!End, Places
  <2>3. UNCHANGED <<dma, tc, heard>>
    BY <1>5 DEF Player!End, Player!hardware
  <2>4. Rested' /\ Played' = Whole(says'[t].file)
    BY <2>1, <2>2, <2>3 DEF Rested, Played, Whole
  <2> QED BY <2>2, <2>4 DEF StageOK, Opening, Looping, Counted, Player!Inside
<1> QED BY <1>1, <1>2, <1>3, <1>4, <1>5

(* A block ends: the next of the file was in the buffer that played.       *)
LEMMA BlockStage ==
  ASSUME Types, NEW t \in Speakers, lone = t, Alone(t), Player!BlockDone
  PROVE  Alone(t)'
<1>1. /\ dma.on /\ dma.len # 0 /\ tim7 /\ dma' = [dma EXCEPT !.on = FALSE] /\ tc'
      /\ heard' = Append(heard, IF dma.len = hwBuff[dma.buf] THEN dma.len ELSE 0)
      /\ UNCHANGED <<playState, left, read, pageIndex, pEncode, hwBuff, playLength, says>>
  BY DEF Player!BlockDone, Player!machine, Player!SpeechAssumption, Types
<1>2. says \in [Speakers -> Caller] /\ heard \in Seq(Nat) /\ read \in Nat /\ left \in Nat
      /\ dma \in Channel /\ says[t].at \in Places
  BY DEF Types, Caller
<1>3. /\ says[t].at # "out" /\ Opening(says[t].at, says[t].file, says[t].buf, says[t].len)
      /\ Looping(says[t].at, says[t].file, says[t].buf, says[t].len)
      /\ Counted(says[t].at, says[t].file)
  BY DEF Alone, StageOK
<1>4. says[t].at \in {"loop", "started", "wait", "fill2", "refill"}
      /\ (says[t].at = "loop" => playState = 3)
  BY <1>1, <1>2, <1>3 DEF Opening, Looping, Places, Player!Inside, Fresh, Rested
<1>5. ~Stuck /\ (says[t].at # "refill" => says[t].file # 0)
  BY <1>1, <1>3, <1>4 DEF Stuck, Opening, Looping
<1>6. PICK k \in Nat, b \in {1, 3 - pEncode, pEncode} :
        /\ Flight(k, b)
        /\ says[t].at = "fill2" => k = 1 /\ b = 1
        /\ says[t].at = "refill" => k = read /\ b = pEncode
        /\ says[t].at \in {"loop", "started", "wait"} =>
             k > 0 /\ b = 3 - pEncode /\ Ahead(k)
  <2>1. CASE says[t].at = "fill2"
    BY <1>3, <1>5, <2>1 DEF Opening
  <2>2. CASE says[t].at = "refill"
    BY <1>2, <1>3, <2>2 DEF Looping
  <2>3. CASE says[t].at \in {"loop", "started", "wait"}
    <3>1. Playing
      BY <1>3, <1>4, <1>5, <2>3 DEF Looping
    <3>2. PICK k \in Nat \ {0} : Flight(k, 3 - pEncode) /\ Ahead(k)
      BY <3>1 DEF Playing
    <3> QED BY <2>3, <3>2
  <2> QED BY <1>4, <2>1, <2>2, <2>3
<1>7. Played = k - 1 /\ dma.len = k /\ hwBuff[dma.buf] = k
  BY <1>1, <1>6 DEF Flight
<1>8. heard' = Append(heard, k)
  BY <1>1, <1>7
<1>9. Played' = k /\ \A i \in 1..Len(heard') : heard'[i] = i
  <2>1. Len(heard) = k - 1 /\ \A i \in 1..Len(heard) : heard[i] = i
    BY <1>7 DEF Played, Alone
  <2> QED BY <1>2, <1>8, <2>1 DEF Played
<1>10. ~dma'.on
  BY <1>1, <1>2 DEF Channel
<1>11. Flight(k, b)'
  BY <1>1, <1>9, <1>10 DEF Flight
<1>12. Ahead(k) => Ahead(k)'
  BY <1>1 DEF Ahead
<1>13. StageOK(t)'
  <2>1. CASE says[t].at = "fill2"
    <3>1. Flight(1, 1)' /\ says'[t].file # 0
      BY <1>1, <1>5, <1>6, <1>11, <2>1
    <3> QED BY <1>1, <1>3, <2>1, <3>1 DEF StageOK, Opening, Looping, Counted
  <2>2. CASE says[t].at = "refill"
    <3>1. Flight(read, pEncode)'
      BY <1>1, <1>6, <1>11, <2>2 DEF Flight
    <3> QED BY <1>1, <1>3, <2>2, <3>1 DEF StageOK, Opening, Looping, Counted
  <2>3. CASE says[t].at \in {"loop", "started", "wait"}
    <3>1. k \in Nat \ {0} /\ Flight(k, 3 - pEncode)' /\ Ahead(k)'
      BY <1>1, <1>6, <1>11, <1>12, <2>3 DEF Flight
    <3>2. Playing' /\ says'[t].file # 0
      BY <1>1, <1>5, <2>3, <3>1 DEF Playing
    <3> QED BY <1>1, <1>3, <1>4, <2>3, <3>2 DEF StageOK, Opening, Looping, Counted
  <2> QED BY <1>4, <2>1, <2>2, <2>3
<1>14. \A u \in Speakers \ {t} : says'[u].at = "out"
  BY <1>1 DEF Alone
<1> QED BY <1>9, <1>13, <1>14 DEF Alone

LEMMA AloneKept ==
  ASSUME IdleInv, AloneInv, [Player!Next]_(Player!vars)
  PROVE  AloneInv'
<1>1. Types' /\ Types /\ Player!Nobody \notin Speakers
  BY TypesKept DEF AloneInv, Types, Player!SpeechAssumption
<1>2. SUFFICES ASSUME NEW t \in Speakers, lone' = t PROVE Alone(t)'
  BY <1>1 DEF AloneInv
<1>3. ASSUME NEW u \in Speakers, Player!Step(u) PROVE Alone(t)'
  <2>1. ~Player!Reject(u) /\ ~Player!StopSound(u)
    BY <1>1, <1>2 DEF Player!Reject, Player!StopSound, Player!Unheard
  <2>2. lone' = lone /\ says[u].at # "out" /\ heard' = heard
    BY <1>3, <2>1 DEF Player!Step, Player!SwitchInit, Player!SwitchOn,
       Player!Open, Player!Fill1, Player!Arm1, Player!Enable1, Player!Fill2,
       Player!Started, Player!NotOver, Player!Over, Player!TakeOver, Player!NoMore,
       Player!ArmNext, Player!EnableNext, Player!Enable, Player!Refill, Player!End,
       Player!At
  <2>3. Alone(t)
    BY <1>2, <2>2 DEF AloneInv
  <2>4. u = t
    BY <2>2, <2>3 DEF Alone
  <2>5. StageOK(t)'
    BY <1>1, <1>3, <2>1, <2>3, <2>4, OpeningStage, LoopStage, EndStage
    DEF Alone, Player!Step
  <2>6. \A v \in Speakers \ {t} : says'[v] = says[v]
    BY <1>1, <1>3, <2>4, StepSays
  <2> QED BY <2>2, <2>3, <2>5, <2>6 DEF Alone
<1>4. ASSUME NEW u \in Speakers, NEW f \in Sounds \cup {Player!Rejected}, Player!Speak(u, f)
      PROVE  Alone(t)'
  <2>1. /\ lone' = (IF Player!Quiet /\ ~tc THEN u ELSE Player!Nobody) /\ heard' = <<>>
        /\ UNCHANGED <<playState, tim7, tc>> /\ says'[u].at = "loop"
        /\ \A v \in Speakers \ {u} : says'[v] = says[v]
    BY <1>1, <1>4, Speaks
  <2>2. Player!Quiet /\ ~tc /\ t = u
    BY <1>1, <1>2, <2>1
  <2>3. \A v \in Speakers : says[v].at = "out"
    BY <2>2 DEF Player!Quiet, Player!At
  <2>4. playState = 0 /\ ~tim7
    BY <2>3 DEF IdleInv, Player!Inside
  <2>5. Len(heard') = 0
    BY <2>1
  <2>6. Fresh'
    BY <2>1, <2>2, <2>4, <2>5 DEF Fresh, Played
  <2>7. StageOK(t)'
    BY <2>1, <2>2, <2>4, <2>6 DEF StageOK, Opening, Looping, Counted
  <2> QED BY <2>1, <2>2, <2>3, <2>5, <2>7 DEF Alone
<1>5. CASE Player!BlockDone
  <2>1. lone = t
    BY <1>2, <1>5 DEF Player!BlockDone
  <2> QED BY <1>1, <1>5, <2>1, BlockStage DEF AloneInv
<1>6. CASE Player!Underrun \/ UNCHANGED Player!vars
  <2>1. Alone(t)
    BY <1>2, <1>6 DEF AloneInv, Player!Underrun, Player!vars
  <2>2. UNCHANGED <<playState, left, read, pageIndex, pEncode, hwBuff, playLength, dma, tc,
                    tim7, says, heard>>
    BY <1>6 DEF Player!Underrun, Player!vars, Player!machine, Player!hardware
  <2> QED BY <2>1, <2>2 DEF Alone, StageOK, Opening, Looping, Counted, Playing, Flight,
          Ahead, Rested, Fresh, Played, First, Stuck
<1>7. CASE Player!Restart
  BY <1>1, <1>2, <1>7 DEF Player!Restart, Player!Unheard
<1> QED BY <1>3, <1>4, <1>5, <1>6, <1>7 DEF Player!Next, Sounds

LEMMA AloneAlways == Player!Safe => []AloneInv
<1>1. Player!Init => AloneInv
  <2> SUFFICES ASSUME Player!Init PROVE AloneInv
    OBVIOUS
  <2>1. says \in [Speakers -> Caller] /\ dma \in Channel
    BY SilentIsOut DEF Player!Init
  <2> QED BY <2>1 DEF Player!Init, AloneInv, Types, Player!SpeechAssumption
<1>2. IdleInv /\ AloneInv /\ [Player!Next]_(Player!vars) => AloneInv'
  BY AloneKept
<1> QED BY IdleAlways, <1>1, <1>2, PTL DEF Player!Safe

(* No buffer is refilled while it plays: a caller that nobody overlaps is  *)
(* heard in file order, for every file.                                    *)
THEOREM LoneCallerInOrder == Player!Safe => []Player!LoneInOrder
<1>1. AloneInv => Player!LoneInOrder
  BY DEF AloneInv, Types, Alone, Player!LoneInOrder
<1> QED BY AloneAlways, <1>1, PTL

(* And of a file of several blocks exactly the last one is never heard.    *)
THEOREM LoneCallerAlmostWhole == Player!Safe => []Player!LoneAlmostWhole
<1>1. AloneInv => Player!LoneAlmostWhole
  BY DEF AloneInv, Alone, StageOK, Looping, Whole, Player!LoneAlmostWhole, Player!At, Played
<1> QED BY AloneAlways, <1>1, PTL

-----------------------------------------------------------------------------
(* The board and its two services.                                         *)

LEMMA PlayerRests == UNCHANGED player => UNCHANGED Player!vars
  BY DEF player, Player!vars, Player!machine, Player!hardware

(* Each step of the board is one of the EEPROM or leaves it alone ...      *)
LEMMA EepromStep == BoardNext => [Next]_vars
<1> SUFFICES ASSUME BoardNext PROVE [Next]_vars
  OBVIOUS
<1>1. ASSUME NEW t \in Tasks, CallWrite(t) \/ WriteStep(t) PROVE Next
  BY <1>1 DEF CallWrite, WriteStep, Next
<1>2. ASSUME NEW t \in Speakers,
             CallSpeak(t) \/ GetChRead(t) \/ GetChClear(t) \/ SpeakStep(t)
      PROVE  UNCHANGED vars
  BY <1>2 DEF CallSpeak, GetChRead, GetChClear, SpeakStep
<1>3. CASE Sound \/ Press
  BY <1>3 DEF Sound, Press
<1>4. CASE DebugStop
  BY <1>4 DEF DebugStop, Next
<1> QED BY <1>1, <1>2, <1>3, <1>4 DEF BoardNext

(* ... and one of the player or leaves that alone.                         *)
LEMMA PlayerStep == BoardNext => [Player!Next]_(Player!vars)
<1> SUFFICES ASSUME BoardNext PROVE Player!Next \/ UNCHANGED Player!vars
  OBVIOUS
<1>1. ASSUME NEW t \in Tasks, CallWrite(t) \/ WriteStep(t) PROVE UNCHANGED Player!vars
  <2>1. UNCHANGED player
    BY <1>1 DEF CallWrite, WriteStep
  <2> QED BY <2>1, PlayerRests
<1>2. ASSUME NEW t \in Speakers, CallSpeak(t) \/ SpeakStep(t) PROVE Player!Next
  BY <1>2 DEF CallSpeak, SpeakStep, Player!Next
<1>3. ASSUME NEW t \in Speakers, GetChRead(t)
      PROVE  UNCHANGED Player!vars
  <2>1. UNCHANGED player
    BY <1>3 DEF GetChRead
  <2> QED BY <2>1, PlayerRests
<1>4. CASE Sound
  BY <1>4 DEF Sound, Player!Next
<1>5. CASE Press
  <2>1. UNCHANGED player
    BY <1>5 DEF Press
  <2> QED BY <2>1, PlayerRests
<1>6. CASE DebugStop
  BY <1>6 DEF DebugStop, Player!Next
<1>7. ASSUME NEW t \in Speakers, GetChClear(t)
      PROVE  Player!Next \/ UNCHANGED Player!vars
  <2>1. CASE got[t] # 0
    BY <1>7, <2>1 DEF GetChClear, Player!Next
  <2>2. CASE got[t] = 0
    BY <1>7, <2>2, PlayerRests DEF GetChClear
  <2> QED BY <2>1, <2>2
<1> QED BY <1>1, <1>2, <1>3, <1>4, <1>5, <1>6, <1>7 DEF BoardNext

(* The board implements the emulated EEPROM ...                            *)
THEOREM ImplementsEeprom == BoardSpec => Spec
<1>1. BoardInit => Init
  BY DEF BoardInit
<1>2. [BoardNext]_board => [Next]_vars
  BY EepromStep DEF board
<1> QED BY <1>1, <1>2, PTL DEF BoardSpec, Spec

(* ... and the speech player, but for its fairness.                        *)
THEOREM ImplementsPlayer == BoardSpec => Player!Safe
<1>1. BoardInit => Player!Init
  BY DEF BoardInit
<1>2. [BoardNext]_board => [Player!Next]_(Player!vars)
  <2>1. UNCHANGED board => UNCHANGED player
    BY DEF board
  <2> QED BY <2>1, PlayerStep, PlayerRests
<1> QED BY <1>1, <1>2, PTL DEF BoardSpec, Player!Safe

(* On a board of any size, overlapping writers mix up no values.           *)
THEOREM BoardNoForeign == BoardSpec => []NoForeignValue
<1> QED BY ImplementsEeprom, NothingForeign, PTL

(* Nor does a reset start a program nobody selected.                       *)
THEOREM BoardBoots == BoardSpec => []BootsSelected
<1> QED BY ImplementsEeprom, BootsWhatWasSelected, PTL

(* A write that runs alone does what it promises.                          *)
THEOREM BoardLoneWrite == BoardSpec => []LoneWriteLands
<1> QED BY ImplementsEeprom, LoneWriteIsExact, PTL

-----------------------------------------------------------------------------
(* The player's properties on the board.                                   *)

(* A player no task is in is idle.                                         *)
THEOREM BoardQuiet == BoardSpec => []QuietIsIdle
BY ImplementsPlayer, QuietPlayerIsIdle, PTL DEF QuietIsIdle

(* A phrase that no other overlaps is heard in order, whatever is written  *)
(* and pressed meanwhile.                                                  *)
THEOREM BoardInOrder == BoardSpec => []LoneInOrder
BY ImplementsPlayer, LoneCallerInOrder, PTL DEF LoneInOrder

(* And all of it is, but for the last one of several blocks.               *)
THEOREM BoardAlmostWhole == BoardSpec => []LoneAlmostWhole
BY ImplementsPlayer, LoneCallerAlmostWhole, PTL DEF LoneAlmostWhole
=============================================================================
