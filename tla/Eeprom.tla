--------------------------------- MODULE Eeprom ---------------------------------
(***************************************************************************)
(* The emulated EEPROM: WriteEEPROM and ReadEEPROM of wb_control.c over    *)
(* one page of the internal flash and the flash driver under it.           *)
(*                                                                         *)
(* Every task of a user program may write.  Nothing locks the page, the    *)
(* driver or the controller's registers, and the chip may reset between    *)
(* any two steps (the supervisor's stop key does that); the processor      *)
(* stalls while the flash is busy, so an erase or a half-word is never cut *)
(* in two.                                                                 *)
(***************************************************************************)
EXTENDS Integers

CONSTANTS
  Tasks,        (* the tasks of the program                                *)
  Slots,        (* WB_EEPROM_SLOTS: the page has slots 0..Slots-1          *)
  ProgramSlot,  (* 165: the number of the selected program                 *)
  Values        (* the half-words the program writes                       *)

Blank == 65535  (* an erased half-word                                     *)
HalfWord == {x \in Int : 0 <= x /\ x <= Blank}

ASSUME EepromAssumption ==
  /\ Slots \in Nat /\ ProgramSlot \in Nat /\ ProgramSlot < Slots
  /\ Values \subseteq HalfWord

VARIABLES
  page,       (* the flash page                                            *)
  wr,         (* wr[t]: where task t is in WriteEEPROM, and its locals     *)
  cr,         (* FLASH_CR: its LOCK, PER and PG bits                       *)
  dead,       (* the controller has refused keys: locked until reset       *)
  pgerr,      (* FLASH_SR's PGERR bit, set by a half-word that was not     *)
              (* blank and cleared by hand only                            *)
  program,    (* ProgramIdx, chosen when the chip starts                   *)
  written,    (* history: what was ever written to a slot                  *)
  want        (* history: the page before a write that runs alone, the     *)
              (* page it asks for, and whether it found the controller fit *)

controller == <<cr, dead, pgerr>>
vars == <<page, wr, controller, program, written, want>>

SlotNos == 0..(Slots - 1)

(* FLASH_CR is changed by a load and a store, between which another task   *)
(* may run; seen is the register the load went to.  CRStages are the       *)
(* stages that change it.                                                  *)
Bits == [lock : BOOLEAN, per : BOOLEAN, pg : BOOLEAN]
Locked == [lock |-> TRUE, per |-> FALSE, pg |-> FALSE]
CRStages == {"setPER", "start", "clearPER", "setPG", "clearPG", "lock"}
Stages == {"out", "copy", "unlock", "clear", "erase", "arm", "program"} \cup CRStages

EmptyBuf == [s \in SlotNos |-> Blank]
Out == [at |-> "out", n |-> 0, idx |-> 0, value |-> 0, buf |-> EmptyBuf,
        loaded |-> FALSE, seen |-> Locked]
Unknown == [known |-> FALSE, fit |-> FALSE, old |-> EmptyBuf, new |-> EmptyBuf]

\* ReadEEPROM, of the half-word a slot holds.
ReadEEPROM(v) == IF v >= 4096 THEN 4095 ELSE v

\* init_program_space: an 8-bit number, 1 unless it is one of the four.
ProgramOf(v) ==
  LET idx == ReadEEPROM(v) % 256 IN IF idx \in {2, 3, 4} THEN idx ELSE 1

Init ==
  /\ page = EmptyBuf
  /\ wr = [t \in Tasks |-> Out]
  /\ cr = Locked /\ dead = FALSE /\ pgerr = FALSE
  /\ program = ProgramOf(Blank)
  /\ written = [s \in SlotNos |-> {}]
  /\ want = [t \in Tasks |-> Unknown]

At(t, stage) == wr[t].at = stage
Goto(t, stage) ==
  wr' = [wr EXCEPT ![t] = [@ EXCEPT !.at = stage, !.loaded = FALSE, !.seen = Locked]]
Resting(t) == \A u \in Tasks \ {t} : At(u, "out")

(* WriteEEPROM is called, for one of the page's slots: the code does not   *)
(* test the index, and one from Slots up would be stored past its buffer.  *)
(* The history notes what the call should leave, if no other overlaps it.  *)
Write(t, s, v) ==
  /\ At(t, "out")
  /\ wr' = [wr EXCEPT ![t] = [Out EXCEPT !.at = "copy", !.idx = s, !.value = v]]
  /\ written' = [written EXCEPT ![s] = @ \cup {v}]
  /\ want' = [u \in Tasks |->
                IF u = t /\ Resting(t)
                THEN [known |-> TRUE, fit |-> ~dead /\ ~cr.pg,
                      old |-> page, new |-> [page EXCEPT ![s] = v]]
                ELSE Unknown]
  /\ UNCHANGED <<page, controller, program>>

(* The copy loop: slot n of the page goes to the buffer; after the last    *)
(* one the new value replaces its slot.                                    *)
Copy(t) ==
  LET buf == [wr[t].buf EXCEPT ![wr[t].n] = page[wr[t].n]] IN
  /\ At(t, "copy")
  /\ wr' = [wr EXCEPT ![t] =
       IF wr[t].n + 1 < Slots
       THEN [@ EXCEPT !.n = wr[t].n + 1, !.buf = buf]
       ELSE [Out EXCEPT !.at = "unlock",
                        !.buf = [buf EXCEPT ![wr[t].idx] = wr[t].value]]]
  /\ UNCHANGED <<page, controller, program, written, want>>

(* FLASH_Unlock writes the two keys.  Keys that arrive while the           *)
(* controller is open may leave it dead until the next reset.              *)
Unlock(t) ==
  /\ At(t, "unlock") /\ Goto(t, "clear")
  /\ dead' \in IF cr.lock THEN {dead} ELSE BOOLEAN
  /\ cr' = [cr EXCEPT !.lock = dead']
  /\ UNCHANGED <<page, pgerr, program, written, want>>

\* (mutant) the error of an earlier overlap is not cleared
ClearFlagNot(t) ==
  /\ At(t, "clear") /\ Goto(t, "erase")
  /\ UNCHANGED <<page, controller, program, written, want>>

(* FLASH_ClearFlag.                                                        *)
ClearFlag(t) ==
  /\ At(t, "clear") /\ Goto(t, "erase")
  /\ pgerr' = FALSE
  /\ UNCHANGED <<page, cr, dead, program, written, want>>

-----------------------------------------------------------------------------
(* The accesses of FLASH_CR.                                               *)

\* FLASH_CR goes to a register of the task.
Load(t) ==
  /\ wr[t].at \in CRStages /\ ~wr[t].loaded
  /\ wr' = [wr EXCEPT ![t] = [@ EXCEPT !.loaded = TRUE, !.seen = cr]]
  /\ UNCHANGED <<page, controller, program, written, want>>

\* The register, changed, is stored; a locked FLASH_CR ignores it.
Store(t, stage, bits) ==
  /\ At(t, stage) /\ wr[t].loaded
  /\ cr' = IF cr.lock THEN cr ELSE bits
  /\ UNCHANGED <<dead, pgerr, program, written>>

(* FLASH_ErasePage does nothing after an error ...                         *)
ErasePage(t) ==
  /\ At(t, "erase") /\ Goto(t, IF pgerr THEN "arm" ELSE "setPER")
  /\ UNCHANGED <<page, controller, program, written, want>>

SetPER(t) ==
  /\ Store(t, "setPER", [wr[t].seen EXCEPT !.per = TRUE]) /\ Goto(t, "start")
  /\ UNCHANGED <<page, want>>

(* ... and otherwise starts the erase.  The bits stored with STRT decide:  *)
(* without PER nothing is erased, with PG or LOCK beside it either may be. *)
Start(t) ==
  LET bits == wr[t].seen IN
  /\ Store(t, "start", bits) /\ Goto(t, "clearPER")
  /\ page' \in IF cr.lock \/ ~bits.per THEN {page}
               ELSE IF bits.pg \/ bits.lock THEN {page, EmptyBuf} ELSE {EmptyBuf}
  /\ UNCHANGED want

ClearPER(t) ==
  /\ Store(t, "clearPER", [wr[t].seen EXCEPT !.per = FALSE]) /\ Goto(t, "arm")
  /\ UNCHANGED <<page, want>>

\* The loop's next half-word, or its end.
NextSlot(t) ==
  wr' = [wr EXCEPT ![t] =
    IF wr[t].n + 1 < Slots
    THEN [@ EXCEPT !.at = "arm", !.n = wr[t].n + 1, !.loaded = FALSE, !.seen = Locked]
    ELSE [@ EXCEPT !.at = "lock", !.n = 0, !.loaded = FALSE, !.seen = Locked]]

(* FLASH_ProgramHalfWord skips the half-word after an error ...            *)
SkipHalfWord(t) ==
  /\ At(t, "arm") /\ pgerr /\ NextSlot(t)
  /\ UNCHANGED <<page, controller, program, written, want>>

Arm(t) ==
  /\ At(t, "arm") /\ ~pgerr /\ Goto(t, "setPG")
  /\ UNCHANGED <<page, controller, program, written, want>>

SetPG(t) ==
  /\ Store(t, "setPG", [wr[t].seen EXCEPT !.pg = TRUE]) /\ Goto(t, "program")
  /\ UNCHANGED <<page, want>>

\* (mutant) a task writes the half-word of whoever armed the controller last
ProgramShared(t) ==
  LET n == wr[t].n IN
  /\ At(t, "program") /\ Goto(t, "clearPG")
  /\ page' = IF ~cr.lock /\ cr.pg
             THEN [page EXCEPT ![n] = wr[t].buf[(n + 1) % Slots]] ELSE page
  /\ UNCHANGED <<controller, program, written, want>>

(* ... and otherwise writes it.  Only a blank half-word takes a value, and *)
(* zero goes everywhere; anything else is PGERR.  Nothing happens without  *)
(* PG, and with PER beside it either may.                                  *)
ProgramHalfWord(t) ==
  LET n == wr[t].n
      takes == page[n] = Blank \/ wr[t].buf[n] = 0
      open == ~cr.lock /\ cr.pg
  IN
  /\ At(t, "program") /\ Goto(t, "clearPG")
  /\ \E done \in IF open /\ cr.per THEN BOOLEAN ELSE {open} :
       /\ page' = IF done /\ takes THEN [page EXCEPT ![n] = wr[t].buf[n]] ELSE page
       /\ pgerr' = (pgerr \/ (done /\ ~takes))
  /\ UNCHANGED <<cr, dead, program, written, want>>

ClearPG(t) ==
  /\ Store(t, "clearPG", [wr[t].seen EXCEPT !.pg = FALSE]) /\ NextSlot(t)
  /\ UNCHANGED <<page, want>>

(* FLASH_Lock; WriteEEPROM returns.                                        *)
Lock(t) ==
  /\ Store(t, "lock", [wr[t].seen EXCEPT !.lock = TRUE])
  /\ wr' = [wr EXCEPT ![t] = Out]
  /\ want' = [want EXCEPT ![t] = Unknown]
  /\ UNCHANGED page

-----------------------------------------------------------------------------
\* (mutant) the program number is used before the range test
ResetUntested ==
  /\ program' = page[ProgramSlot] % 256
  /\ wr' = [t \in Tasks |-> Out]
  /\ cr' = Locked /\ dead' = FALSE /\ pgerr' = FALSE
  /\ want' = [t \in Tasks |-> Unknown]
  /\ UNCHANGED <<page, written>>

(* The chip resets: only the page survives, and the program that runs      *)
(* next is read from it.                                                   *)
Reset ==
  /\ program' = ProgramOf(page[ProgramSlot])
  /\ wr' = [t \in Tasks |-> Out]
  /\ cr' = Locked /\ dead' = FALSE /\ pgerr' = FALSE
  /\ want' = [t \in Tasks |-> Unknown]
  /\ UNCHANGED <<page, written>>

Step(t) ==
  \/ Copy(t) \/ Unlock(t) \/ ClearFlag(t) \/ Load(t)
  \/ ErasePage(t) \/ SetPER(t) \/ Start(t) \/ ClearPER(t)
  \/ SkipHalfWord(t) \/ Arm(t) \/ SetPG(t) \/ ProgramHalfWord(t) \/ ClearPG(t)
  \/ Lock(t)

Next ==
  \/ \E t \in Tasks : (\E s \in SlotNos, v \in Values : Write(t, s, v)) \/ Step(t)
  \/ Reset

Spec == Init /\ [][Next]_vars

-----------------------------------------------------------------------------
(* Properties.                                                             *)

TypeOK ==
  /\ page \in [SlotNos -> HalfWord]
  /\ wr \in [Tasks -> [at : Stages, n : SlotNos, idx : SlotNos, value : HalfWord,
                       buf : [SlotNos -> HalfWord], loaded : BOOLEAN, seen : Bits]]
  /\ cr \in Bits /\ dead \in BOOLEAN /\ pgerr \in BOOLEAN
  /\ program \in {1, 2, 3, 4}
  /\ written \in [SlotNos -> SUBSET HalfWord]

Own(s) == {Blank} \cup written[s]

(* Whatever writers overlap and wherever a reset strikes, a slot is blank  *)
(* or holds a half-word some task wrote to that very slot: writes may be   *)
(* lost, never mixed up.                                                   *)
NoForeignValue == \A s \in SlotNos : page[s] \in Own(s)

(* A write that no other write overlaps and no reset cuts is all or        *)
(* nothing, whatever earlier overlaps left in the controller: it leaves    *)
(* its value in its slot and every other slot as it was, or the page as it *)
(* was.  It can be lost only if the overlaps left the controller dead or   *)
(* PG set; PGERR, PER or the page they left do not harm it.                *)
LoneWriteLands ==
  \A t \in Tasks : At(t, "lock") /\ want[t].known =>
    page = want[t].new \/ (~want[t].fit /\ page = want[t].old)

(* The program the chip starts is one some task selected, or the first.    *)
BootsSelected ==
  program = 1 \/ \E v \in written[ProgramSlot] : program = ProgramOf(v)
=============================================================================
