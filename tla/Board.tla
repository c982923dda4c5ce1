---------------------------------- MODULE Board ----------------------------------
(***************************************************************************)
(* The tasks of a user program on the controller, the services they share  *)
(* without a lock (the emulated EEPROM, the speech player), the key and    *)
(* the supervisor tick that resets the chip when the key is seen pressed.  *)
(*                                                                         *)
(* The scheduler switches tasks anywhere, and a task is in one call at a   *)
(* time.                                                                   *)
(***************************************************************************)
EXTENDS Eeprom, Sequences

CONSTANTS
  Speakers,  (* the tasks that speak and read the key                      *)
  Files,     (* sizes of the speech files                                  *)
  Click      (* size of file 46, the click GetCh plays                     *)

ASSUME BoardAssumption ==
  /\ Speakers \subseteq Tasks /\ 0 \notin Speakers
  /\ Files \subseteq Nat /\ Click \in Nat

VARIABLES
  playState, left, read, pageIndex, pEncode, hwBuff, playLength,
  dma, tc, tim7, underrun, says, heard, lone,
  key,   (* Key: 1 from a press until GetCh or the tick sees it            *)
  got    (* got[t]: what GetCh has read and not yet cleared, or -1         *)

Player == INSTANCE Speech WITH Tasks <- Speakers, Files <- Files \cup {Click},
                               page <- pageIndex

player == <<playState, left, read, pageIndex, pEncode, hwBuff, playLength,
            dma, tc, tim7, underrun, says, heard, lone>>
board == <<vars, player, key, got>>

BoardInit == Init /\ Player!Init /\ key = 0 /\ got = [t \in Tasks |-> -1]

\* A task between two calls.
Free(t) == At(t, "out") /\ got[t] = -1 /\ (t \in Speakers => Player!At(t, "out"))

(* The program writes a slot, or speaks.                                   *)
CallWrite(t) ==
  /\ Free(t)
  /\ \E s \in SlotNos, v \in Values : Write(t, s, v)
  /\ UNCHANGED <<player, key, got>>

CallSpeak(t) ==
  /\ Free(t)
  /\ \E f \in Files \cup {Player!Rejected} : Player!Speak(t, f)
  /\ UNCHANGED <<vars, key, got>>

(* GetCh reads the key ...                                                 *)
GetChRead(t) ==
  /\ Free(t)
  /\ got' = [got EXCEPT ![t] = key]
  /\ UNCHANGED <<vars, player, key>>

(* ... clears it, and answers a press with a click.                        *)
GetChClear(t) ==
  /\ got[t] # -1
  /\ got' = [got EXCEPT ![t] = -1] /\ key' = 0
  /\ IF got[t] # 0 THEN Player!Speak(t, Click) ELSE UNCHANGED player
  /\ UNCHANGED vars

(* key_detection publishes a press.                                        *)
Press ==
  /\ key = 0 /\ key' = 1
  /\ UNCHANGED <<vars, player, got>>

(* The tick finds the key pressed: everything stops and the chip resets.   *)
DebugStop ==
  /\ key = 1 /\ key' = 0
  /\ Reset /\ Player!Restart
  /\ got' = [t \in Tasks |-> -1]

WriteStep(t) == Step(t) /\ UNCHANGED <<player, key, got>>
SpeakStep(t) == Player!Step(t) /\ UNCHANGED <<vars, key, got>>
Sound == (Player!BlockDone \/ Player!Underrun) /\ UNCHANGED <<vars, key, got>>

BoardNext ==
  \/ \E t \in Tasks : CallWrite(t) \/ WriteStep(t)
  \/ \E t \in Speakers : CallSpeak(t) \/ GetChRead(t) \/ GetChClear(t) \/ SpeakStep(t)
  \/ Sound \/ Press \/ DebugStop

BoardSpec == BoardInit /\ [][BoardNext]_board

-----------------------------------------------------------------------------
(* Properties: those of the two services, in this company.                 *)

(* See Speech: a phrase that no other overlaps is played in file order,    *)
(* every block whole and once.                                             *)
LoneInOrder == Player!LoneInOrder

(* See Speech: a phrase of several blocks loses exactly its last one.      *)
LoneAlmostWhole == Player!LoneAlmostWhole

(* See Speech: however callers overlap, a player no task is in is idle.    *)
QuietIsIdle == Player!QuietIsIdle
=============================================================================
