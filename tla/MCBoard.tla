-------------------------------- MODULE MCBoard --------------------------------
(* Small instances of Board: two slots, one half-word and two tasks.  The   *)
(* two services share no state, so the product of all their states is left  *)
(* out: in a program either both tasks write, or both speak and none looks  *)
(* at the key, or one writes while the other speaks and reads the key.      *)
EXTENDS Board

VARIABLE kind

MCInit == BoardInit /\ kind \in {"write", "speak", "both"}

Writers == IF kind = "write" THEN Tasks ELSE IF kind = "speak" THEN {} ELSE {2}
Talkers == IF kind = "write" THEN {} ELSE IF kind = "speak" THEN Speakers ELSE {1}

MCNext ==
  \/ \E t \in Tasks :
       t \in Writers /\ (CallWrite(t) \/ WriteStep(t)) /\ UNCHANGED kind
  \/ \E t \in Speakers :
       t \in Talkers /\ (CallSpeak(t) \/ SpeakStep(t)) /\ UNCHANGED kind
  \/ \E t \in Speakers :
       kind = "both" /\ t \in Talkers /\ (GetChRead(t) \/ GetChClear(t)) /\ UNCHANGED kind
  \/ Sound /\ UNCHANGED kind
  \/ kind # "speak" /\ (Press \/ DebugStop) /\ UNCHANGED kind

MCSpec == MCInit /\ [][MCNext]_<<board, kind>>
=============================================================================
