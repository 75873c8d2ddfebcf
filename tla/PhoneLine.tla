----------------------------- MODULE PhoneLine ------------------------------
(***************************************************************************)
(* What the call client promises of the device it runs on: one line, used  *)
(* by one session at a time and never twice by the same session; the       *)
(* microphone and the ring only while the line is taken, both given back   *)
(* in the step that frees it; a conversation that has begun lasts until    *)
(* the line is freed.                                                      *)
(***************************************************************************)
EXTENDS Naturals

VARIABLES line,      \* the session that uses the line, 0 for none
          last,      \* the last session that took it
          mic,       \* the microphone is live
          sound,     \* a ring sounds
          talking    \* the conversation has begun

phone == <<line, last, mic, sound, talking>>

Off == ~mic /\ ~sound /\ ~talking

PhoneInit == line = 0 /\ last = 0 /\ Off

Take ==
  /\ line = 0
  /\ last' = last + 1
  /\ line' = last'
  /\ UNCHANGED <<mic, sound, talking>>

Use ==
  /\ line # 0
  /\ mic' \in BOOLEAN /\ mic => mic'
  /\ talking' \in BOOLEAN /\ talking => talking'
  /\ sound' \in BOOLEAN
  /\ UNCHANGED <<line, last>>

Free ==
  /\ line # 0
  /\ line' = 0
  /\ UNCHANGED last
  /\ Off'

PhoneNext == Take \/ Use \/ Free

PhoneSpec == PhoneInit /\ [][PhoneNext]_phone
=============================================================================
