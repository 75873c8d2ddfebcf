----------------------------- MODULE RadioTurns -----------------------------
(***************************************************************************)
(* What push-to-talk promises to the people of a group, whatever becomes   *)
(* of the floor key, the handlers and the process: they speak one after    *)
(* the other, each turn with a clip of its own; who speaks is present      *)
(* while the radio is open, so that going away ends the turn in the same   *)
(* step; and a clip waits to be processed only from the step that ends its *)
(* turn, and never again once it was given up.                             *)
(***************************************************************************)
CONSTANTS People, Clips

VARIABLES open,     \* the radio session runs
          present,  \* who has joined with a device that works
          turn,     \* the turn being spoken: nobody's, or one speaker with a clip
          spent,    \* the clips of all turns so far
          waiting   \* the clips that wait to be processed

radio == <<open, present, turn, spent, waiting>>

Heard == {t.clip : t \in turn}
SpeakerStays == open' => \A t \in turn : t.by \in present'

TurnsInit ==
  /\ open = TRUE /\ present \subseteq People
  /\ turn = {} /\ spent = {} /\ waiting = {}

Arrive ==
  /\ present \subseteq present' /\ present' \subseteq People
  /\ UNCHANGED <<open, turn, spent, waiting>>

Speak(p, c) ==
  /\ open /\ p \in present /\ turn = {} /\ c \notin spent
  /\ turn' = {[by |-> p, clip |-> c]}
  /\ spent' = spent \cup {c}
  /\ UNCHANGED <<open, present, waiting>>

\* The turn is over: its clip waits to be processed or is lost, the speaker may be gone.
Fall ==
  /\ turn # {} /\ turn' = {}
  /\ waiting' \subseteq waiting \cup Heard
  /\ present' \subseteq present
  /\ UNCHANGED <<open, spent>>

\* Others go away; the clips of somebody who is removed wait no longer.
Depart ==
  /\ present' \subseteq present /\ SpeakerStays
  /\ waiting' \subseteq waiting
  /\ UNCHANGED <<open, turn, spent>>

\* The radio closes; a turn may outlast it.
Shut ==
  /\ open /\ ~open'
  /\ present' \subseteq present
  /\ UNCHANGED <<turn, spent, waiting>>

TurnsNext ==
  \/ Arrive \/ Fall \/ Depart \/ Shut
  \/ \E p \in People, c \in Clips : Speak(p, c)

TurnsSpec == TurnsInit /\ [][TurnsNext]_radio
=============================================================================
