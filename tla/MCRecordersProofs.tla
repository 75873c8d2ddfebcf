-------------------------- MODULE MCRecordersProofs --------------------------
(***************************************************************************)
(* The parts of the pages that take a microphone or a camera: the devices   *)
(* of a group, the recorders of the message form and of the assistant's     *)
(* chat (with the chat's history) and the live translator, for any number   *)
(* of attempts.  A permission is answered after the dialog, the intent or   *)
(* the recording that asked for it may be over: the invariants name, for    *)
(* every permission under way, who stops what it brings.  Then the two      *)
(* other histories read page by page: the translations and the open         *)
(* conversation; and the queue of what a group's page reads aloud.          *)
(***************************************************************************)
EXTENDS MCPagesProofs, WellFoundedInduction, FiniteSetTheorems

-----------------------------------------------------------------------------
(* The devices of a group's page. *)

DeviceNumbers == 0 .. PageAcquires
Streams == [at : {"none", "asked", "retried", "on", "off"}, device : Devices!Choices,
            by : {"none", "test", "prejoin"}, while : SUBSET Devices!Acquires]
Managers == [active : DeviceNumbers, meter : DeviceNumbers, device : Devices!Choices, ready : BOOLEAN]
DevicePages == [prejoin : BOOLEAN, test : DeviceNumbers]
Ghosts == [replaced : SUBSET Devices!Acquires, granted : Devices!Choices, guessed : BOOLEAN]

\* The manager's stream is on, and whoever still waits for a stream was waiting when it was granted.
ActiveIsOn(s, a) ==
  a # 0 => s[a].at = "on" /\ \A i \in Devices!Acquires : s[i].at \in {"asked", "retried"} => i \in s[a].while

OthersReplaced(s, a, gone) == \A i \in Devices!Acquires : s[i].at = "on" => i = a \/ i \in gone

KnownToWork(m, g) == m.ready /\ ~g.guessed => m.device = g.granted

DevicesTyped ==
  /\ v1 \in [Devices!Acquires -> Streams] /\ v2 \in Managers /\ v3 \in DevicePages /\ v4 \in Ghosts

DevicesInv ==
  /\ DevicesTyped
  /\ ActiveIsOn(v1, v2.active)
  /\ OthersReplaced(v1, v2.active, v4.replaced)
  /\ KnownToWork(v2, v4)

LEMMA DeviceBounds ==
  /\ 0 \in DeviceNumbers /\ 0 \in Devices!Choices /\ 0 \notin Devices!Acquires
  /\ Devices!Acquires \subseteq DeviceNumbers /\ \A n \in DeviceNumbers : n # 0 => n \in Devices!Acquires
  /\ DeviceSet \subseteq Devices!Choices
  BY PagesConstants DEF Devices!DevicesAssumption, DeviceNumbers, Devices!Choices, Devices!Acquires

\* The manager lets its stream go.
LEMMA StoppedKeeps ==
  ASSUME DevicesInv
  PROVE  /\ Devices!Stopped(v1) \in [Devices!Acquires -> Streams]
         /\ \A i \in Devices!Acquires :
              /\ i = v2.active => Devices!Stopped(v1)[i] = [v1[i] EXCEPT !.at = "off"]
              /\ i # v2.active => Devices!Stopped(v1)[i] = v1[i]
         /\ OthersReplaced(Devices!Stopped(v1), 0, v4.replaced)
<1>1. v1 \in [Devices!Acquires -> Streams] /\ OthersReplaced(v1, v2.active, v4.replaced)
  BY DEF DevicesInv, DevicesTyped
<1>2. ASSUME NEW i \in Devices!Acquires PROVE [v1[i] EXCEPT !.at = "off"] \in Streams /\ v1[i] \in Streams
  BY <1>1 DEF Streams
<1>3. Devices!Stopped(v1) \in [Devices!Acquires -> Streams]
  BY <1>2 DEF Devices!Stopped
<1>4. ASSUME NEW i \in Devices!Acquires
      PROVE  /\ i = v2.active => Devices!Stopped(v1)[i] = [v1[i] EXCEPT !.at = "off"]
             /\ i # v2.active => Devices!Stopped(v1)[i] = v1[i]
  BY DEF Devices!Stopped
<1>5. ASSUME NEW i \in Devices!Acquires PROVE [v1[i] EXCEPT !.at = "off"].at = "off"
  BY <1>1 DEF Streams
<1> QED  BY <1>1, <1>3, <1>4, <1>5 DEF OthersReplaced

\* A stream is asked for once the manager's own is stopped.
LEMMA AskKeeps ==
  ASSUME DevicesInv, NEW i \in Devices!Acquires, NEW d \in Devices!Choices, NEW by \in {"test", "prejoin"},
         v1[i].at = "none", v1' = [Devices!Stopped(v1) EXCEPT ![i] = Devices!Request(d, by)]
  PROVE  v1' \in [Devices!Acquires -> Streams] /\ OthersReplaced(v1', 0, v4.replaced)
<1>1. Devices!Request(d, by) \in Streams /\ Devices!Request(d, by).at = "asked"
  BY DEF Devices!Request, Streams
<1> QED  BY <1>1, StoppedKeeps DEF OthersReplaced

LEMMA DevicesInitEstablishes == ASSUME Devices!Init PROVE DevicesInv
  BY DeviceBounds DEF Devices!Init, DevicesInv, DevicesTyped, Streams, Managers, DevicePages, Ghosts, ActiveIsOn,
                      OthersReplaced, KnownToWork

LEMMA DevicesStepKeeps == ASSUME DevicesInv, [Devices!Next]_Devices!vars PROVE DevicesInv'
<1>0. /\ v1 \in [Devices!Acquires -> Streams] /\ v2 \in Managers /\ v3 \in DevicePages /\ v4 \in Ghosts
      /\ ActiveIsOn(v1, v2.active) /\ OthersReplaced(v1, v2.active, v4.replaced) /\ KnownToWork(v2, v4)
  BY DEF DevicesInv, DevicesTyped
<1>1. CASE UNCHANGED Devices!vars
  BY <1>0, <1>1 DEF Devices!vars, DevicesInv, DevicesTyped
<1>2. ASSUME NEW i \in Devices!Acquires, NEW by \in {"test", "prejoin"}, Devices!Asked(i, by), UNCHANGED <<v3, v4>>
      PROVE  DevicesInv'
  <2>1. v1' \in [Devices!Acquires -> Streams] /\ OthersReplaced(v1', 0, v4.replaced)
    <3>1. v2.device \in Devices!Choices  BY <1>0 DEF Managers
    <3> QED  BY <3>1, <1>2, AskKeeps DEF Devices!Asked
  <2>2. v2' \in Managers /\ v2'.active = 0 /\ v2'.ready = v2.ready /\ v2'.device = v2.device
    BY <1>0, <1>2, DeviceBounds DEF Devices!Asked, Devices!Free, Managers
  <2> QED  BY <1>0, <1>2, <2>1, <2>2 DEF DevicesInv, DevicesTyped, ActiveIsOn, KnownToWork
<1>3. ASSUME NEW i \in Devices!Acquires, NEW d \in DeviceSet, Devices!Granted(i, d) PROVE DevicesInv'
  <2>1. i \in Devices!Pending /\ v1[i].at \in {"asked", "retried"} /\ d \in Devices!Choices /\ i \in DeviceNumbers
    BY <1>3, DeviceBounds DEF Devices!Granted, Devices!Pending
  <2> DEFINE w == Devices!Pending \ {i}
  <2>2. w \in SUBSET Devices!Acquires  BY DEF Devices!Pending
  <2>3. \A j \in Devices!Acquires : v1[j].at \in {"asked", "retried"} /\ j # i => j \in w
    BY DEF Devices!Pending
  <2>4. v1' = [v1 EXCEPT ![i].at = "on", ![i].while = w]
    BY <1>3 DEF Devices!Granted
  <2> HIDE DEF w
  <2>5. v1' \in [Devices!Acquires -> Streams] /\ v1'[i].at = "on" /\ v1'[i].while = w
        /\ \A j \in Devices!Acquires : j # i => v1'[j] = v1[j]
    <3> DEFINE z == [v1[i] EXCEPT !.at = "on", !.while = w]
    <3>1. z \in Streams /\ z.at = "on" /\ z.while = w
      <4>1. v1[i] \in Streams  BY <1>0
      <4> QED  BY <2>2, <4>1 DEF Streams
    <3>2. v1' = [v1 EXCEPT ![i] = z]  BY <2>4
    <3> HIDE DEF z
    <3> QED  BY <1>0, <3>1, <3>2
  <2> DEFINE gone == v4.replaced \cup {j \in {v2.active} \ {0} : i \in v1[j].while}
  <2>6. gone \in SUBSET Devices!Acquires
    BY <1>0, DeviceBounds DEF Managers, Ghosts
  <2>7. v2.active # 0 => v2.active \in gone
    BY <1>0, <2>1 DEF ActiveIsOn
  <2>7a. \A j \in v4.replaced : j \in gone
    OBVIOUS
  <2>8. v4' = [v4 EXCEPT !.replaced = gone, !.granted = d, !.guessed = FALSE]
    BY <1>3 DEF Devices!Granted
  <2> HIDE DEF gone
  <2>9. v4' \in Ghosts /\ v4'.replaced = gone /\ v4'.granted = d
    BY <1>0, <2>1, <2>6, <2>8 DEF Ghosts
  <2>10. v2' \in Managers /\ v2'.active = i /\ v2'.device = d
    BY <1>0, <1>3, <2>1 DEF Devices!Granted, Devices!Remembered, Managers
  <2>11. v3' \in DevicePages
    BY <1>0, <1>3, <2>1 DEF Devices!Granted, DevicePages
  <2>12. ActiveIsOn(v1', i)
    BY <2>3, <2>5 DEF ActiveIsOn
  <2>13. OthersReplaced(v1', i, gone)
    BY <1>0, <2>5, <2>7, <2>7a, DeviceBounds DEF OthersReplaced
  <2> QED  BY <2>5, <2>9, <2>10, <2>11, <2>12, <2>13 DEF DevicesInv, DevicesTyped, KnownToWork
<1>4. ASSUME NEW i \in Devices!Acquires, Devices!NotFound(i) PROVE DevicesInv'
  <2>1. v1' \in [Devices!Acquires -> Streams] /\ v1[i].at = "asked" /\ v1'[i].at = "retried"
        /\ v1'[i].while = v1[i].while /\ \A j \in Devices!Acquires : j # i => v1'[j] = v1[j]
    BY <1>0, <1>4, DeviceBounds DEF Devices!NotFound, Streams
  <2>2. v2' \in Managers /\ v2'.active = v2.active /\ v2'.device = 0 /\ (v2'.ready => v2.ready /\ v2.device = 0)
    BY <1>0, <1>4, DeviceBounds DEF Devices!NotFound, Devices!Remembered, Managers
  <2>3. v3' = v3 /\ v4' = v4  BY <1>4 DEF Devices!NotFound
  <2>4. v2.active \in DeviceNumbers  BY <1>0 DEF Managers
  <2> QED  BY <1>0, <2>1, <2>2, <2>3, <2>4, DeviceBounds
             DEF DevicesInv, DevicesTyped, ActiveIsOn, OthersReplaced, KnownToWork
<1>5. ASSUME NEW i \in Devices!Acquires, Devices!Denied(i) PROVE DevicesInv'
  <2> DEFINE failed == [v1 EXCEPT ![i].at = "off"]
  <2>1. failed \in [Devices!Acquires -> Streams] /\ failed[i].at = "off" /\ v1[i].at \in {"asked", "retried"}
        /\ \A j \in Devices!Acquires : j # i => failed[j] = v1[j]
    BY <1>0, <1>5 DEF Devices!Denied, Devices!Pending, Streams
  <2>2. v3' = v3 /\ v4' = v4  BY <1>5 DEF Devices!Denied
  <2>3. v2.active \in DeviceNumbers  BY <1>0 DEF Managers
  <2> HIDE DEF failed
  <2>4. ActiveIsOn(failed, v2.active) /\ OthersReplaced(failed, v2.active, v4.replaced)
    BY <1>0, <2>1, <2>3, DeviceBounds DEF ActiveIsOn, OthersReplaced
  <2>5. CASE v1[i].by = "test"
    <3>1. v1' = Devices!Stopped(failed) /\ v2' = Devices!Free(v2)
      BY <1>5, <2>5 DEF Devices!Denied, failed
    <3>2. ASSUME NEW j \in Devices!Acquires PROVE [failed[j] EXCEPT !.at = "off"] \in Streams
      BY <2>1 DEF Streams
    <3>3. ASSUME NEW j \in Devices!Acquires PROVE [failed[j] EXCEPT !.at = "off"].at = "off"
      BY <2>1 DEF Streams
    <3>4. v1' \in [Devices!Acquires -> Streams]
      BY <2>1, <3>1, <3>2 DEF Devices!Stopped
    <3>5. OthersReplaced(v1', 0, v4.replaced)
      BY <2>4, <3>1, <3>3 DEF Devices!Stopped, OthersReplaced
    <3>6. v2' \in Managers /\ v2'.active = 0 /\ v2'.ready = v2.ready /\ v2'.device = v2.device
      BY <1>0, <3>1, DeviceBounds DEF Devices!Free, Managers
    <3> QED  BY <1>0, <2>2, <3>4, <3>5, <3>6 DEF DevicesInv, DevicesTyped, ActiveIsOn, KnownToWork
  <2>6. CASE v1[i].by # "test"
    <3>1. v1' = failed /\ v2' = v2  BY <1>5, <2>6 DEF Devices!Denied, failed
    <3> QED  BY <1>0, <2>1, <2>2, <2>4, <3>1 DEF DevicesInv, DevicesTyped
  <2> QED  BY <2>5, <2>6
<1>6. ASSUME Devices!TestOver \/ Devices!PrejoinClosed PROVE DevicesInv'
  <2>1. v1' = Devices!Stopped(v1)  BY <1>6 DEF Devices!TestOver, Devices!PrejoinClosed
  <2>2. v1' \in [Devices!Acquires -> Streams] /\ OthersReplaced(v1', 0, v4.replaced)
    BY <2>1, StoppedKeeps
  <2>3. v3' \in DevicePages
    BY <1>0, <1>6, DeviceBounds DEF Devices!TestOver, Devices!PrejoinClosed, DevicePages
  <2>4. v2' \in Managers /\ v2'.active = 0 /\ v2'.device = v2.device
    BY <1>0, <1>6, DeviceBounds DEF Devices!TestOver, Devices!PrejoinClosed, Devices!Free, Managers
  <2>5. v4' \in Ghosts /\ v4'.replaced = v4.replaced /\ v4'.granted = v4.granted
    <3>1. v4' = v4 \/ v4' = [v4 EXCEPT !.guessed = v4.guessed \/ v4.granted # v2.device]
      BY <1>6 DEF Devices!TestOver, Devices!PrejoinClosed
    <3> DEFINE b == v4.guessed \/ v4.granted # v2.device
    <3>2. b \in BOOLEAN  BY <1>0 DEF Ghosts
    <3> HIDE DEF b
    <3>3. v4' = v4 \/ v4' = [v4 EXCEPT !.guessed = b]  BY <3>1 DEF b
    <3> QED  BY <1>0, <3>2, <3>3 DEF Ghosts
  <2>6. KnownToWork(v2', v4')
    <3>1. CASE Devices!TestOver
      <4> DEFINE b == v4.guessed \/ v4.granted # v2.device
      <4>1. v4'.guessed = b /\ b \in BOOLEAN
        BY <1>0, <3>1 DEF Devices!TestOver, Ghosts
      <4> QED  BY <2>4, <2>5, <4>1 DEF KnownToWork
    <3>2. CASE Devices!PrejoinClosed
      <4>1. v2'.ready = v2.ready /\ v4' = v4
        BY <1>0, <3>2 DEF Devices!PrejoinClosed, Devices!Free, Managers
      <4> QED  BY <1>0, <2>4, <4>1 DEF KnownToWork
    <3> QED  BY <1>6, <3>1, <3>2
  <2> QED  BY <2>2, <2>3, <2>4, <2>5, <2>6 DEF DevicesInv, DevicesTyped, ActiveIsOn
<1>7. ASSUME Devices!PrejoinOpened PROVE DevicesInv'
  BY <1>0, <1>7 DEF Devices!PrejoinOpened, DevicesInv, DevicesTyped, DevicePages
<1>8. ASSUME Devices!Rendered PROVE DevicesInv'
  <2>1. v2' \in Managers /\ v2'.active = v2.active /\ v2'.device = v2.device /\ v2'.ready = v2.ready
    BY <1>0, <1>8 DEF Devices!Rendered, Managers
  <2> QED  BY <1>0, <1>8, <2>1 DEF Devices!Rendered, DevicesInv, DevicesTyped, KnownToWork
<1>9. ASSUME NEW d \in Devices!Choices, Devices!DeviceChosen(d) PROVE DevicesInv'
  <2>1. v2' \in Managers /\ v2'.active = v2.active /\ ~v2'.ready
    BY <1>0, <1>9 DEF Devices!DeviceChosen, Devices!Remembered, Managers
  <2> QED  BY <1>0, <1>9, <2>1 DEF Devices!DeviceChosen, DevicesInv, DevicesTyped, KnownToWork
<1>10. ASSUME NEW i \in Devices!Acquires, NEW d \in DeviceSet, Devices!PrejoinDeviceChosen(i, d) PROVE DevicesInv'
  <2>1. v1' \in [Devices!Acquires -> Streams] /\ OthersReplaced(v1', 0, v4.replaced)
    BY <1>10, AskKeeps, DeviceBounds DEF Devices!PrejoinDeviceChosen
  <2>2. v2' \in Managers /\ v2'.active = 0 /\ v2'.device = d /\ (v2'.ready => v2.ready /\ v2.device = d)
    BY <1>0, <1>10, DeviceBounds DEF Devices!PrejoinDeviceChosen, Devices!Remembered, Managers
  <2> QED  BY <1>0, <1>10, <2>1, <2>2
             DEF Devices!PrejoinDeviceChosen, DevicesInv, DevicesTyped, ActiveIsOn, KnownToWork
<1>11. ASSUME NEW i \in Devices!Acquires, Devices!TestClicked(i) \/ Devices!PrepareClicked(i) PROVE DevicesInv'
  BY <1>2, <1>11 DEF Devices!TestClicked, Devices!PrepareClicked
<1> QED  BY <1>1, <1>3, <1>4, <1>5, <1>6, <1>7, <1>8, <1>9, <1>10, <1>11 DEF Devices!Next

DevicesPart == which = "devices" => DevicesInv

LEMMA DevicesStart == Init => DevicesPart
  BY PagesConstants, DevicesInitEstablishes DEF Init, DevicesPart

LEMMA DevicesStep == DevicesPart /\ [Next]_vars => DevicesPart'
<1> SUFFICES ASSUME DevicesPart, [Next]_vars PROVE DevicesPart'
  OBVIOUS
<1>1. CASE which = "devices"
  <2>1. [Devices!Next]_Devices!vars  BY <1>1 DEF Next, vars, Step, Devices!vars
  <2>2. which' = "devices"  BY <1>1 DEF Next, vars, Step
  <2> QED  BY <1>1, <2>1, <2>2, PagesConstants, DevicesStepKeeps DEF DevicesPart
<1>2. CASE which # "devices"  BY <1>2 DEF Next, vars, Step, DevicesPart
<1> QED  BY <1>1, <1>2

-----------------------------------------------------------------------------
(* The attachments of the message form. *)

NoteStates ==
  [awaits : {"unused", "permission", "late", "context", "close", "nothing"},
   phase : {"none", "permission_request", "recording", "paused", "stopping"},
   mic : BOOLEAN, cancelled : BOOLEAN, timer : BOOLEAN]
AttachmentNumbers == 0 .. Attachments
NoteHolders == Note!Recordings \cup {0}
Forms ==
  [recording : NoteHolders, busy : BOOLEAN, pending : AttachmentNumbers,
   location : BOOLEAN, destroyed : BOOLEAN, picker : BOOLEAN,
   made : AttachmentNumbers, stuck : BOOLEAN]

MicOf(s, f, c) == \A r \in Note!Recordings : s[r].mic => f.recording = r /\ ~f.destroyed /\ ~c
BusyFor(s, f) ==
  f.busy => f.location \/ f.destroyed \/ f.stuck \/ \E r \in Note!Recordings : s[r].awaits \in {"permission", "context"}

\* A recording that records awaits nothing.
Begun(s) == \A r \in Note!Recordings : s[r].phase \in {"recording", "paused"} => s[r].awaits = "nothing"

NoteInv ==
  /\ v1 \in [Note!Recordings -> NoteStates] /\ v2 \in Forms /\ v3 \in BOOLEAN
  /\ MicOf(v1, v2, v3) /\ BusyFor(v1, v2) /\ Begun(v1)

LEMMA NoteBounds ==
  /\ 0 \in AttachmentNumbers /\ 0 \in NoteHolders /\ Note!Recordings \subseteq NoteHolders
  /\ 0 \notin Note!Recordings
  /\ \A n \in AttachmentNumbers : n < Attachments => n + 1 \in AttachmentNumbers
  BY PagesConstants DEF Note!VoiceNoteAssumption, AttachmentNumbers, NoteHolders, Note!Recordings

\* The recorder of a recording is disposed of; its microphone is off at once.
LEMMA DisposedIsOff ==
  ASSUME NEW n \in NoteStates, NEW keep \in BOOLEAN
  PROVE  LET d == Note!Disposed(n, keep) IN
         /\ d \in NoteStates /\ ~d.mic /\ d.phase = "stopping" /\ d.awaits = n.awaits
         /\ \A a \in {"nothing", "late", "close"} :
              LET e == [d EXCEPT !.awaits = a] IN
              e \in NoteStates /\ ~e.mic /\ e.phase = "stopping" /\ e.awaits = a
  BY DEF Note!Disposed, NoteStates

\* One recording moves to a state n, and the form to f.
LEMMA OneNoteMoves ==
  ASSUME NoteInv, NEW r \in Note!Recordings, NEW n \in NoteStates, NEW f \in Forms,
         v1' = [v1 EXCEPT ![r] = n], v2' = f, v3' = v3,
         n.phase \in {"recording", "paused"} => n.awaits = "nothing",
         n.mic => f.recording = r /\ ~v3,
         f.destroyed = v2.destroyed /\ (n.mic => ~f.destroyed),
         f.recording = v2.recording \/ v2.recording \in {0, r},
         f.busy => f.stuck \/ f.location \/ n.awaits \in {"permission", "context"}
                   \/ /\ v2.busy /\ (v2.location => f.location) /\ (v2.stuck => f.stuck)
                      /\ v1[r].awaits \notin {"permission", "context"}
  PROVE  NoteInv'
<1>1. /\ v1 \in [Note!Recordings -> NoteStates] /\ v2 \in Forms /\ v3 \in BOOLEAN
      /\ MicOf(v1, v2, v3) /\ BusyFor(v1, v2) /\ Begun(v1)
  BY DEF NoteInv
<1>2. v1' \in [Note!Recordings -> NoteStates] /\ v1'[r] = n /\ \A q \in Note!Recordings : q # r => v1'[q] = v1[q]
  BY <1>1
<1>3. MicOf(v1', f, v3)
  BY <1>1, <1>2, NoteBounds DEF MicOf
<1>4. BusyFor(v1', f)
  BY <1>1, <1>2 DEF BusyFor
<1>5. Begun(v1')
  BY <1>1, <1>2 DEF Begun
<1> QED  BY <1>1, <1>2, <1>3, <1>4, <1>5 DEF NoteInv

\* Only the form changes, in what does not keep it busy.
LEMMA FormMoves ==
  ASSUME NoteInv, NEW f \in Forms, v1' = v1, v2' = f, v3' = v3,
         f.recording = v2.recording, f.destroyed = v2.destroyed, f.stuck = v2.stuck,
         f.busy => f.location \/ (v2.busy /\ f.location = v2.location)
  PROVE  NoteInv'
<1>1. MicOf(v1, f, v3) /\ BusyFor(v1, f)
  BY DEF NoteInv, MicOf, BusyFor
<1> QED  BY <1>1 DEF NoteInv

\* The attachment there was is dropped, or another is chosen.
LEMMA PendingMoves ==
  ASSUME NEW f \in Forms
  PROVE  /\ Note!ClearPending(f) \in Forms
         /\ f.made < Attachments => Note!SelectPending(f) \in Forms
         /\ \A g \in {Note!ClearPending(f), Note!SelectPending(f)} :
              /\ g.recording = f.recording /\ g.destroyed = f.destroyed /\ g.stuck = f.stuck
              /\ g.busy = f.busy /\ g.location = f.location
<1>1. Note!ClearPending(f) \in Forms
  BY NoteBounds DEF Note!ClearPending, Forms
<1>2. ASSUME f.made < Attachments PROVE Note!SelectPending(f) \in Forms
  <2> DEFINE n == f.made + 1
  <2>1. f.made \in AttachmentNumbers  BY DEF Forms
  <2>2. n \in AttachmentNumbers  BY <1>2, <2>1, NoteBounds
  <2>3. Note!SelectPending(f) = [f EXCEPT !.pending = n, !.made = n]  BY DEF Note!SelectPending
  <2> HIDE DEF n
  <2> QED  BY <2>2, <2>3 DEF Forms
<1>3. \A g \in {Note!ClearPending(f), Note!SelectPending(f)} :
        /\ g.recording = f.recording /\ g.destroyed = f.destroyed /\ g.stuck = f.stuck
        /\ g.busy = f.busy /\ g.location = f.location
  BY DEF Note!ClearPending, Note!SelectPending, Forms
<1> QED  BY <1>1, <1>2, <1>3

\* A recording is dropped from the form.
LEMMA DroppedMoves ==
  ASSUME NEW f \in Forms, NEW r \in Note!Recordings
  PROVE  LET g == Note!Dropped(f, r) IN
         /\ g \in Forms /\ g.recording # r /\ (g.recording = f.recording \/ f.recording = r)
         /\ g.destroyed = f.destroyed /\ g.stuck = f.stuck /\ g.busy = f.busy /\ g.location = f.location
  BY NoteBounds DEF Note!Dropped, Forms

\* What records is cancelled: by the user, a call or the end of the page.
LEMMA CancelKeeps ==
  ASSUME NoteInv, NEW f \in Forms, Note!CancelRecording(f), v3' \in BOOLEAN,
         f.recording = v2.recording, f.busy = v2.busy, f.stuck = v2.stuck,
         f.destroyed \/ (v2.location => f.location), v2.destroyed => f.destroyed
  PROVE  NoteInv'
<1>1. /\ v1 \in [Note!Recordings -> NoteStates] /\ v2 \in Forms
      /\ MicOf(v1, v2, v3) /\ BusyFor(v1, v2) /\ Begun(v1)
  BY DEF NoteInv
<1>2. CASE f.recording = 0
  <2>1. v1' = v1 /\ v2' = f  BY <1>2 DEF Note!CancelRecording
  <2>2. MicOf(v1, f, v3')  BY <1>1, <1>2, NoteBounds DEF MicOf
  <2>3. BusyFor(v1, f)  BY <1>1 DEF BusyFor
  <2> QED  BY <1>1, <2>1, <2>2, <2>3 DEF NoteInv
<1>3. CASE f.recording # 0
  <2> DEFINE r == f.recording
             n == Note!Disposed(v1[r], FALSE)
             g == Note!Dropped(f, r)
  <2>1. r \in Note!Recordings  BY <1>3 DEF Forms, NoteHolders
  <2>2. v1' = [v1 EXCEPT ![r] = n] /\ v2' = g  BY <1>3 DEF Note!CancelRecording
  <2>3. n \in NoteStates /\ ~n.mic /\ n.phase = "stopping" /\ n.awaits = v1[r].awaits
    <3>1. v1[r] \in NoteStates  BY <1>1, <2>1
    <3> QED  BY <3>1, DisposedIsOff
  <2>4. g \in Forms /\ g.destroyed = f.destroyed /\ g.stuck = f.stuck /\ g.busy = f.busy /\ g.location = f.location
    BY <2>1, DroppedMoves
  <2> HIDE DEF n, g
  <2>5. v1' \in [Note!Recordings -> NoteStates] /\ v1'[r] = n /\ \A q \in Note!Recordings : q # r => v1'[q] = v1[q]
    BY <1>1, <2>1, <2>2, <2>3
  <2>6. MicOf(v1', g, v3')  BY <1>1, <2>3, <2>5, <2>1 DEF MicOf
  <2>7. BusyFor(v1', g)  BY <1>1, <2>3, <2>4, <2>5 DEF BusyFor
  <2>8. Begun(v1')  BY <1>1, <2>3, <2>5 DEF Begun
  <2> QED  BY <2>2, <2>4, <2>5, <2>6, <2>7, <2>8 DEF NoteInv
<1> QED  BY <1>2, <1>3

LEMMA NoteInitEstablishes == ASSUME Note!Init PROVE NoteInv
<1>1. Note!Unused \in NoteStates /\ ~Note!Unused.mic /\ Note!Unused.phase = "none"
  BY DEF Note!Unused, NoteStates
<1>2. v2 \in Forms /\ ~v2.busy  BY NoteBounds DEF Note!Init, Forms
<1> QED  BY <1>1, <1>2 DEF Note!Init, NoteInv, MicOf, BusyFor, Begun

\* The steps of one recording.
LEMMA RecordingKeeps ==
  ASSUME NoteInv, NEW r \in Note!Recordings,
         \/ Note!StartRecording(r) \/ Note!PermissionGranted(r) \/ Note!LatePermission(r)
         \/ Note!ContextReady(r) \/ Note!ContextRefuses(r)
         \/ \E b \in BOOLEAN : Note!PermissionRefused(r, b) \/ Note!RecordingClosed(r, b)
  PROVE  NoteInv'
<1>0. v1[r] \in NoteStates /\ v2 \in Forms /\ v3 \in BOOLEAN /\ Begun(v1) /\ MicOf(v1, v2, v3)
  BY DEF NoteInv
<1>1. CASE Note!StartRecording(r)
  <2> DEFINE n == [Note!Unused EXCEPT !.awaits = "permission", !.phase = "permission_request"]
             c == Note!ClearPending(v2)
             f == [c EXCEPT !.recording = r, !.busy = TRUE]
  <2>1. n \in NoteStates /\ n.awaits = "permission" /\ n.phase = "permission_request" /\ ~n.mic
    BY DEF Note!Unused, NoteStates
  <2>2. c \in Forms /\ c.destroyed = v2.destroyed  BY <1>0, PendingMoves
  <2> HIDE DEF c
  <2>3. f \in Forms /\ f.destroyed = v2.destroyed /\ f.recording = r
    BY <2>2, NoteBounds DEF Forms
  <2>4. v1' = [v1 EXCEPT ![r] = n] /\ v2' = f /\ v3' = v3 /\ v2.recording = 0
    BY <1>1 DEF Note!StartRecording, c
  <2> HIDE DEF n, f
  <2> QED  BY <2>1, <2>3, <2>4, OneNoteMoves
<1>2. CASE Note!PermissionGranted(r)
  <2>1. CASE Note!Stale(r)
    <3> DEFINE n == [Note!Disposed(v1[r], FALSE) EXCEPT !.awaits = "nothing"]
               g == Note!Dropped(v2, r)
               f == [g EXCEPT !.stuck = TRUE]
    <3>1. n \in NoteStates /\ ~n.mic /\ n.phase = "stopping" /\ n.awaits = "nothing"
      BY <1>0, DisposedIsOff
    <3>2. g \in Forms /\ g.destroyed = v2.destroyed /\ (g.recording = v2.recording \/ v2.recording = r)
      BY <1>0, DroppedMoves
    <3> HIDE DEF g
    <3>3. f \in Forms /\ f.destroyed = v2.destroyed /\ (f.recording = v2.recording \/ v2.recording = r) /\ f.stuck
      BY <3>2 DEF Forms
    <3>4. v1' = [v1 EXCEPT ![r] = n] /\ v2' = f /\ v3' = v3
      BY <1>2, <2>1 DEF Note!PermissionGranted, g
    <3> HIDE DEF n, f
    <3> QED  BY <3>1, <3>3, <3>4, OneNoteMoves
  <2>2. CASE ~Note!Stale(r)
    <3> DEFINE n == [v1[r] EXCEPT !.mic = TRUE, !.awaits = "context"]
    <3>1. n \in NoteStates /\ n.awaits = "context" /\ n.phase = v1[r].phase
      BY <1>0 DEF NoteStates
    <3>2. v1' = [v1 EXCEPT ![r] = n] /\ v2' = v2 /\ v3' = v3 /\ v1[r].awaits = "permission"
      BY <1>2, <2>2 DEF Note!PermissionGranted
    <3>3. v2.recording = r /\ ~v2.destroyed /\ ~v3
      BY <2>2 DEF Note!Stale
    <3>4. n.phase \notin {"recording", "paused"}
      BY <1>0, <3>1, <3>2 DEF Begun
    <3> HIDE DEF n
    <3> QED  BY <1>0, <3>1, <3>2, <3>3, <3>4, OneNoteMoves
  <2> QED  BY <2>1, <2>2
<1>3. CASE Note!LatePermission(r)
  <2> DEFINE n == [v1[r] EXCEPT !.awaits = "nothing"]
  <2>1. n \in NoteStates /\ n.awaits = "nothing" /\ n.mic = v1[r].mic
    BY <1>0 DEF NoteStates
  <2>2. v1' = [v1 EXCEPT ![r] = n] /\ v2' = v2 /\ v3' = v3 /\ v1[r].awaits = "late"
    BY <1>3 DEF Note!LatePermission
  <2>3. n.mic => v2.recording = r /\ ~v2.destroyed /\ ~v3
    BY <1>0, <2>1 DEF MicOf
  <2> HIDE DEF n
  <2> QED  BY <1>0, <2>1, <2>2, <2>3, OneNoteMoves
<1>4. CASE Note!ContextReady(r)
  <2> DEFINE n == [v1[r] EXCEPT !.awaits = "nothing", !.timer = TRUE, !.phase = "recording"]
             f == [v2 EXCEPT !.busy = FALSE]
  <2>1. n \in NoteStates /\ n.awaits = "nothing" /\ n.mic = v1[r].mic
    BY <1>0 DEF NoteStates
  <2>2. v1' = [v1 EXCEPT ![r] = n] /\ v2' = f /\ v3' = v3
    BY <1>4 DEF Note!ContextReady
  <2>3. n.mic => v2.recording = r /\ ~v2.destroyed /\ ~v3
    BY <1>0, <2>1 DEF MicOf
  <2>4. f \in Forms /\ f.recording = v2.recording /\ f.destroyed = v2.destroyed /\ ~f.busy
    BY <1>0 DEF Forms
  <2> HIDE DEF n, f
  <2> QED  BY <1>0, <2>1, <2>2, <2>3, <2>4, OneNoteMoves
<1>5. ASSUME NEW a \in {"nothing", "late"}, Note!Fails(r, a) PROVE NoteInv'
  <2> DEFINE n == [Note!Disposed(v1[r], FALSE) EXCEPT !.awaits = a]
             g == Note!Dropped(v2, r)
             old == Note!Stale(r)
             f == [g EXCEPT !.busy = @ /\ old, !.stuck = @ \/ old]
  <2>1. n \in NoteStates /\ ~n.mic /\ n.phase = "stopping" /\ n.awaits = a
    <3> DEFINE d == Note!Disposed(v1[r], FALSE)
    <3>1. d \in NoteStates /\ ~d.mic /\ d.phase = "stopping"  BY <1>0, DisposedIsOff
    <3> HIDE DEF d
    <3>2. n = [d EXCEPT !.awaits = a]  BY DEF d
    <3> HIDE DEF n
    <3> QED  BY <3>1, <3>2 DEF NoteStates
  <2>2. g \in Forms /\ g.destroyed = v2.destroyed /\ (g.recording = v2.recording \/ v2.recording = r)
    BY <1>0, DroppedMoves
  <2>3. v1' = [v1 EXCEPT ![r] = n] /\ v2' = f /\ v3' = v3
    BY <1>5 DEF Note!Fails
  <2>4. old \in BOOLEAN
    BY DEF Note!Stale
  <2> HIDE DEF g, old
  <2>5. f \in Forms /\ f.destroyed = v2.destroyed /\ (f.recording = v2.recording \/ v2.recording = r)
        /\ (f.busy => f.stuck)
    <3> DEFINE b == g.busy /\ old
               c == g.stuck \/ old
    <3>1. b \in BOOLEAN /\ c \in BOOLEAN /\ (b => c)
      BY <2>2, <2>4 DEF Forms
    <3>2. f = [g EXCEPT !.busy = b, !.stuck = c]
      OBVIOUS
    <3> HIDE DEF b, c
    <3> QED  BY <2>2, <3>1, <3>2 DEF Forms
  <2> HIDE DEF n, f
  <2> QED  BY <2>1, <2>3, <2>5, OneNoteMoves
<1>6. ASSUME NEW b \in BOOLEAN, Note!RecordingClosed(r, b) PROVE NoteInv'
  <2> DEFINE n == [v1[r] EXCEPT !.awaits = "nothing"]
             f == v2'
  <2>1. n \in NoteStates /\ n.awaits = "nothing" /\ n.mic = v1[r].mic
    BY <1>0 DEF NoteStates
  <2>2. v1' = [v1 EXCEPT ![r] = n] /\ v3' = v3 /\ v1[r].awaits = "close"
    BY <1>6 DEF Note!RecordingClosed
  <2>3. n.mic => v2.recording = r /\ ~v2.destroyed /\ ~v3
    BY <1>0, <2>1 DEF MicOf
  <2>4. f \in Forms /\ f.recording = v2.recording /\ f.destroyed = v2.destroyed /\ f.stuck = v2.stuck
        /\ f.busy = v2.busy /\ f.location = v2.location
    BY <1>0, <1>6, PendingMoves DEF Note!RecordingClosed, Note!RoomForOne
  <2> HIDE DEF n, f
  <2>5. v2' = f  BY DEF f
  <2> QED  BY <1>0, <2>1, <2>2, <2>3, <2>4, <2>5, OneNoteMoves
<1>7. CASE Note!ContextRefuses(r)
  BY <1>5, <1>7 DEF Note!ContextRefuses
<1>8. ASSUME NEW b \in BOOLEAN, Note!PermissionRefused(r, b) PROVE NoteInv'
  <2>1. Note!Fails(r, "late") \/ Note!Fails(r, "nothing")  BY <1>8 DEF Note!PermissionRefused
  <2> QED  BY <1>5, <2>1
<1> QED  BY <1>1, <1>2, <1>3, <1>4, <1>6, <1>7, <1>8

LEMMA NoteStepKeeps == ASSUME NoteInv, [Note!Next]_Note!vars PROVE NoteInv'
<1>0. v1 \in [Note!Recordings -> NoteStates] /\ v2 \in Forms /\ v3 \in BOOLEAN /\ Begun(v1) /\ MicOf(v1, v2, v3)
  BY DEF NoteInv
<1>1. CASE UNCHANGED Note!vars
  BY <1>1 DEF Note!vars, NoteInv
<1>2. CASE Note!PauseRecording \/ Note!ResumeRecording
  <2> DEFINE r == v2.recording
  <2>1. r \in Note!Recordings /\ v1[r].phase \in {"recording", "paused"}
    BY <1>0, <1>2 DEF Note!PauseRecording, Note!ResumeRecording, Forms, NoteHolders
  <2>2. PICK p \in {"recording", "paused"} : v1' = [v1 EXCEPT ![r].phase = p]
    BY <1>2 DEF Note!PauseRecording, Note!ResumeRecording
  <2>3. v2' = v2 /\ v3' = v3  BY <1>2 DEF Note!PauseRecording, Note!ResumeRecording
  <2> DEFINE n == [v1[r] EXCEPT !.phase = p]
  <2>4. n \in NoteStates /\ n.mic = v1[r].mic /\ n.awaits = v1[r].awaits
    BY <1>0, <2>1 DEF NoteStates
  <2>5. n.awaits = "nothing" /\ (n.mic => ~v2.destroyed /\ ~v3)
    BY <1>0, <2>1, <2>4 DEF Begun, MicOf
  <2>6. v1' = [v1 EXCEPT ![r] = n]  BY <2>2
  <2> HIDE DEF n
  <2> QED  BY <1>0, <2>1, <2>3, <2>4, <2>5, <2>6, OneNoteMoves
<1>3. CASE Note!StopRecording
  <2> DEFINE r == v2.recording
             n == [Note!Disposed(v1[r], TRUE) EXCEPT !.awaits = "close"]
             f == Note!Dropped(v2, r)
  <2>1. r \in Note!Recordings /\ v1[r].phase \in {"recording", "paused"}
    BY <1>0, <1>3 DEF Note!StopRecording, Forms, NoteHolders
  <2>2. v1' = [v1 EXCEPT ![r] = n] /\ v2' = f /\ v3' = v3
    BY <1>3 DEF Note!StopRecording
  <2>3. n \in NoteStates /\ ~n.mic /\ n.phase = "stopping" /\ n.awaits = "close"
    <3>1. v1[r] \in NoteStates  BY <1>0, <2>1
    <3> QED  BY <3>1, DisposedIsOff
  <2>4. f \in Forms /\ f.destroyed = v2.destroyed /\ f.stuck = v2.stuck /\ f.busy = v2.busy /\ f.location = v2.location
    BY <1>0, <2>1, DroppedMoves
  <2>5. v1[r].awaits = "nothing"  BY <1>0, <2>1 DEF Begun
  <2> HIDE DEF n, f
  <2> QED  BY <1>0, <2>1, <2>2, <2>3, <2>4, <2>5, OneNoteMoves
<1>4. CASE Note!CancelClicked \/ Note!CallStarts
  <2>1. Note!CancelRecording(v2) /\ v3' \in BOOLEAN  BY <1>0, <1>4 DEF Note!CancelClicked, Note!CallStarts
  <2> QED  BY <1>0, <2>1, CancelKeeps
<1>5. CASE Note!CallEnds
  BY <1>5 DEF Note!CallEnds, NoteInv, MicOf
<1>6. CASE Note!PageGone
  <2> DEFINE f == [v2 EXCEPT !.destroyed = TRUE, !.location = FALSE]
  <2>1. f \in Forms /\ f.recording = v2.recording /\ f.busy = v2.busy /\ f.stuck = v2.stuck /\ f.destroyed
    BY <1>0 DEF Forms
  <2>2. Note!CancelRecording(f) /\ v3' = v3  BY <1>6 DEF Note!PageGone
  <2> HIDE DEF f
  <2> QED  BY <1>0, <2>1, <2>2, CancelKeeps
<1>7. CASE Note!RecordingUnsupported \/ Note!RemoveClicked \/ Note!MessageSent
  <2>1. v1' = v1 /\ v3' = v3 /\ v2' = Note!ClearPending(v2)
    BY <1>7 DEF Note!RecordingUnsupported, Note!RemoveClicked, Note!MessageSent
  <2> QED  BY <1>0, <2>1, PendingMoves, FormMoves
<1>8. CASE Note!PickerOpened \/ Note!FileRefused
  <2>1. PICK b \in BOOLEAN : v2' = [v2 EXCEPT !.picker = b]
    BY <1>8 DEF Note!PickerOpened, Note!FileRefused
  <2>2. v1' = v1 /\ v3' = v3  BY <1>8 DEF Note!PickerOpened, Note!FileRefused
  <2>3. /\ v2' \in Forms /\ v2'.recording = v2.recording /\ v2'.destroyed = v2.destroyed /\ v2'.stuck = v2.stuck
        /\ v2'.busy = v2.busy /\ v2'.location = v2.location
    BY <1>0, <2>1 DEF Forms
  <2> QED  BY <2>2, <2>3, FormMoves
<1>9. CASE Note!FileChosen
  <2> DEFINE s == Note!SelectPending(v2)
  <2>1. /\ s \in Forms /\ s.recording = v2.recording /\ s.destroyed = v2.destroyed /\ s.stuck = v2.stuck
        /\ s.busy = v2.busy /\ s.location = v2.location
    BY <1>0, <1>9, PendingMoves DEF Note!FileChosen, Note!RoomForOne
  <2>2. v1' = v1 /\ v3' = v3 /\ v2' = [s EXCEPT !.picker = FALSE]
    BY <1>9 DEF Note!FileChosen
  <2> HIDE DEF s
  <2>3. /\ v2' \in Forms /\ v2'.recording = v2.recording /\ v2'.destroyed = v2.destroyed /\ v2'.stuck = v2.stuck
        /\ v2'.busy = v2.busy /\ v2'.location = v2.location
    BY <2>1, <2>2 DEF Forms
  <2> QED  BY <2>2, <2>3, FormMoves
<1>10. CASE Note!RequestLocation
  <2>1. v1' = v1 /\ v3' = v3 /\ v2' = [v2 EXCEPT !.location = TRUE, !.busy = TRUE]
    BY <1>10 DEF Note!RequestLocation
  <2>2. /\ v2' \in Forms /\ v2'.recording = v2.recording /\ v2'.destroyed = v2.destroyed /\ v2'.stuck = v2.stuck
        /\ v2'.location
    BY <1>0, <2>1 DEF Forms
  <2> QED  BY <2>1, <2>2, FormMoves
<1>11. ASSUME NEW known \in BOOLEAN, Note!LocationAnswered(known) PROVE NoteInv'
  <2> DEFINE s == [v2 EXCEPT !.location = FALSE, !.busy = FALSE]
  <2>1. /\ s \in Forms /\ s.recording = v2.recording /\ s.destroyed = v2.destroyed /\ s.stuck = v2.stuck
        /\ ~s.busy /\ s.made = v2.made
    BY <1>0 DEF Forms
  <2>2. v1' = v1 /\ v3' = v3 /\ v2' = (IF known THEN Note!SelectPending(s) ELSE s) /\ (known => v2.made < Attachments)
    BY <1>11 DEF Note!LocationAnswered, Note!RoomForOne
  <2> HIDE DEF s
  <2>3. /\ v2' \in Forms /\ v2'.recording = v2.recording /\ v2'.destroyed = v2.destroyed /\ v2'.stuck = v2.stuck
        /\ ~v2'.busy
    BY <2>1, <2>2, PendingMoves
  <2> QED  BY <2>2, <2>3, FormMoves
<1> QED  BY <1>1, <1>2, <1>3, <1>4, <1>5, <1>6, <1>7, <1>8, <1>9, <1>10, <1>11, RecordingKeeps DEF Note!Next

NotePart == which = "note" => NoteInv

LEMMA NoteStart == Init => NotePart
  BY PagesConstants, NoteInitEstablishes DEF Init, NotePart

LEMMA NoteStep == NotePart /\ [Next]_vars => NotePart'
<1> SUFFICES ASSUME NotePart, [Next]_vars PROVE NotePart'
  OBVIOUS
<1>1. CASE which = "note"
  <2>1. [Note!Next]_Note!vars  BY <1>1 DEF Next, vars, Step, Note!vars
  <2>2. which' = "note"  BY <1>1 DEF Next, vars, Step
  <2> QED  BY <1>1, <2>1, <2>2, PagesConstants, NoteStepKeeps DEF NotePart
<1>2. CASE which # "note"  BY <1>2 DEF Next, vars, Step, NotePart
<1> QED  BY <1>1, <1>2

-----------------------------------------------------------------------------
(* The assistant's conversation. *)

ChatNumbers == 0 .. ChatMessages
Recorders == 0 .. Records
ChatPages == [msgs : SUBSET Chat!Messages, cursor : ChatNumbers, more : BOOLEAN, loaded : BOOLEAN, echo : 0 .. ChatAsks]
ChatOps == [kind : {"none", "last", "earlier"}, cursor : ChatNumbers, msgs : SUBSET Chat!Messages, served : BOOLEAN]
AskStates == [at : {"none", "asked", "served", "reload"}, audio : Recorders]
RecStates ==
  [at : {"none", "asked", "recording", "stopping", "closing", "over"}, cancelled : BOOLEAN, alone : BOOLEAN]

\* The messages are in a row, and c, if any, is the first of them.
InARow(msgs) == \A m, n \in msgs : \A k \in Chat!Messages : m <= k /\ k <= n => k \in msgs
FirstOf(c, msgs) == c \in msgs /\ \A m \in msgs : c <= m

\* What an operation has read is the last messages before some number, that of the
\* page's first one when the earlier ones were asked.
Read(o, p) ==
  /\ o.kind = "none" => ~o.served
  /\ o.kind = "earlier" => p.more /\ p.cursor = o.cursor
  /\ o.served => \E b \in Chat!Messages \cup {ChatMessages + 1} : o.msgs = Chat!Window(b) /\ (o.kind = "earlier" => b = o.cursor)
  /\ o.kind = "none" => o = Chat!NoOp

HistoryInv ==
  /\ v1 \in ChatNumbers /\ v2 \in ChatPages /\ v3 \in ChatOps
  /\ InARow(v2.msgs) /\ (v2.more => FirstOf(v2.cursor, v2.msgs))
  /\ Read(v3, v2)

\* A recorder that records or stops is the page's, whose audio is over; no other
\* permission is awaited beside one that is alone.
Recording(recorder, recs) ==
  /\ recorder # 0 => recs[recorder].at \in {"recording", "stopping"}
  /\ \A r \in Chat!Recs : recs[r].at = "recording" /\ recs[r].alone => recorder = r
  /\ \A r, q \in Chat!Recs :
       r # q /\ recs[r].alone /\ recs[r].at \in {"asked", "recording"} => recs[q].at # "asked"
AudioIsOver(audio, recs) == audio # 0 => recs[audio].at = "over" /\ ~recs[audio].cancelled

RecorderInv ==
  /\ v5 \in Recorders /\ v6 \in Recorders /\ v7 \in [Chat!Recs -> RecStates]
  /\ Recording(v6, v7) /\ AudioIsOver(v5, v7)

AsksTyped == v4 \in [Chat!Asks -> AskStates]

ChatInv == HistoryInv /\ RecorderInv /\ AsksTyped

LEMMA ChatBounds ==
  /\ AI_HISTORY_LIMIT \in Nat \ {0} /\ ChatMessages \in Nat /\ ChatAsks \in Nat /\ Records \in Nat
  /\ 0 \in ChatNumbers /\ 0 \in Recorders /\ 0 \notin Chat!Recs
  /\ Chat!Recs \subseteq Recorders /\ \A n \in Recorders : n # 0 => n \in Chat!Recs
  BY PagesConstants DEF Chat!ChatAssumption, ChatNumbers, Recorders, Chat!Recs

\* The cursor of a page of messages is the first of them, when there are earlier ones.
LEMMA WindowCursor ==
  ASSUME NEW b \in Chat!Messages \cup {ChatMessages + 1}
  PROVE  LET w == Chat!Window(b)
             c == Chat!CursorOf(w) IN
         w \in SUBSET Chat!Messages /\ InARow(w) /\ c \in ChatNumbers /\ (c # 0 => FirstOf(c, w))
<1> DEFINE w == Chat!Window(b)
           c == Chat!CursorOf(w)
<1>0. b \in Nat /\ b >= 1 /\ b <= ChatMessages + 1
  BY ChatBounds DEF Chat!Messages
<1>1. ASSUME NEW m PROVE m \in w <=> m \in Nat /\ m >= 1 /\ m <= b - 1 /\ m + AI_HISTORY_LIMIT >= b
  BY <1>0, ChatBounds DEF Chat!Window
<1>2. w \in SUBSET Chat!Messages /\ InARow(w)
  BY <1>0, <1>1, ChatBounds DEF Chat!Messages, InARow
<1>3. CASE w = {} \/ 1 \in w
  BY <1>2, <1>3, ChatBounds DEF Chat!CursorOf
<1>4. CASE w # {} /\ 1 \notin w
  <2>1. \E m \in w : \A n \in w : m <= n
    <3>1. b - AI_HISTORY_LIMIT \in w
      BY <1>0, <1>1, <1>4, ChatBounds
    <3> QED  BY <1>0, <1>1, <3>1, ChatBounds
  <2>2. c = CHOOSE m \in w : \A n \in w : m <= n
    BY <1>4 DEF Chat!CursorOf
  <2> HIDE DEF w, c
  <2>3. FirstOf(c, w)
    BY <2>1, <2>2 DEF FirstOf
  <2>4. c \in ChatNumbers
    BY <1>2, <2>3, ChatBounds DEF FirstOf, Chat!Messages, ChatNumbers
  <2> QED  BY <1>2, <2>3, <2>4 DEF w, c
<1> QED  BY <1>3, <1>4

\* A load begins, unless one is under way.
LEMMA LoadBegins ==
  ASSUME HistoryInv, v1' = v1, v2' = v2, v3' = Chat!LoadOp
  PROVE  HistoryInv'
<1>1. CASE v3 = Chat!NoOp
  <2>1. v3' = [Chat!NoOp EXCEPT !.kind = "last"]  BY <1>1 DEF Chat!LoadOp
  <2>2. v3' \in ChatOps /\ v3'.kind = "last" /\ ~v3'.served  BY <2>1, ChatBounds DEF ChatOps, Chat!NoOp
  <2> QED  BY <2>2 DEF HistoryInv, Read
<1>2. CASE v3 # Chat!NoOp
  BY <1>2 DEF Chat!LoadOp, HistoryInv
<1> QED  BY <1>1, <1>2

\* The page shows the messages of an operation.
LEMMA ReplyKeepsRow ==
  ASSUME HistoryInv, Chat!OpReplied PROVE HistoryInv'
<1>0. /\ v2 \in ChatPages /\ v3 \in ChatOps /\ InARow(v2.msgs) /\ (v2.more => FirstOf(v2.cursor, v2.msgs)) /\ Read(v3, v2)
  BY DEF HistoryInv
<1>1. v3' = Chat!NoOp /\ v1' = v1 /\ v3.served  BY DEF Chat!OpReplied
<1>2. Chat!NoOp \in ChatOps /\ Chat!NoOp.kind = "none" /\ ~Chat!NoOp.served
  BY ChatBounds DEF Chat!NoOp, ChatOps
<1>3. PICK b \in Chat!Messages \cup {ChatMessages + 1} : v3.msgs = Chat!Window(b) /\ (v3.kind = "earlier" => b = v3.cursor)
  BY <1>0, <1>1 DEF Read
<1> DEFINE w == v3.msgs
           c == Chat!CursorOf(w)
           more == c # 0
<1>4. w \in SUBSET Chat!Messages /\ InARow(w) /\ c \in ChatNumbers /\ (c # 0 => FirstOf(c, w))
  BY <1>3, WindowCursor
<1>5. more \in BOOLEAN  OBVIOUS
<1>6. CASE v3.kind = "last"
  <2> DEFINE p == [v2 EXCEPT !.msgs = w, !.echo = 0, !.loaded = TRUE]
  <2>0. 0 \in 0 .. ChatAsks  BY ChatBounds
  <2>1. p \in ChatPages /\ p.msgs = w
    <3> HIDE DEF w
    <3> QED  BY <1>0, <1>4, <2>0 DEF ChatPages
  <2>2. v2' = [p EXCEPT !.cursor = c, !.more = more]
    BY <1>6 DEF Chat!OpReplied, Chat!LastShown, Chat!Paged
  <2> HIDE DEF p, more, c, w
  <2>3. v2' \in ChatPages /\ v2'.msgs = w /\ v2'.cursor = c /\ v2'.more = more
    BY <1>4, <1>5, <2>1, <2>2 DEF ChatPages
  <2> QED  BY <1>0, <1>1, <1>2, <1>4, <2>3 DEF HistoryInv, Read, more
<1>7. CASE v3.kind = "earlier"
  <2>0. v2.more /\ v2.cursor = v3.cursor /\ b = v3.cursor  BY <1>0, <1>3, <1>7 DEF Read
  <2> DEFINE u == v2.msgs \cup w
             p == [v2 EXCEPT !.msgs = u]
  <2>1. u \in SUBSET Chat!Messages  BY <1>0, <1>4 DEF ChatPages
  <2>2. v2' = [p EXCEPT !.cursor = c, !.more = more]
    BY <1>7, <2>0 DEF Chat!OpReplied, Chat!Paged
  <2>3. FirstOf(v2.cursor, v2.msgs)  BY <1>0, <2>0
  <2>4. /\ \A m \in v2.msgs : m \in Nat /\ b <= m
        /\ \A m \in w : m \in Nat /\ m < b
        /\ b \in v2.msgs /\ b \in Nat
        /\ \A k \in Chat!Messages : k < b => (k \in w <=> k + AI_HISTORY_LIMIT >= b)
    <3>1. b \in v2.msgs /\ \A m \in v2.msgs : b <= m  BY <2>0, <2>3 DEF FirstOf
    <3>2. v2.msgs \in SUBSET Chat!Messages /\ b \in Nat  BY <1>0, <3>1 DEF ChatPages, Chat!Messages
    <3>3. w = Chat!Window(b)  BY <1>3
    <3>4. \A m \in v2.msgs : m \in Nat  BY <3>2 DEF Chat!Messages
    <3>5. \A m \in w : m \in Nat /\ m < b  BY <3>2, <3>3 DEF Chat!Window
    <3>6. \A k \in Chat!Messages : k < b => (k \in w <=> k + AI_HISTORY_LIMIT >= b)
      BY <3>2, <3>3, ChatBounds DEF Chat!Window, Chat!Messages
    <3> QED  BY <3>1, <3>2, <3>4, <3>5, <3>6
  <2>5. InARow(u)
    <3> SUFFICES ASSUME NEW m \in u, NEW n \in u, NEW k \in Chat!Messages, m <= k, k <= n PROVE k \in u
      BY DEF InARow
    <3>0. k \in Nat /\ m \in Nat /\ n \in Nat  BY <2>4, ChatBounds DEF Chat!Messages
    <3>1. CASE k >= b
      <4>1. n \in v2.msgs  BY <2>4, <3>0, <3>1
      <4> QED  BY <1>0, <2>4, <3>0, <3>1, <4>1 DEF InARow
    <3>2. CASE k < b
      <4>1. m \in w  BY <2>4, <3>0, <3>2
      <4>2. m + AI_HISTORY_LIMIT >= b  BY <1>4, <2>4, <4>1
      <4>3. k + AI_HISTORY_LIMIT >= b  BY <2>4, <3>0, <4>2, ChatBounds
      <4> QED  BY <2>4, <3>2, <4>3
    <3> QED  BY <2>4, <3>0, <3>1, <3>2
  <2>6. c # 0 => FirstOf(c, u)
    <3> SUFFICES ASSUME c # 0 PROVE FirstOf(c, u)
      OBVIOUS
    <3>1. c \in w /\ \A m \in w : c <= m  BY <1>4 DEF FirstOf
    <3>2. c \in Nat /\ c < b  BY <2>4, <3>1
    <3> HIDE DEF c
    <3>3. \A m \in v2.msgs : c <= m  BY <2>4, <3>2
    <3> QED  BY <3>1, <3>3 DEF FirstOf
  <2> HIDE DEF u, more, c, w
  <2>7. p \in ChatPages /\ p.msgs = u  BY <1>0, <2>1 DEF ChatPages
  <2> HIDE DEF p
  <2>8. v2' \in ChatPages /\ v2'.msgs = u /\ v2'.cursor = c /\ v2'.more = more
    BY <1>4, <1>5, <2>2, <2>7 DEF ChatPages
  <2> QED  BY <1>0, <1>1, <1>2, <2>5, <2>6, <2>8 DEF HistoryInv, Read, more
<1> QED  BY <1>0, <1>1, <1>6, <1>7 DEF Read, ChatOps

\* The steps of the history.
LEMMA HistoryKeeps == ASSUME ChatInv, Chat!Next PROVE HistoryInv'
<1>0. /\ v1 \in ChatNumbers /\ v2 \in ChatPages /\ v3 \in ChatOps
      /\ InARow(v2.msgs) /\ (v2.more => FirstOf(v2.cursor, v2.msgs)) /\ Read(v3, v2) /\ HistoryInv
  BY DEF ChatInv, HistoryInv
<1>1. ASSUME v1' = v1, v3' = v3, NEW n \in 0 .. ChatAsks, v2' = [v2 EXCEPT !.echo = n] PROVE HistoryInv'
  <2>1. v2' \in ChatPages /\ v2'.msgs = v2.msgs /\ v2'.cursor = v2.cursor /\ v2'.more = v2.more
    BY <1>0, <1>1 DEF ChatPages
  <2> QED  BY <1>0, <1>1, <2>1 DEF HistoryInv, Read
<1>2. ASSUME v1' = v1, v2' = v2, v3' = v3 PROVE HistoryInv'
  BY <1>0, <1>2 DEF HistoryInv
<1>3. CASE Chat!Shown
  BY <1>0, <1>3, LoadBegins DEF Chat!Shown
<1>4. CASE Chat!EarlierClicked
  <2>1. v3' = [Chat!NoOp EXCEPT !.kind = "earlier", !.cursor = v2.cursor] /\ v2' = v2 /\ v1' = v1 /\ v2.more
    BY <1>4 DEF Chat!EarlierClicked
  <2>2. v2.cursor \in ChatNumbers  BY <1>0 DEF ChatPages
  <2>3. v3' \in ChatOps /\ v3'.kind = "earlier" /\ ~v3'.served /\ v3'.cursor = v2.cursor
    BY <2>1, <2>2 DEF ChatOps, Chat!NoOp
  <2> QED  BY <1>0, <2>1, <2>3 DEF HistoryInv, Read
<1>5. CASE Chat!OpServed
  <2> DEFINE b == IF v3.kind = "last" THEN v1 + 1 ELSE v3.cursor
             w == Chat!Window(b)
  <2>1. b \in Chat!Messages \cup {ChatMessages + 1} /\ (v3.kind = "earlier" => b = v3.cursor) /\ v3.kind # "none"
    <3>1. v3.kind \in {"last", "earlier"}  BY <1>0, <1>5 DEF Chat!OpServed, ChatOps, Read
    <3>2. v3.kind = "earlier" => v3.cursor \in v2.msgs /\ v2.msgs \in SUBSET Chat!Messages
      BY <1>0 DEF Read, FirstOf, ChatPages
    <3>3. v1 + 1 \in Chat!Messages \cup {ChatMessages + 1}
      BY <1>0, ChatBounds DEF Chat!Messages, ChatNumbers
    <3> QED  BY <3>1, <3>2, <3>3
  <2>2. v3' = [v3 EXCEPT !.served = TRUE, !.msgs = w] /\ v1' = v1 /\ v2' = v2
    BY <1>5 DEF Chat!OpServed
  <2>3. w \in SUBSET Chat!Messages  BY <2>1, WindowCursor
  <2>4. \E a \in Chat!Messages \cup {ChatMessages + 1} : w = Chat!Window(a) /\ (v3.kind = "earlier" => a = v3.cursor)
    BY <2>1
  <2> HIDE DEF w
  <2>5. v3' \in ChatOps /\ v3'.kind = v3.kind /\ v3'.cursor = v3.cursor /\ v3'.msgs = w
    BY <1>0, <2>2, <2>3 DEF ChatOps
  <2> QED  BY <1>0, <2>1, <2>2, <2>4, <2>5 DEF HistoryInv, Read
<1>6. CASE Chat!OpReplied
  BY <1>0, <1>6, ReplyKeepsRow
<1>7. CASE Chat!OpFailed
  <2>1. v3' = Chat!NoOp /\ v1' = v1 /\ (v2' = v2 \/ v2' = [v2 EXCEPT !.loaded = FALSE])
    BY <1>7 DEF Chat!OpFailed
  <2>2. v2' \in ChatPages /\ v2'.msgs = v2.msgs /\ v2'.cursor = v2.cursor /\ v2'.more = v2.more
    BY <1>0, <2>1 DEF ChatPages
  <2>3. v3' \in ChatOps /\ v3'.kind = "none" /\ ~v3'.served
    BY <2>1, ChatBounds DEF Chat!NoOp, ChatOps
  <2> QED  BY <1>0, <2>1, <2>2, <2>3 DEF HistoryInv, Read
<1>8. ASSUME NEW a \in Chat!Asks, Chat!Submit(a) \/ Chat!AnswerAppended(a) PROVE HistoryInv'
  <2> DEFINE n == IF v2.echo < ChatAsks THEN v2.echo + 1 ELSE v2.echo
  <2>1. n \in 0 .. ChatAsks  BY <1>0, ChatBounds DEF ChatPages
  <2>2. v1' = v1 /\ v3' = v3 /\ v2' = [v2 EXCEPT !.echo = n]  BY <1>8 DEF Chat!Submit, Chat!AnswerAppended
  <2> QED  BY <1>1, <2>1, <2>2
<1>9. ASSUME NEW a \in Chat!Asks, Chat!Answered(a) PROVE HistoryInv'
  <2>1. v1' \in ChatNumbers /\ v2' = v2 /\ v3' = v3
    BY <1>0, <1>9, ChatBounds DEF Chat!Answered, ChatNumbers
  <2> QED  BY <1>0, <2>1 DEF HistoryInv
<1>10. ASSUME NEW a \in Chat!Asks, Chat!AskReplied(a) \/ Chat!AskFailed(a) PROVE HistoryInv'
  BY <1>0, <1>10, LoadBegins DEF Chat!AskReplied, Chat!AskFailed
<1>11. CASE Chat!RecordClicked \/ Chat!FileChosen \/ Chat!PageHide
             \/ \E r \in Chat!Recs : Chat!Permitted(r) \/ Chat!Denied(r) \/ Chat!Stopped(r) \/ Chat!RecorderError(r)
  BY <1>2, <1>11 DEF Chat!RecordClicked, Chat!FileChosen, Chat!PageHide, Chat!Permitted, Chat!Denied, Chat!Stopped,
                     Chat!RecorderError
<1> QED  BY <1>3, <1>4, <1>5, <1>6, <1>7, <1>8, <1>9, <1>10, <1>11 DEF Chat!Next

\* The questions.
LEMMA AsksKeep == ASSUME ChatInv, Chat!Next PROVE AsksTyped'
<1>0. v4 \in [Chat!Asks -> AskStates] /\ v5 \in Recorders
  BY DEF ChatInv, RecorderInv, AsksTyped
<1>n. Chat!NoAsk \in AskStates  BY ChatBounds DEF Chat!NoAsk, AskStates
<1>1. ASSUME NEW a \in Chat!Asks, NEW at \in {"none", "asked", "served", "reload"}
      PROVE  [v4[a] EXCEPT !.at = at] \in AskStates /\ [at |-> "asked", audio |-> v5] \in AskStates
  BY <1>0 DEF AskStates
<1>2. CASE Chat!OpReplied \/ Chat!OpFailed
  BY <1>0, <1>n, <1>2 DEF Chat!OpReplied, Chat!OpFailed, Chat!Joined, AsksTyped
<1>3. ASSUME NEW a \in Chat!Asks, Chat!Submit(a) \/ Chat!Answered(a) \/ Chat!AskReplied(a) \/ Chat!AnswerAppended(a) \/ Chat!AskFailed(a)
      PROVE  AsksTyped'
  <2>1. \E s \in AskStates : v4' = [v4 EXCEPT ![a] = s]
    BY <1>1, <1>n, <1>3 DEF Chat!Submit, Chat!Answered, Chat!AskReplied, Chat!AnswerAppended, Chat!AskFailed
  <2> QED  BY <1>0, <2>1 DEF AsksTyped
<1>4. CASE Chat!Shown \/ Chat!EarlierClicked \/ Chat!OpServed \/ Chat!RecordClicked \/ Chat!FileChosen \/ Chat!PageHide
             \/ \E r \in Chat!Recs : Chat!Permitted(r) \/ Chat!Denied(r) \/ Chat!Stopped(r) \/ Chat!RecorderError(r)
  <2>1. v4' = v4
    BY <1>4 DEF Chat!Shown, Chat!EarlierClicked, Chat!OpServed, Chat!RecordClicked, Chat!FileChosen, Chat!PageHide,
                Chat!Permitted, Chat!Denied, Chat!Stopped, Chat!RecorderError
  <2> QED  BY <1>0, <2>1 DEF AsksTyped
<1> QED  BY <1>2, <1>3, <1>4 DEF Chat!Next

\* One recording, r, moves to s.
LEMMA OneRecMoves ==
  ASSUME RecorderInv, NEW r \in Chat!Recs, NEW s \in RecStates, v7' = [v7 EXCEPT ![r] = s],
         v7[r].at \notin {"none", "over"}, s.at \in {"recording", "stopping", "closing", "over"}, s.alone = v7[r].alone,
         \/ s.at = "recording" /\ v7[r].at = "asked" /\ v6' = r
         \/ s.at \in {"stopping", "closing", "over"} /\ v6' = (IF v6 = r THEN 0 ELSE v6)
         \/ s.at = "stopping" /\ v6' = v6 /\ v6 = r,
         v5' \in {v5, 0} \/ (v5' = r /\ s.at = "over" /\ ~s.cancelled)
  PROVE  RecorderInv'
<1>0. /\ v5 \in Recorders /\ v6 \in Recorders /\ v7 \in [Chat!Recs -> RecStates]
      /\ Recording(v6, v7) /\ AudioIsOver(v5, v7)
  BY DEF RecorderInv
<1>1. v7' \in [Chat!Recs -> RecStates] /\ v7'[r] = s /\ \A q \in Chat!Recs : q # r => v7'[q] = v7[q]
  BY <1>0
<1>2. v5' \in Recorders /\ v6' \in Recorders  BY <1>0, ChatBounds
<1>3. AudioIsOver(v5', v7')  BY <1>0, <1>1, ChatBounds DEF AudioIsOver
<1>4. Recording(v6', v7')
  <2>1. v6' # 0 => v7'[v6'].at \in {"recording", "stopping"}
    BY <1>0, <1>1, ChatBounds DEF Recording
  <2>2. ASSUME NEW q \in Chat!Recs, v7'[q].at = "recording", v7'[q].alone PROVE v6' = q
    BY <1>0, <1>1, <2>2 DEF Recording
  <2>3. ASSUME NEW q \in Chat!Recs, NEW p \in Chat!Recs, q # p, v7'[q].alone, v7'[q].at \in {"asked", "recording"}
        PROVE  v7'[p].at # "asked"
    BY <1>0, <1>1, <2>3 DEF Recording
  <2> QED  BY <2>1, <2>2, <2>3 DEF Recording
<1> QED  BY <1>1, <1>2, <1>3, <1>4 DEF RecorderInv

\* The steps of the recorder.
LEMMA RecorderKeeps == ASSUME ChatInv, Chat!Next PROVE RecorderInv'
<1>0. /\ v5 \in Recorders /\ v6 \in Recorders /\ v7 \in [Chat!Recs -> RecStates]
      /\ Recording(v6, v7) /\ AudioIsOver(v5, v7) /\ RecorderInv
  BY DEF ChatInv, RecorderInv
<1>1. ASSUME v7' = v7, v6' = v6, v5' \in {v5, 0} PROVE RecorderInv'
  BY <1>0, <1>1, ChatBounds DEF RecorderInv, AudioIsOver
<1>2. CASE \/ Chat!Shown \/ Chat!EarlierClicked \/ Chat!OpServed \/ Chat!OpReplied \/ Chat!OpFailed \/ Chat!FileChosen
           \/ \E a \in Chat!Asks : Chat!Submit(a) \/ Chat!Answered(a) \/ Chat!AskReplied(a) \/ Chat!AnswerAppended(a)
                                     \/ Chat!AskFailed(a)
  BY <1>1, <1>2 DEF Chat!Shown, Chat!EarlierClicked, Chat!OpServed, Chat!OpReplied, Chat!OpFailed, Chat!ReloadsOver,
                    Chat!FileChosen, Chat!Submit, Chat!Answered, Chat!AskReplied, Chat!AnswerAppended, Chat!AskFailed
<1>3. ASSUME NEW r \in Chat!Recs, NEW at \in {"recording", "stopping", "over"}, NEW b \in BOOLEAN
      PROVE  LET s == [v7[r] EXCEPT !.at = at]
                 c == [v7[r] EXCEPT !.cancelled = TRUE, !.at = at] IN
             /\ s \in RecStates /\ s.at = at /\ s.alone = v7[r].alone /\ s.cancelled = v7[r].cancelled
             /\ c \in RecStates /\ c.at = at /\ c.alone = v7[r].alone
  BY <1>0 DEF RecStates
<1>4. ASSUME NEW r \in Chat!Recs, Chat!Permitted(r) PROVE RecorderInv'
  <2> DEFINE s == [v7[r] EXCEPT !.at = "recording"]
  <2>1. s \in RecStates /\ s.at = "recording" /\ s.alone = v7[r].alone  BY <1>3
  <2>2. v7' = [v7 EXCEPT ![r] = s] /\ v6' = r /\ v5' = v5 /\ v7[r].at = "asked"  BY <1>4 DEF Chat!Permitted
  <2> HIDE DEF s
  <2> QED  BY <1>0, <2>1, <2>2, OneRecMoves
<1>5. ASSUME NEW r \in Chat!Recs, Chat!Denied(r) \/ Chat!Stopped(r) PROVE RecorderInv'
  <2> DEFINE s == [v7[r] EXCEPT !.at = "over"]
  <2>1. s \in RecStates /\ s.at = "over" /\ s.alone = v7[r].alone /\ s.cancelled = v7[r].cancelled  BY <1>3
  <2>2. v7' = [v7 EXCEPT ![r] = s] /\ v7[r].at \in {"asked", "stopping", "closing"}
    BY <1>5 DEF Chat!Denied, Chat!Stopped
  <2>3. CASE Chat!Denied(r)
    <3>1. v6' = v6 /\ v5' = v5 /\ v7[r].at = "asked"  BY <2>3 DEF Chat!Denied
    <3>2. v6 # r  BY <1>0, <3>1, ChatBounds DEF Recording
    <3> HIDE DEF s
    <3> QED  BY <1>0, <2>1, <2>2, <3>1, <3>2, OneRecMoves
  <2>4. CASE Chat!Stopped(r)
    <3>1. v6' = (IF v6 = r THEN 0 ELSE v6) /\ (v5' = v5 \/ (v5' = r /\ ~v7[r].cancelled))
      BY <2>4 DEF Chat!Stopped
    <3> HIDE DEF s
    <3> QED  BY <1>0, <2>1, <2>2, <3>1, OneRecMoves
  <2> QED  BY <1>5, <2>3, <2>4
<1>6. ASSUME NEW r \in Chat!Recs, Chat!RecorderError(r) PROVE RecorderInv'
  <2> DEFINE s == [v7[r] EXCEPT !.cancelled = TRUE, !.at = "over"]
  <2>1. s \in RecStates /\ s.at = "over" /\ s.alone = v7[r].alone  BY <1>3
  <2>2. v7' = [v7 EXCEPT ![r] = s] /\ v7[r].at \in {"recording", "stopping"} /\ v5' = v5
        /\ v6' = (IF v6 = r THEN 0 ELSE v6)
    BY <1>0, <1>6 DEF Chat!RecorderError, Chat!Cancel
  <2> HIDE DEF s
  <2> QED  BY <1>0, <2>1, <2>2, OneRecMoves
<1>7. CASE Chat!PageHide
  <2>0. v6 \in Chat!Recs /\ v7[v6].at \in {"recording", "stopping"}
    BY <1>0, <1>7, ChatBounds DEF Chat!PageHide, Recording
  <2> DEFINE at == IF v7[v6].at = "recording" THEN "stopping" ELSE "closing"
             s == [v7[v6] EXCEPT !.cancelled = TRUE, !.at = at]
  <2>1. s \in RecStates /\ s.at = at /\ s.alone = v7[v6].alone  BY <1>0, <2>0 DEF RecStates
  <2>2. v7' = [v7 EXCEPT ![v6] = s] /\ v5' = v5 /\ v6' = (IF v7[v6].at = "recording" THEN v6 ELSE 0)
    <3>1. v7' = [Chat!Cancel(v6) EXCEPT ![v6].at = IF @ = "recording" THEN "stopping" ELSE "closing"]
          /\ v5' = v5 /\ v6' = (IF v7[v6].at = "recording" THEN v6 ELSE 0)
      BY <1>7 DEF Chat!PageHide
    <3> DEFINE c == [v7[v6] EXCEPT !.cancelled = TRUE]
    <3>2. Chat!Cancel(v6) = [v7 EXCEPT ![v6] = c]  BY DEF Chat!Cancel
    <3>3. c.at = v7[v6].at /\ [c EXCEPT !.at = at] = s  BY <1>0, <2>0 DEF RecStates
    <3>4. Chat!Cancel(v6)[v6] = c  BY <1>0, <2>0, <3>2
    <3> HIDE DEF c
    <3>5. v7' = [Chat!Cancel(v6) EXCEPT ![v6] = [c EXCEPT !.at = at]]
      BY <3>1, <3>3, <3>4
    <3> QED  BY <1>0, <2>0, <3>1, <3>2, <3>3, <3>5
  <2> HIDE DEF s
  <2> QED  BY <1>0, <2>0, <2>1, <2>2, OneRecMoves
<1>8. CASE Chat!RecordClicked
  <2>1. CASE v6 # 0 /\ v7[v6].at = "recording"
    <3> DEFINE s == [v7[v6] EXCEPT !.at = "stopping"]
    <3>0. v6 \in Chat!Recs  BY <1>0, <2>1, ChatBounds
    <3>1. s \in RecStates /\ s.at = "stopping" /\ s.alone = v7[v6].alone  BY <1>3, <3>0
    <3>2. v7' = [v7 EXCEPT ![v6] = s] /\ v5' = v5 /\ v6' = v6  BY <1>8, <2>1 DEF Chat!RecordClicked
    <3> HIDE DEF s
    <3> QED  BY <1>0, <2>1, <3>0, <3>1, <3>2, OneRecMoves
  <2>2. CASE ~(v6 # 0 /\ v7[v6].at = "recording")
    <3> DEFINE asked == {q \in Chat!Recs : v7[q].at = "asked"}
               rest == IF v6 = 0 THEN v7 ELSE [Chat!Cancel(v6) EXCEPT ![v6].at = "closing"]
    <3>1. PICK r \in Chat!Recs :
            /\ v7[r] = Chat!NoRec /\ v6' = 0 /\ v5' = v5
            /\ v7' = [q \in Chat!Recs |-> IF q = r THEN [Chat!NoRec EXCEPT !.at = "asked", !.alone = asked = {}]
                                          ELSE IF q \in asked THEN [rest[q] EXCEPT !.alone = FALSE] ELSE rest[q]]
      BY <1>8, <2>2 DEF Chat!RecordClicked
    <3>2. ASSUME NEW q \in Chat!Recs
          PROVE  /\ rest[q] \in RecStates /\ rest[q].alone = v7[q].alone
                 /\ (q = v6 /\ rest[q].at = "closing") \/ (q # v6 /\ rest[q] = v7[q])
      <4>1. CASE v6 = 0
        BY <1>0, <4>1, ChatBounds
      <4>2. CASE v6 # 0
        <5> DEFINE c == [v7[v6] EXCEPT !.cancelled = TRUE]
                   d == [c EXCEPT !.at = "closing"]
        <5>1. v6 \in Chat!Recs  BY <1>0, <4>2, ChatBounds
        <5>2. d \in RecStates /\ d.alone = v7[v6].alone /\ d.at = "closing"  BY <1>0, <5>1 DEF RecStates
        <5>3. rest = [v7 EXCEPT ![v6] = d]  BY <1>0, <4>2, <5>1 DEF Chat!Cancel
        <5> HIDE DEF d, rest
        <5> QED  BY <1>0, <5>1, <5>2, <5>3
      <4> QED  BY <4>1, <4>2
    <3>n. v7[r].at = "none"
      <4>1. v7[r] = Chat!NoRec  BY <3>1
      <4>2. Chat!NoRec.at = "none"  BY DEF Chat!NoRec
      <4> QED  BY <4>1, <4>2
    <3>3. \A q \in asked : q # v6 /\ q # r /\ v7[q].at = "asked"
      <4>1. ASSUME NEW q \in Chat!Recs, v7[q].at = "asked" PROVE q # v6
        BY <1>0, <4>1, ChatBounds DEF Recording
      <4> QED  BY <3>n, <4>1
    <3>4. \A q \in Chat!Recs : v7[q].at = "asked" <=> q \in asked
      OBVIOUS
    <3> DEFINE none == asked = {}
               new == [Chat!NoRec EXCEPT !.at = "asked", !.alone = none]
    <3>5. none \in BOOLEAN  OBVIOUS
    <3> HIDE DEF rest, asked
    <3>5a. none <=> asked = {}  OBVIOUS
    <3> HIDE DEF none
    <3>6. new \in RecStates /\ new.at = "asked" /\ new.alone = none
      BY <3>5 DEF Chat!NoRec, RecStates
    <3> HIDE DEF new
    <3>7. v7' = [q \in Chat!Recs |-> IF q = r THEN new ELSE IF q \in asked THEN [rest[q] EXCEPT !.alone = FALSE] ELSE rest[q]]
      BY <3>1 DEF new, none
    <3>8. ASSUME NEW q \in Chat!Recs
          PROVE  /\ q = r => v7'[q] = new
                 /\ q \in asked => v7'[q] \in RecStates /\ v7'[q].at = "asked" /\ ~v7'[q].alone
                 /\ q # r /\ q \notin asked => v7'[q] = rest[q]
      <4>1. q \in asked => q # r /\ rest[q] \in RecStates /\ rest[q].at = "asked"
        BY <3>2, <3>3
      <4>2. q \in asked => v7'[q] = [rest[q] EXCEPT !.alone = FALSE]  BY <3>7, <4>1
      <4>3. q \in asked => v7'[q] \in RecStates /\ v7'[q].at = "asked" /\ ~v7'[q].alone
        BY <4>1, <4>2 DEF RecStates
      <4> QED  BY <3>7, <4>3
    <3>9. v7' \in [Chat!Recs -> RecStates]
      <4>1. \A q \in Chat!Recs : v7'[q] \in RecStates  BY <3>2, <3>6, <3>8
      <4>2. v7' = [q \in Chat!Recs |-> v7'[q]]  BY <3>7
      <4> QED  BY <4>1, <4>2
    <3>10. AudioIsOver(v5, v7')
      <4>1. v5 # 0 => v5 \in Chat!Recs /\ v7[v5].at = "over" /\ ~v7[v5].cancelled
        BY <1>0, ChatBounds DEF AudioIsOver
      <4>2. v5 # 0 => v5 # r /\ v5 # v6 /\ v5 \notin asked
        <5>1. v5 # 0 => v5 # v6  BY <1>0, <4>1, ChatBounds DEF Recording
        <5> QED  BY <3>n, <3>3, <4>1, <5>1
      <4> QED  BY <3>2, <3>8, <4>1, <4>2 DEF AudioIsOver
    <3>11. Recording(0, v7')
      <4>1. ASSUME NEW q \in Chat!Recs, v7'[q].at = "recording", v7'[q].alone PROVE FALSE
        <5>1. q # r /\ q \notin asked  BY <3>6, <3>8, <4>1
        <5>2. q # v6 /\ v7[q].at = "recording" /\ v7[q].alone  BY <3>2, <3>8, <4>1, <5>1
        <5> QED  BY <1>0, <5>2 DEF Recording
      <4>2. ASSUME NEW q \in Chat!Recs, NEW p \in Chat!Recs, q # p, v7'[q].alone, v7'[q].at \in {"asked", "recording"},
                   v7'[p].at = "asked"
            PROVE  FALSE
        <5>1. v7'[q].at = "asked"  BY <4>1, <4>2
        <5>2. q = r
          <6>1. q \notin asked  BY <3>8, <4>2
          <6>2. q # r => v7'[q] = rest[q]  BY <3>8, <6>1
          <6>3. q # r => v7[q].at = "asked"  BY <3>2, <5>1, <6>2
          <6> QED  BY <3>4, <6>1, <6>3
        <5>3. asked = {}  BY <3>5a, <3>6, <3>8, <4>2, <5>2
        <5>4. p # r /\ p \notin asked  BY <4>2, <5>2, <5>3
        <5>5. v7[p].at = "asked"  BY <3>2, <3>8, <4>2, <5>4
        <5> QED  BY <3>4, <5>4, <5>5
      <4> QED  BY <4>1, <4>2 DEF Recording
    <3> QED  BY <1>0, <3>1, <3>9, <3>10, <3>11, ChatBounds DEF RecorderInv
  <2> QED  BY <2>1, <2>2
<1> QED  BY <1>2, <1>4, <1>5, <1>6, <1>7, <1>8 DEF Chat!Next

LEMMA ChatInitEstablishes == ASSUME Chat!Init PROVE ChatInv
<1>1. v1 \in ChatNumbers  BY DEF Chat!Init, ChatNumbers
<1>2. v2 \in ChatPages /\ v2.msgs = {} /\ ~v2.more  BY ChatBounds DEF Chat!Init, ChatPages
<1>3. v3 = Chat!NoOp /\ v3 \in ChatOps /\ ~v3.served /\ v3.kind = "none"
  BY ChatBounds DEF Chat!Init, ChatOps, Chat!NoOp
<1>4. HistoryInv  BY <1>1, <1>2, <1>3 DEF HistoryInv, Read, InARow
<1>5. Chat!NoRec \in RecStates /\ Chat!NoRec.at = "none"  BY DEF Chat!NoRec, RecStates
<1>6. RecorderInv  BY <1>5, ChatBounds DEF Chat!Init, RecorderInv, Recording, AudioIsOver
<1>7. Chat!NoAsk \in AskStates  BY ChatBounds DEF Chat!NoAsk, AskStates
<1>8. AsksTyped  BY <1>7 DEF Chat!Init, AsksTyped
<1> QED  BY <1>4, <1>6, <1>8 DEF ChatInv

LEMMA ChatStepKeeps == ASSUME ChatInv, [Chat!Next]_Chat!vars PROVE ChatInv'
<1>1. CASE UNCHANGED Chat!vars
  BY <1>1 DEF Chat!vars, ChatInv, HistoryInv, RecorderInv, AsksTyped
<1> QED  BY <1>1, HistoryKeeps, RecorderKeeps, AsksKeep DEF ChatInv

ChatPart == which = "chat" => ChatInv

LEMMA ChatStart == Init => ChatPart
  BY PagesConstants, ChatInitEstablishes DEF Init, ChatPart

LEMMA ChatStep == ChatPart /\ [Next]_vars => ChatPart'
<1> SUFFICES ASSUME ChatPart, [Next]_vars PROVE ChatPart'
  OBVIOUS
<1>1. CASE which = "chat"
  <2>1. [Chat!Next]_Chat!vars  BY <1>1 DEF Next, vars, Step, Chat!vars
  <2>2. which' = "chat"  BY <1>1 DEF Next, vars, Step
  <2> QED  BY <1>1, <2>1, <2>2, PagesConstants, ChatStepKeeps DEF ChatPart
<1>2. CASE which # "chat"  BY <1>2 DEF Next, vars, Step, ChatPart
<1> QED  BY <1>1, <1>2

-----------------------------------------------------------------------------
(* The live translator. *)

LiveNumbers == 0 .. LiveGens
VoiceNumbers == 0 .. LiveVoices
LivePhases == {"IDLE", "RECORDING", "PROCESSING", "RESULT_READY", "ERROR", "TTS_LOADING", "TTS_PLAYING"}
LiveUis == [gen : LiveNumbers, phase : LivePhases, result : LiveNumbers, last : {"none", "text", "voice"}]
Controls ==
  [recorder : LiveNumbers, stream : LiveNumbers, request : LiveNumbers, abort : VoiceNumbers, audio : VoiceNumbers]
IntentStates ==
  [kind : {"none", "text", "voice"}, live : BOOLEAN, id : LiveNumbers,
   at : {"none", "asked", "recording", "stopping", "sent", "served", "over"}]
VoiceStates ==
  [at : {"none", "asked", "aborted", "starting", "cut", "playing", "over"}, gen : LiveNumbers, history : BOOLEAN]
RequestIds == [current : LiveNumbers, reuse : BOOLEAN]

\* What records, or has a live microphone, is the current intent, whose recorder and
\* stream the page holds.
MicHeld(u, c, t) ==
  \A g \in Live!Gens : t[g].live \/ t[g].at = "recording" => g = u.gen /\ c.stream = g /\ c.recorder = g
Caused(u, t) ==
  /\ u.phase = "PROCESSING" => u.gen # 0 /\ t[u.gen].at \in {"asked", "stopping", "sent", "served"}
  /\ u.phase = "RECORDING" => u.gen # 0 /\ t[u.gen].at \in {"recording", "stopping"}

\* What is heard is the page's audio, whose request is the page's too.
Heard(c, s) ==
  /\ c.audio \in {0, c.abort}
  /\ \A v \in Live!Voices : s[v].at \in {"starting", "playing"} => c.audio = v

LiveTyped ==
  /\ v1 \in LiveUis /\ v2 \in Controls /\ v3 \in [Live!Gens -> IntentStates]
  /\ v4 \in [Live!Voices -> VoiceStates] /\ v5 \in RequestIds /\ v5.current <= v1.gen

LiveInv == LiveTyped /\ MicHeld(v1, v2, v3) /\ Caused(v1, v3) /\ Heard(v2, v4)

LEMMA LiveBounds ==
  /\ 0 \in LiveNumbers /\ 0 \in VoiceNumbers /\ 0 \notin Live!Gens /\ 0 \notin Live!Voices
  /\ Live!Gens \subseteq LiveNumbers /\ Live!Voices \subseteq VoiceNumbers
  /\ \A n \in LiveNumbers : n # 0 => n \in Live!Gens
  /\ \A n \in LiveNumbers : n <= n /\ (n < LiveGens => n + 1 \in Live!Gens /\ n + 1 # n /\ n + 1 # 0)
  BY PagesConstants DEF Live!TranslateAssumption, LiveNumbers, VoiceNumbers, Live!Gens, Live!Voices

\* The microphone is released: a recorder of the page that records is to stop.
LEMMA MicOffRow ==
  ASSUME NEW t \in [Live!Gens -> IntentStates]
  PROVE  /\ Live!MicOff(t) \in [Live!Gens -> IntentStates]
         /\ \A g \in Live!Gens :
              /\ Live!MicOff(t)[g].live => t[g].live /\ g # v2.stream /\ g # v2.recorder
              /\ Live!MicOff(t)[g].at = "recording" => t[g].at = "recording" /\ g # v2.stream /\ g # v2.recorder
              /\ Live!MicOff(t)[g].at = t[g].at \/ (t[g].at = "recording" /\ Live!MicOff(t)[g].at = "stopping")
<1> DEFINE off(s) == [s EXCEPT !.live = FALSE, !.at = IF @ = "recording" THEN "stopping" ELSE @]
<1>1. ASSUME NEW s \in IntentStates
      PROVE  /\ off(s) \in IntentStates /\ ~off(s).live /\ off(s).at # "recording"
             /\ off(s).at = s.at \/ (s.at = "recording" /\ off(s).at = "stopping")
  BY DEF IntentStates
<1>2. Live!MicOff(t) = [g \in Live!Gens |-> IF g = v2.stream \/ g = v2.recorder THEN off(t[g]) ELSE t[g]]
  BY DEF Live!MicOff
<1> HIDE DEF off
<1>3. Live!MicOff(t) \in [Live!Gens -> IntentStates]
  BY <1>1, <1>2
<1> QED  BY <1>1, <1>2, <1>3

\* The request of the page is given up.
LEMMA RequestOffRow ==
  ASSUME NEW t \in [Live!Gens -> IntentStates]
  PROVE  /\ Live!RequestOff(t) \in [Live!Gens -> IntentStates]
         /\ \A g \in Live!Gens :
              /\ Live!RequestOff(t)[g].live = t[g].live
              /\ Live!RequestOff(t)[g].at = "recording" => t[g].at = "recording"
<1>1. ASSUME NEW g \in Live!Gens
      PROVE  LET s == [t[g] EXCEPT !.at = "over"] IN
             s \in IntentStates /\ s.live = t[g].live /\ s.at = "over" /\ t[g] \in IntentStates
  BY DEF IntentStates
<1>2. ASSUME NEW g \in Live!Gens
      PROVE  Live!RequestOff(t)[g] = IF g = v2.request /\ t[g].at \in {"sent", "served"} THEN [t[g] EXCEPT !.at = "over"] ELSE t[g]
  BY DEF Live!RequestOff
<1>3. Live!RequestOff(t) \in [Live!Gens -> IntentStates]
  BY <1>1 DEF Live!RequestOff
<1> QED  BY <1>1, <1>2, <1>3

\* Once an intent has released the microphone, none is live.
LEMMA MicOffSilences ==
  ASSUME LiveInv, NEW t \in [Live!Gens -> IntentStates],
         \A g \in Live!Gens : (t[g].live => v3[g].live) /\ (t[g].at = "recording" => v3[g].at = "recording")
  PROVE  \A g \in Live!Gens : ~Live!MicOff(t)[g].live /\ Live!MicOff(t)[g].at # "recording"
  BY MicOffRow DEF LiveInv, MicHeld

LEMMA ReleasedRow ==
  ASSUME LiveInv
  PROVE  Live!Released \in [Live!Gens -> IntentStates]
         /\ \A g \in Live!Gens : ~Live!Released[g].live /\ Live!Released[g].at # "recording"
<1> DEFINE t == Live!MicOff(v3)
<1>1. v3 \in [Live!Gens -> IntentStates]  BY DEF LiveInv, LiveTyped
<1>2. t \in [Live!Gens -> IntentStates] /\ \A g \in Live!Gens : ~t[g].live /\ t[g].at # "recording"
  BY <1>1, MicOffRow, MicOffSilences
<1>3. Live!Released = Live!RequestOff(t)  BY DEF Live!Released
<1> HIDE DEF t
<1> QED  BY <1>2, <1>3, RequestOffRow

\* What is heard is stopped.
LEMMA SilentRow ==
  ASSUME LiveInv
  PROVE  Live!Silent \in [Live!Voices -> VoiceStates]
         /\ \A v \in Live!Voices : Live!Silent[v].at \notin {"starting", "playing"}
<1>0. v4 \in [Live!Voices -> VoiceStates] /\ Heard(v2, v4)  BY DEF LiveInv, LiveTyped
<1>1. ASSUME NEW v \in Live!Voices
      PROVE  LET s == [v4[v] EXCEPT !.at = Live!Halted(@)] IN
             s \in VoiceStates /\ s.at \notin {"starting", "playing"} /\ v4[v] \in VoiceStates
  <2>1. Live!Halted(v4[v].at) \in {"aborted", "cut", "over"}  BY DEF Live!Halted
  <2> HIDE DEF Live!Halted
  <2> QED  BY <1>0, <2>1 DEF VoiceStates
<1> DEFINE halted(v) == [v4[v] EXCEPT !.at = Live!Halted(@)]
<1>2. Live!Silent = [v \in Live!Voices |-> IF v \in {v2.abort, v2.audio} THEN halted(v) ELSE v4[v]]
  BY DEF Live!Silent
<1>3. \A v \in Live!Voices : halted(v) \in VoiceStates /\ halted(v).at \notin {"starting", "playing"} /\ v4[v] \in VoiceStates
  BY <1>1
<1> HIDE DEF halted
<1> QED  BY <1>0, <1>2, <1>3 DEF Heard

\* What the page holds, once given up.
LEMMA ControlsOff ==
  ASSUME NEW c \in Controls, NEW n \in LiveNumbers, NEW v \in VoiceNumbers
  PROVE  /\ LET m == Live!Microphone(c) IN
            m \in Controls /\ m.abort = c.abort /\ m.audio = c.audio
         /\ LET s == Live!SpeechOff(c) IN
            s \in Controls /\ s.abort = 0 /\ s.audio = 0 /\ s.recorder = c.recorder /\ s.stream = c.stream
         /\ LET r == [c EXCEPT !.request = n] IN
            r \in Controls /\ r.abort = c.abort /\ r.audio = c.audio /\ r.recorder = c.recorder /\ r.stream = c.stream
         /\ LET a == [c EXCEPT !.abort = v] IN
            a \in Controls /\ a.abort = v /\ a.audio = c.audio /\ a.recorder = c.recorder /\ a.stream = c.stream
  BY LiveBounds DEF Live!Microphone, Live!SpeechOff, Controls

LEMMA AllOff ==
  ASSUME NEW c \in Controls, NEW n \in LiveNumbers
  PROVE  LET o == [Live!SpeechOff(Live!Microphone(c)) EXCEPT !.request = n] IN
         o \in Controls /\ o.abort = 0 /\ o.audio = 0
<1> DEFINE m == Live!Microphone(c)
           s == Live!SpeechOff(m)
<1>1. m \in Controls  BY ControlsOff, LiveBounds
<1> HIDE DEF m
<1>2. s \in Controls /\ s.abort = 0 /\ s.audio = 0  BY <1>1, ControlsOff, LiveBounds
<1> HIDE DEF s
<1>3. LET o == [s EXCEPT !.request = n] IN o \in Controls /\ o.abort = 0 /\ o.audio = 0
  BY <1>2 DEF Controls
<1> QED  BY <1>3 DEF s, m

\* A generation begins; what was before it is released.
LEMMA GenerationBegins ==
  ASSUME LiveInv, v1.gen < LiveGens, NEW t \in [Live!Gens -> IntentStates], v3' = t,
         \A g \in Live!Gens : ~t[g].live /\ t[g].at # "recording",
         v1' \in LiveUis, v1'.gen = v1.gen + 1, v1'.phase # "RECORDING",
         v1'.phase = "PROCESSING" => t[v1.gen + 1].at \in {"asked", "sent"},
         v2' \in Controls, \/ v2'.audio = 0 /\ v4' = Live!Silent
                           \/ v2'.audio = v2.audio /\ v2'.abort = v2.abort /\ v4' = v4,
         v5' \in RequestIds, v5'.current <= v1.gen + 1
  PROVE  LiveInv'
<1>0. v1.gen \in LiveNumbers /\ v1.gen + 1 # 0 /\ v4 \in [Live!Voices -> VoiceStates] /\ Heard(v2, v4)
  <2>1. v1.gen \in LiveNumbers  BY DEF LiveInv, LiveTyped, LiveUis
  <2> QED  BY <2>1, LiveBounds DEF LiveInv, LiveTyped
<1>1. LiveTyped'
  BY <1>0, SilentRow DEF LiveTyped
<1>2. Heard(v2', v4')
  BY <1>0, SilentRow, LiveBounds DEF Heard
<1>3. Caused(v1', v3')
  BY <1>0 DEF Caused
<1> QED  BY <1>1, <1>2, <1>3 DEF LiveInv, MicHeld

\* A new intent.
LEMMA IntentBegins ==
  ASSUME LiveInv, v1.gen < LiveGens, NEW kind \in {"text", "voice"}, NEW at \in {"asked", "sent"}, NEW id \in LiveNumbers,
         v3' = [Live!Released EXCEPT ![v1.gen + 1] = [kind |-> kind, at |-> at, live |-> FALSE, id |-> id]],
         v1' \in LiveUis, v1'.gen = v1.gen + 1, v1'.phase # "RECORDING",
         NEW n \in LiveNumbers, v2' = [Live!SpeechOff(Live!Microphone(v2)) EXCEPT !.request = n], v4' = Live!Silent,
         v5' = [current |-> id, reuse |-> FALSE], id <= v1.gen + 1
  PROVE  LiveInv'
<1>0. v1.gen \in LiveNumbers /\ v2 \in Controls  BY DEF LiveInv, LiveTyped, LiveUis
<1> DEFINE s == [kind |-> kind, at |-> at, live |-> FALSE, id |-> id]
<1>1. s \in IntentStates /\ ~s.live /\ s.at = at  BY DEF IntentStates
<1>2. v1.gen + 1 \in Live!Gens  BY <1>0, LiveBounds
<1>3. v5' \in RequestIds /\ v5'.current = id  BY DEF RequestIds
<1>4. v2' \in Controls /\ v2'.audio = 0  BY <1>0, AllOff
<1> HIDE DEF s
<1> DEFINE t == [Live!Released EXCEPT ![v1.gen + 1] = s]
<1>5. t \in [Live!Gens -> IntentStates] /\ t[v1.gen + 1].at = at
      /\ \A g \in Live!Gens : ~t[g].live /\ t[g].at # "recording"
  BY <1>1, <1>2, ReleasedRow
<1>6. v3' = t  BY DEF s
<1> HIDE DEF t
<1> QED  BY <1>3, <1>4, <1>5, <1>6, GenerationBegins

\* One intent, which neither records nor has the microphone, moves.
LEMMA IntentMoves ==
  ASSUME LiveInv, NEW g \in Live!Gens, NEW at \in {"sent", "served", "over", "stopping"},
         v3' = [v3 EXCEPT ![g].at = at],
         v1' \in LiveUis, v1'.gen = v1.gen, v2' \in Controls, v2'.audio = v2.audio, v2'.abort = v2.abort,
         v2'.recorder = v2.recorder, v2'.stream = v2.stream, v4' = v4, v5' = v5,
         v1'.phase = "PROCESSING" => IF g = v1.gen THEN at \in {"stopping", "sent", "served"} ELSE v1.phase = "PROCESSING",
         v1'.phase = "RECORDING" => IF g = v1.gen THEN at = "stopping" ELSE v1.phase = "RECORDING"
  PROVE  LiveInv'
<1>0. /\ v1 \in LiveUis /\ v3 \in [Live!Gens -> IntentStates] /\ v4 \in [Live!Voices -> VoiceStates] /\ v5 \in RequestIds
      /\ v5.current <= v1.gen /\ MicHeld(v1, v2, v3) /\ Caused(v1, v3) /\ Heard(v2, v4)
  BY DEF LiveInv, LiveTyped
<1> DEFINE s == [v3[g] EXCEPT !.at = at]
<1>1. s \in IntentStates /\ s.live = v3[g].live /\ s.at = at  BY <1>0 DEF IntentStates
<1>2. v3' = [v3 EXCEPT ![g] = s]  OBVIOUS
<1> HIDE DEF s
<1>3. v3' \in [Live!Gens -> IntentStates] /\ v3'[g] = s /\ \A h \in Live!Gens : h # g => v3'[h] = v3[h]
  BY <1>0, <1>1, <1>2
<1>4. LiveTyped'  BY <1>0, <1>3 DEF LiveTyped
<1>5. MicHeld(v1', v2', v3')  BY <1>0, <1>1, <1>3 DEF MicHeld
<1>6. Caused(v1', v3')
  <2>1. v1.gen \in LiveNumbers  BY <1>0 DEF LiveUis
  <2>2. v1.gen # 0 => v1.gen \in Live!Gens  BY <2>1, LiveBounds
  <2>3. v1'.phase = "PROCESSING" => v1'.gen # 0 /\ v3'[v1'.gen].at \in {"asked", "stopping", "sent", "served"}
    BY <1>0, <1>1, <1>3, <2>2, LiveBounds DEF Caused
  <2>4. v1'.phase = "RECORDING" => v1'.gen # 0 /\ v3'[v1'.gen].at \in {"recording", "stopping"}
    BY <1>0, <1>1, <1>3, <2>2, LiveBounds DEF Caused
  <2> QED  BY <2>3, <2>4 DEF Caused
<1>7. Heard(v2', v4')  BY <1>0 DEF Heard
<1> QED  BY <1>4, <1>5, <1>6, <1>7 DEF LiveInv

\* The microphone is released by a step of an intent, which has no more of it.
LEMMA MicrophoneGivenUp ==
  ASSUME LiveInv, NEW g \in Live!Gens, NEW at \in {"sent", "over", "stopping"},
         NEW t \in [Live!Gens -> IntentStates],
         \A h \in Live!Gens : ~t[h].live /\ t[h].at # "recording" /\ (h # g => t[h].at = v3[h].at \/ (v3[h].at = "recording" /\ t[h].at = "stopping")),
         t[g].at = at, v3' = t,
         v1' \in LiveUis, v1'.gen = v1.gen, v2' \in Controls, v2'.audio = v2.audio, v2'.abort = v2.abort, v4' = v4, v5' = v5,
         v1'.phase = "PROCESSING" => IF g = v1.gen THEN at \in {"stopping", "sent"} ELSE v1.phase = "PROCESSING",
         v1'.phase = "RECORDING" => IF g = v1.gen THEN at = "stopping" ELSE v1.phase = "RECORDING"
  PROVE  LiveInv'
<1>0. /\ v1 \in LiveUis /\ v3 \in [Live!Gens -> IntentStates] /\ v4 \in [Live!Voices -> VoiceStates] /\ v5 \in RequestIds
      /\ v5.current <= v1.gen /\ MicHeld(v1, v2, v3) /\ Caused(v1, v3) /\ Heard(v2, v4)
  BY DEF LiveInv, LiveTyped
<1>1. LiveTyped'  BY <1>0 DEF LiveTyped
<1>2. MicHeld(v1', v2', v3')  BY DEF MicHeld
<1>3. Caused(v1', v3')
  <2>1. v1.gen \in LiveNumbers  BY <1>0 DEF LiveUis
  <2>2. v1.gen # 0 => v1.gen \in Live!Gens  BY <2>1, LiveBounds
  <2>3. v1'.phase = "PROCESSING" => v1'.gen # 0 /\ v3'[v1'.gen].at \in {"asked", "stopping", "sent", "served"}
    BY <1>0, <2>2, LiveBounds DEF Caused
  <2>4. v1'.phase = "RECORDING" => v1'.gen # 0 /\ v3'[v1'.gen].at \in {"recording", "stopping"}
    BY <1>0, <2>2, LiveBounds DEF Caused
  <2> QED  BY <2>3, <2>4 DEF Caused
<1>4. Heard(v2', v4')  BY <1>0 DEF Heard
<1> QED  BY <1>1, <1>2, <1>3, <1>4 DEF LiveInv

\* Only the phase, and what is heard, change.
LEMMA SpeechMoves ==
  ASSUME LiveInv, v3' = v3, v5' = v5, v1' \in LiveUis, v1'.gen = v1.gen,
         v1'.phase = v1.phase \/ v1'.phase \notin {"PROCESSING", "RECORDING"},
         v2' \in Controls, v2'.stream = v2.stream, v2'.recorder = v2.recorder,
         v4' \in [Live!Voices -> VoiceStates], Heard(v2', v4')
  PROVE  LiveInv'
<1>1. MicHeld(v1', v2', v3') /\ Caused(v1', v3')  BY DEF LiveInv, MicHeld, Caused
<1> QED  BY <1>1 DEF LiveInv, LiveTyped

\* What the user asks for.
LEMMA ClicksKeep ==
  ASSUME LiveInv, \/ Live!TextClicked \/ Live!RetryText \/ Live!VoiceClicked
                  \/ \E b \in BOOLEAN : Live!Refused(b) \/ Live!Cancelled(b)
  PROVE  LiveInv'
<1>0. /\ v1 \in LiveUis /\ v1.gen \in LiveNumbers /\ v2 \in Controls /\ v3 \in [Live!Gens -> IntentStates]
      /\ v4 \in [Live!Voices -> VoiceStates] /\ v5 \in RequestIds /\ v5.current \in LiveNumbers /\ v5.current <= v1.gen
      /\ MicHeld(v1, v2, v3) /\ Caused(v1, v3) /\ Heard(v2, v4)
  BY DEF LiveInv, LiveTyped, LiveUis, RequestIds
<1>n. ASSUME v1.gen < LiveGens
      PROVE  /\ v1.gen + 1 \in LiveNumbers /\ Live!FreshId \in LiveNumbers /\ Live!FreshId <= v1.gen + 1
             /\ v5.current <= v1.gen + 1 /\ 1 \in LiveNumbers /\ 1 <= v1.gen + 1
  <2>1. v1.gen \in Nat /\ LiveGens \in Nat /\ v5.current \in Nat
    BY <1>0, PagesConstants DEF Live!TranslateAssumption, LiveNumbers
  <2>2. /\ v1.gen + 1 \in LiveNumbers /\ v5.current <= v1.gen + 1 /\ 1 \in LiveNumbers /\ 1 <= v1.gen + 1
        /\ v5.current + 1 \in LiveNumbers /\ v5.current + 1 <= v1.gen + 1
    BY <1>0, <1>n, <2>1 DEF LiveNumbers
  <2>3. Live!FreshId \in {v5.current, v5.current + 1}  BY DEF Live!FreshId
  <2> QED  BY <1>0, <2>2, <2>3
<1>1. CASE Live!TextClicked
  <2> DEFINE n == v1.gen + 1
             id == Live!FreshId
  <2>1. v1.gen < LiveGens /\ n \in LiveNumbers /\ id \in LiveNumbers /\ id <= n
    BY <1>1, <1>n DEF Live!TextClicked, Live!Begin
  <2>2. /\ v3' = [Live!Released EXCEPT ![n] = [kind |-> "text", at |-> "sent", live |-> FALSE, id |-> id]]
        /\ v5' = [current |-> id, reuse |-> FALSE] /\ v4' = Live!Silent
        /\ v2' = [Live!SpeechOff(Live!Microphone(v2)) EXCEPT !.request = n]
        /\ v1' = [v1 EXCEPT !.gen = n, !.phase = "PROCESSING", !.last = "text"]
    BY <1>1 DEF Live!TextClicked, Live!Begin
  <2> HIDE DEF n, id
  <2>3. v1' \in LiveUis /\ v1'.gen = n /\ v1'.phase = "PROCESSING"
    BY <1>0, <2>1, <2>2 DEF LiveUis, LivePhases
  <2> QED  BY <2>1, <2>2, <2>3, IntentBegins DEF n
<1>2. CASE Live!RetryText
  <2> DEFINE n == v1.gen + 1
             id == IF v5.current # 0 THEN v5.current ELSE 1
  <2>1. v1.gen < LiveGens /\ n \in LiveNumbers /\ id \in LiveNumbers /\ id <= n
    BY <1>0, <1>2, <1>n DEF Live!RetryText
  <2>2. /\ v3' = [Live!Released EXCEPT ![n] = [kind |-> "text", at |-> "sent", live |-> FALSE, id |-> id]]
        /\ v5' = [current |-> id, reuse |-> FALSE] /\ v4' = Live!Silent
        /\ v2' = [Live!SpeechOff(Live!Microphone(v2)) EXCEPT !.request = n]
        /\ v1' = [v1 EXCEPT !.gen = n, !.phase = "PROCESSING"]
    BY <1>2 DEF Live!RetryText
  <2> HIDE DEF n, id
  <2>3. v1' \in LiveUis /\ v1'.gen = n /\ v1'.phase = "PROCESSING"
    BY <1>0, <2>1, <2>2 DEF LiveUis, LivePhases
  <2> QED  BY <2>1, <2>2, <2>3, IntentBegins DEF n
<1>3. CASE Live!VoiceClicked /\ v1.phase # "RECORDING"
  <2> DEFINE n == v1.gen + 1
             id == Live!FreshId
  <2>1. v1.gen < LiveGens /\ n \in LiveNumbers /\ id \in LiveNumbers /\ id <= n
    BY <1>3, <1>n DEF Live!VoiceClicked, Live!Begin
  <2>2. /\ v3' = [Live!Released EXCEPT ![n] = [kind |-> "voice", at |-> "asked", live |-> FALSE, id |-> id]]
        /\ v5' = [current |-> id, reuse |-> FALSE] /\ v4' = Live!Silent
        /\ v2' = [Live!SpeechOff(Live!Microphone(v2)) EXCEPT !.request = 0]
        /\ v1' = [v1 EXCEPT !.gen = n, !.last = "voice"]
    BY <1>3 DEF Live!VoiceClicked, Live!Begin, Live!Release
  <2> HIDE DEF n, id
  <2>3. v1' \in LiveUis /\ v1'.gen = n /\ v1'.phase = v1.phase
    BY <1>0, <2>1, <2>2 DEF LiveUis, LivePhases
  <2> QED  BY <1>3, <2>1, <2>2, <2>3, IntentBegins, LiveBounds DEF n
<1>4. CASE Live!VoiceClicked /\ v1.phase = "RECORDING"
  <2>1. /\ v2.recorder # 0 /\ v3[v2.recorder].at = "recording" /\ v3' = [v3 EXCEPT ![v2.recorder].at = "stopping"]
        /\ v1' = [v1 EXCEPT !.phase = "PROCESSING"] /\ v2' = v2 /\ v4' = v4 /\ v5' = v5
    BY <1>4 DEF Live!VoiceClicked
  <2>2. v2.recorder \in Live!Gens /\ v2.recorder = v1.gen
    <3>1. v2.recorder \in LiveNumbers  BY <1>0 DEF Controls
    <3> QED  BY <1>0, <2>1, <3>1, LiveBounds DEF MicHeld
  <2>3. v1' \in LiveUis /\ v1'.gen = v1.gen /\ v1'.phase = "PROCESSING"  BY <1>0, <2>1 DEF LiveUis, LivePhases
  <2> QED  BY <1>0, <2>1, <2>2, <2>3, IntentMoves
<1>5. ASSUME NEW b \in BOOLEAN, Live!Refused(b) PROVE LiveInv'
  <2> DEFINE r == v5.reuse \/ (b /\ v1.last = "text" /\ v5.current # 0)
  <2>1. r \in BOOLEAN  BY <1>0 DEF RequestIds
  <2>2. v5' = [v5 EXCEPT !.reuse = r] /\ v1' = [v1 EXCEPT !.phase = "ERROR"] /\ v2' = v2 /\ v3' = v3 /\ v4' = v4
    BY <1>5 DEF Live!Refused
  <2> HIDE DEF r
  <2>3. v5' \in RequestIds /\ v5'.current = v5.current  BY <1>0, <2>1, <2>2 DEF RequestIds
  <2>4. v1' \in LiveUis /\ v1'.gen = v1.gen /\ v1'.phase = "ERROR"  BY <1>0, <2>2 DEF LiveUis, LivePhases
  <2>5. MicHeld(v1', v2', v3') /\ Caused(v1', v3')  BY <1>0, <2>2, <2>4 DEF MicHeld, Caused
  <2> QED  BY <1>0, <2>2, <2>3, <2>4, <2>5 DEF LiveInv, LiveTyped
<1>6. ASSUME NEW b \in BOOLEAN, Live!Cancelled(b) PROVE LiveInv'
  <2> DEFINE n == v1.gen + 1
             result == IF b THEN v1.result ELSE 0
             phase == IF result # 0 THEN "RESULT_READY" ELSE "IDLE"
  <2>1. v1.gen < LiveGens /\ n \in LiveNumbers  BY <1>6, <1>n DEF Live!Cancelled
  <2>2. result \in LiveNumbers  BY <1>0, LiveBounds DEF LiveUis
  <2>3. phase \in {"RESULT_READY", "IDLE"}  OBVIOUS
  <2>4. /\ v3' = Live!Released /\ v4' = Live!Silent /\ v5' = v5
        /\ v2' = [Live!SpeechOff(Live!Microphone(v2)) EXCEPT !.request = 0]
        /\ v1' = [v1 EXCEPT !.gen = n, !.result = result, !.phase = phase]
    BY <1>6 DEF Live!Cancelled, Live!Release
  <2> HIDE DEF n, result, phase
  <2>5. v1' \in LiveUis /\ v1'.gen = n /\ v1'.phase = phase
    BY <1>0, <2>1, <2>2, <2>3, <2>4 DEF LiveUis, LivePhases
  <2>6. v2' \in Controls /\ v2'.audio = 0  BY <1>0, <2>4, AllOff, LiveBounds
  <2> QED  BY <1>0, <1>n, <2>1, <2>3, <2>4, <2>5, <2>6, ReleasedRow, GenerationBegins DEF n
<1> QED  BY <1>1, <1>2, <1>3, <1>4, <1>5, <1>6

\* The microphone of an intent.
LEMMA MicrophoneKeeps ==
  ASSUME LiveInv, NEW g \in Live!Gens,
         \/ Live!Permitted(g) \/ Live!Denied(g) \/ Live!RecorderFails(g) \/ \E empty \in BOOLEAN : Live!Stopped(g, empty)
  PROVE  LiveInv'
<1>0. /\ v1 \in LiveUis /\ v1.gen \in LiveNumbers /\ v2 \in Controls /\ v3 \in [Live!Gens -> IntentStates]
      /\ v4 \in [Live!Voices -> VoiceStates] /\ v5 \in RequestIds /\ v5.current <= v1.gen
      /\ MicHeld(v1, v2, v3) /\ Caused(v1, v3) /\ Heard(v2, v4) /\ g \in LiveNumbers
  BY LiveBounds DEF LiveInv, LiveTyped, LiveUis
<1>p. ASSUME NEW phase \in LivePhases
      PROVE  LET u == [v1 EXCEPT !.phase = phase] IN u \in LiveUis /\ u.gen = v1.gen /\ u.phase = phase
  BY <1>0 DEF LiveUis
<1>e. "ERROR" \in LivePhases /\ "PROCESSING" \in LivePhases /\ "RECORDING" \in LivePhases
  BY DEF LivePhases
<1>1. CASE Live!Permitted(g) /\ v1.gen = g
  <2> DEFINE s == [v3[g] EXCEPT !.at = "recording", !.live = TRUE]
  <2>1. s \in IntentStates /\ s.live /\ s.at = "recording"  BY <1>0 DEF IntentStates
  <2>2. /\ v3' = [v3 EXCEPT ![g] = s] /\ v2' = [v2 EXCEPT !.recorder = g, !.stream = g]
        /\ v1' = [v1 EXCEPT !.phase = "RECORDING"] /\ v4' = v4 /\ v5' = v5
    BY <1>0, <1>1 DEF Live!Permitted, Live!Current
  <2> HIDE DEF s
  <2>3. v3' \in [Live!Gens -> IntentStates] /\ v3'[g] = s /\ \A h \in Live!Gens : h # g => v3'[h] = v3[h]
    BY <1>0, <2>1, <2>2
  <2>4. v2' \in Controls /\ v2'.recorder = g /\ v2'.stream = g /\ v2'.abort = v2.abort /\ v2'.audio = v2.audio
    BY <1>0, <2>2 DEF Controls
  <2>5. v1' \in LiveUis /\ v1'.gen = g /\ v1'.phase = "RECORDING"  BY <1>1, <1>p, <1>e, <2>2
  <2>6. MicHeld(v1', v2', v3')  BY <1>0, <1>1, <2>3, <2>4, <2>5 DEF MicHeld
  <2>7. Caused(v1', v3')  BY <2>1, <2>3, <2>5, LiveBounds DEF Caused
  <2>8. Heard(v2', v4')  BY <1>0, <2>2, <2>4 DEF Heard
  <2> QED  BY <1>0, <1>1, <2>2, <2>3, <2>4, <2>5, <2>6, <2>7, <2>8 DEF LiveInv, LiveTyped
<1>2. CASE (Live!Permitted(g) \/ Live!Denied(g)) /\ v1.gen # g
  <2>1. v3' = [v3 EXCEPT ![g].at = "over"] /\ v1' = v1 /\ v2' = v2 /\ v4' = v4 /\ v5' = v5
    BY <1>2 DEF Live!Permitted, Live!Denied, Live!Current
  <2> QED  BY <1>0, <1>2, <2>1, IntentMoves
<1>3. ASSUME NEW at \in {"over", "stopping"}
      PROVE  LET t == [v3 EXCEPT ![g].at = at] IN
             /\ t \in [Live!Gens -> IntentStates] /\ t[g].at = at
             /\ \A h \in Live!Gens : (h # g => t[h] = v3[h]) /\ t[h].live = v3[h].live
                                     /\ (t[h].at = "recording" => v3[h].at = "recording")
  <2> DEFINE s == [v3[g] EXCEPT !.at = at]
  <2>1. s \in IntentStates /\ s.at = at /\ s.live = v3[g].live  BY <1>0 DEF IntentStates
  <2> HIDE DEF s
  <2>2. [v3 EXCEPT ![g].at = at] = [v3 EXCEPT ![g] = s]  BY DEF s
  <2> QED  BY <1>0, <2>1, <2>2
<1>4. CASE Live!Denied(g) /\ v1.gen = g
  <2> DEFINE over == [v3 EXCEPT ![g].at = "over"]
             t == Live!MicOff(over)
  <2>1. v3' = t /\ v2' = Live!Microphone(v2) /\ v1' = [v1 EXCEPT !.phase = "ERROR"] /\ v4' = v4 /\ v5' = v5
    BY <1>4 DEF Live!Denied
  <2>2. /\ over \in [Live!Gens -> IntentStates] /\ over[g].at = "over"
        /\ \A h \in Live!Gens : (h # g => over[h] = v3[h]) /\ over[h].live = v3[h].live
                                /\ (over[h].at = "recording" => v3[h].at = "recording")
    BY <1>3
  <2> HIDE DEF over
  <2>3. t \in [Live!Gens -> IntentStates] /\ t[g].at = "over"
        /\ \A h \in Live!Gens : ~t[h].live /\ t[h].at # "recording"
                                /\ (h # g => t[h].at = v3[h].at \/ (v3[h].at = "recording" /\ t[h].at = "stopping"))
    BY <2>2, MicOffRow, MicOffSilences
  <2> HIDE DEF t
  <2>4. v2' \in Controls /\ v2'.audio = v2.audio /\ v2'.abort = v2.abort  BY <1>0, <2>1, ControlsOff, LiveBounds
  <2>5. v1' \in LiveUis /\ v1'.gen = v1.gen /\ v1'.phase = "ERROR"  BY <1>p, <1>e, <2>1
  <2> QED  BY <1>0, <2>1, <2>3, <2>4, <2>5, MicrophoneGivenUp
<1>5. ASSUME NEW empty \in BOOLEAN, Live!Stopped(g, empty) PROVE LiveInv'
  <2> DEFINE off == Live!MicOff(v3)
             at == IF v1.gen = g /\ ~empty THEN "sent" ELSE "over"
             s == [off[g] EXCEPT !.at = at]
             t == [off EXCEPT ![g] = s]
  <2>0. at \in {"sent", "over"}  OBVIOUS
  <2>1. v3' = t /\ v4' = v4 /\ v5' = v5
    BY <1>5 DEF Live!Stopped
  <2>2. /\ v1.gen # g => v1' = v1 /\ v2' = Live!Microphone(v2)
        /\ v1.gen = g /\ empty => v1' = [v1 EXCEPT !.phase = "ERROR"] /\ v2' = Live!Microphone(v2)
        /\ v1.gen = g /\ ~empty => v1' = [v1 EXCEPT !.phase = "PROCESSING"]
                                   /\ v2' = [Live!Microphone(v2) EXCEPT !.request = g]
    BY <1>5 DEF Live!Stopped
  <2>3. /\ off \in [Live!Gens -> IntentStates]
        /\ \A h \in Live!Gens : ~off[h].live /\ off[h].at # "recording"
                                /\ (off[h].at = v3[h].at \/ (v3[h].at = "recording" /\ off[h].at = "stopping"))
    BY <1>0, MicOffRow, MicOffSilences
  <2>a. at = "sent" => v1.gen = g /\ ~empty  OBVIOUS
  <2>b. v1.gen = g /\ ~empty => at = "sent"  OBVIOUS
  <2> HIDE DEF off, at
  <2>4. s \in IntentStates /\ ~s.live /\ s.at = at  BY <2>0, <2>3 DEF IntentStates
  <2> HIDE DEF s
  <2>5. t \in [Live!Gens -> IntentStates] /\ t[g].at = at
        /\ \A h \in Live!Gens : ~t[h].live /\ t[h].at # "recording"
                                /\ (h # g => t[h].at = v3[h].at \/ (v3[h].at = "recording" /\ t[h].at = "stopping"))
    BY <2>0, <2>3, <2>4
  <2> HIDE DEF t
  <2> DEFINE m == Live!Microphone(v2)
             r == [m EXCEPT !.request = g]
  <2>6. m \in Controls /\ m.audio = v2.audio /\ m.abort = v2.abort  BY <1>0, ControlsOff, LiveBounds
  <2>6a. v2' = m \/ v2' = r  BY <2>2
  <2> HIDE DEF m
  <2>7. r \in Controls /\ r.audio = v2.audio /\ r.abort = v2.abort  BY <1>0, <2>6 DEF Controls
  <2>8. v2' \in Controls /\ v2'.audio = v2.audio /\ v2'.abort = v2.abort  BY <2>6, <2>6a, <2>7
  <2>9. v1' \in LiveUis /\ v1'.gen = v1.gen
        /\ \/ v1'.phase = v1.phase /\ v1.gen # g
           \/ v1'.phase = "ERROR"
           \/ v1'.phase = "PROCESSING" /\ at = "sent"
    <3>1. v1.gen # g => v1' = v1  BY <2>2
    <3>2. v1.gen = g /\ empty => v1' \in LiveUis /\ v1'.gen = v1.gen /\ v1'.phase = "ERROR"
      BY <1>p, <1>e, <2>2
    <3>3. v1.gen = g /\ ~empty => v1' \in LiveUis /\ v1'.gen = v1.gen /\ v1'.phase = "PROCESSING" /\ at = "sent"
      BY <1>p, <1>e, <2>2, <2>b
    <3>4. CASE v1.gen # g  BY <1>0, <3>1, <3>4
    <3>5. CASE v1.gen = g /\ empty  BY <3>2, <3>5
    <3>6. CASE v1.gen = g /\ ~empty  BY <3>3, <3>6
    <3> QED  BY <3>4, <3>5, <3>6
  <2> QED  BY <1>0, <2>0, <2>a, <2>1, <2>5, <2>8, <2>9, MicrophoneGivenUp
<1>6. CASE Live!RecorderFails(g)
  <2>0. v3[g].at = "recording" /\ v1.gen = g  BY <1>0, <1>6 DEF Live!RecorderFails, MicHeld
  <2> DEFINE q == Live!RequestOff(v3)
             off == Live!MicOff(q)
             s == [off[g] EXCEPT !.at = "stopping"]
             t == [off EXCEPT ![g] = s]
             n == v1.gen + 1
  <2>1. /\ v3' = t /\ v4' = v4 /\ v5' = v5 /\ v1.gen < LiveGens
        /\ v1' = [v1 EXCEPT !.gen = n, !.phase = "ERROR"] /\ v2' = [Live!Microphone(v2) EXCEPT !.request = 0]
    BY <1>6, <2>0 DEF Live!RecorderFails
  <2>2. q \in [Live!Gens -> IntentStates]
        /\ \A h \in Live!Gens : (q[h].live => v3[h].live) /\ (q[h].at = "recording" => v3[h].at = "recording")
    BY <1>0, RequestOffRow
  <2> HIDE DEF q
  <2>3. off \in [Live!Gens -> IntentStates] /\ \A h \in Live!Gens : ~off[h].live /\ off[h].at # "recording"
    BY <2>2, MicOffRow, MicOffSilences
  <2> HIDE DEF off
  <2>4. s \in IntentStates /\ ~s.live /\ s.at = "stopping"  BY <2>3 DEF IntentStates
  <2> HIDE DEF s
  <2>5. t \in [Live!Gens -> IntentStates] /\ \A h \in Live!Gens : ~t[h].live /\ t[h].at # "recording"
    BY <2>3, <2>4
  <2> HIDE DEF t
  <2> DEFINE m == Live!Microphone(v2)
  <2>6. m \in Controls /\ m.audio = v2.audio /\ m.abort = v2.abort  BY <1>0, ControlsOff, LiveBounds
  <2>6a. v2' = [m EXCEPT !.request = 0]  BY <2>1
  <2> HIDE DEF m
  <2>7. v2' \in Controls /\ v2'.audio = v2.audio /\ v2'.abort = v2.abort  BY <2>6, <2>6a, ControlsOff, LiveBounds
  <2>8. n \in LiveNumbers /\ v5.current <= n
    <3>1. v5.current \in LiveNumbers  BY <1>0 DEF RequestIds
    <3> QED  BY <1>0, <2>1, <3>1, LiveBounds DEF LiveNumbers
  <2> HIDE DEF n
  <2>9. v1' \in LiveUis /\ v1'.gen = n /\ v1'.phase = "ERROR"  BY <1>0, <1>e, <2>1, <2>8 DEF LiveUis
  <2> QED  BY <1>0, <2>1, <2>5, <2>7, <2>8, <2>9, GenerationBegins DEF n
<1> QED  BY <1>1, <1>2, <1>4, <1>5, <1>6

\* The request of an intent.
LEMMA RequestKeeps ==
  ASSUME LiveInv, NEW g \in Live!Gens, Live!Served(g) \/ Live!Replied(g) \/ Live!Failed(g)
  PROVE  LiveInv'
<1>0. v1 \in LiveUis /\ v2 \in Controls /\ v3 \in [Live!Gens -> IntentStates] /\ g \in LiveNumbers /\ Caused(v1, v3)
  BY LiveBounds DEF LiveInv, LiveTyped
<1>1. CASE Live!Served(g)
  <2>1. v3' = [v3 EXCEPT ![g].at = "served"] /\ v1' = v1 /\ v2' = v2 /\ v4' = v4 /\ v5' = v5 /\ v3[g].at = "sent"
    BY <1>1 DEF Live!Served
  <2>2. g = v1.gen => v1.phase # "RECORDING"  BY <1>0, <2>1 DEF Caused
  <2> QED  BY <1>0, <2>1, <2>2, IntentMoves
<1>2. CASE Live!Replied(g) \/ Live!Failed(g)
  <2>1. v3' = [v3 EXCEPT ![g].at = "over"] /\ v4' = v4 /\ v5' = v5 /\ v2' = Live!RequestOver(g)
    BY <1>2 DEF Live!Replied, Live!Failed
  <2>2. /\ v1.gen # g => v1' = v1
        /\ v1.gen = g => v1' = [v1 EXCEPT !.phase = "RESULT_READY", !.result = g] \/ v1' = [v1 EXCEPT !.phase = "ERROR"]
    BY <1>2 DEF Live!Replied, Live!Failed
  <2>3. v1' \in LiveUis /\ v1'.gen = v1.gen /\ (v1'.phase \in {"RESULT_READY", "ERROR"} \/ (v1' = v1 /\ v1.gen # g))
    BY <1>0, <2>2 DEF LiveUis, LivePhases
  <2> DEFINE n == IF v2.request = g THEN 0 ELSE v2.request
  <2>4. n \in LiveNumbers  BY <1>0, LiveBounds DEF Controls
  <2>5. v2' = [v2 EXCEPT !.request = n]  BY <2>1 DEF Live!RequestOver
  <2> HIDE DEF n
  <2>6. v2' \in Controls /\ v2'.abort = v2.abort /\ v2'.audio = v2.audio /\ v2'.recorder = v2.recorder /\ v2'.stream = v2.stream
    BY <1>0, <2>4, <2>5, ControlsOff, LiveBounds
  <2> QED  BY <1>0, <2>1, <2>3, <2>6, IntentMoves
<1> QED  BY <1>1, <1>2

\* The playback.
LEMMA VoicesKeep ==
  ASSUME LiveInv,
         \/ Live!StopListening
         \/ \E v \in Live!Voices : \/ Live!SpeechReplied(v) \/ Live!SpeechPlays(v) \/ Live!SpeechAborted(v) \/ Live!SpeechFails(v)
                                   \/ \E b \in BOOLEAN : Live!ListenClicked(v, b) \/ Live!SpeechEnds(v, b)
  PROVE  LiveInv'
<1>0. /\ v1 \in LiveUis /\ v1.gen \in LiveNumbers /\ v2 \in Controls /\ v4 \in [Live!Voices -> VoiceStates] /\ Heard(v2, v4)
  BY DEF LiveInv, LiveTyped, LiveUis
<1>p. ASSUME NEW phase \in {"RESULT_READY", "IDLE", "ERROR", "TTS_LOADING", "TTS_PLAYING"}
      PROVE  LET u == [v1 EXCEPT !.phase = phase] IN u \in LiveUis /\ u.gen = v1.gen /\ u.phase = phase
  BY <1>0 DEF LiveUis, LivePhases
<1>a. LET u == [v1 EXCEPT !.phase = Live!AfterSpeech] IN
      u \in LiveUis /\ u.gen = v1.gen /\ (u.phase = v1.phase \/ u.phase \notin {"PROCESSING", "RECORDING"})
  <2>1. Live!AfterSpeech \in {v1.phase, "RESULT_READY", "IDLE"}  BY DEF Live!AfterSpeech
  <2> HIDE DEF Live!AfterSpeech
  <2> QED  BY <1>0, <2>1 DEF LiveUis, LivePhases
<1>s. /\ Live!SpeechOff(v2) \in Controls /\ Live!SpeechOff(v2).stream = v2.stream /\ Live!SpeechOff(v2).recorder = v2.recorder
      /\ Live!SpeechOff(v2).abort = 0 /\ Live!SpeechOff(v2).audio = 0
  BY <1>0, ControlsOff, LiveBounds
<1>h. Live!Silent \in [Live!Voices -> VoiceStates] /\ Heard(Live!SpeechOff(v2), Live!Silent)
  BY <1>s, SilentRow DEF Heard
<1>v. ASSUME NEW s \in [Live!Voices -> VoiceStates], NEW v \in Live!Voices, NEW at \in {"starting", "playing", "over"}
      PROVE  LET t == [s EXCEPT ![v].at = at] IN
             t \in [Live!Voices -> VoiceStates] /\ t[v].at = at /\ \A w \in Live!Voices : w # v => t[w] = s[w]
  <2> DEFINE z == [s[v] EXCEPT !.at = at]
  <2>1. z \in VoiceStates /\ z.at = at  BY DEF VoiceStates
  <2>2. [s EXCEPT ![v].at = at] = [s EXCEPT ![v] = z]  OBVIOUS
  <2> HIDE DEF z
  <2> QED  BY <2>1, <2>2
<1>4. ASSUME NEW v \in Live!Voices, NEW at \in {"starting", "playing", "over"}
      PROVE  LET s == [v4 EXCEPT ![v].at = at] IN
             s \in [Live!Voices -> VoiceStates] /\ s[v].at = at /\ \A w \in Live!Voices : w # v => s[w] = v4[w]
  <2> DEFINE z == [v4[v] EXCEPT !.at = at]
  <2>1. z \in VoiceStates /\ z.at = at  BY <1>0 DEF VoiceStates
  <2>2. [v4 EXCEPT ![v].at = at] = [v4 EXCEPT ![v] = z]  OBVIOUS
  <2> HIDE DEF z
  <2> QED  BY <1>0, <2>1, <2>2
<1>1. ASSUME v2' = Live!SpeechOff(v2), v3' = v3, v5' = v5,
             v4' = Live!Silent \/ \E v \in Live!Voices : v4' = Live!Over(Live!Silent, v),
             \/ v1' = v1 \/ v1' = [v1 EXCEPT !.phase = "ERROR"] \/ v1' = [v1 EXCEPT !.phase = Live!AfterSpeech]
      PROVE  LiveInv'
  <2>1. v1' \in LiveUis /\ v1'.gen = v1.gen /\ (v1'.phase = v1.phase \/ v1'.phase \notin {"PROCESSING", "RECORDING"})
    BY <1>0, <1>1, <1>p, <1>a
  <2>2. v4' \in [Live!Voices -> VoiceStates] /\ Heard(v2', v4')
    <3>1. CASE v4' = Live!Silent  BY <1>1, <1>h, <3>1
    <3>2. ASSUME NEW v \in Live!Voices, v4' = Live!Over(Live!Silent, v) PROVE v4' \in [Live!Voices -> VoiceStates] /\ Heard(v2', v4')
      <4>1. /\ v4' \in [Live!Voices -> VoiceStates] /\ v4'[v].at = "over"
            /\ \A w \in Live!Voices : w # v => v4'[w] = Live!Silent[w]
        BY <1>h, <1>v, <3>2 DEF Live!Over
      <4> QED  BY <1>1, <1>h, <4>1 DEF Heard
    <3> QED  BY <1>1, <3>1, <3>2
  <2> QED  BY <1>1, <1>s, <2>1, <2>2, SpeechMoves
\* A playback is over, and the page may give up its request with it.
<1>o. ASSUME NEW v \in Live!Voices, v1' = v1, v3' = v3, v5' = v5, v2' = v2 \/ v2' = Live!Dropped(v), v4' = Live!Over(v4, v)
      PROVE  LiveInv'
  <2>1. v4' \in [Live!Voices -> VoiceStates] /\ v4'[v].at = "over" /\ \A w \in Live!Voices : w # v => v4'[w] = v4[w]
    BY <1>4, <1>o DEF Live!Over
  <2>2. /\ v2' \in Controls /\ v2'.audio = v2.audio /\ v2'.stream = v2.stream /\ v2'.recorder = v2.recorder
        /\ v2'.abort = v2.abort \/ v2.audio = 0
    <3> DEFINE n == IF v2.abort = v /\ v2.audio = 0 /\ ~v4[v].history THEN 0 ELSE v2.abort
    <3>1. n \in VoiceNumbers /\ (n = v2.abort \/ v2.audio = 0)  BY <1>0, LiveBounds DEF Controls
    <3>2. v2' = v2 \/ v2' = [v2 EXCEPT !.abort = n]  BY <1>o DEF Live!Dropped
    <3> HIDE DEF n
    <3> QED  BY <1>0, <3>1, <3>2 DEF Controls
  <2>3. Heard(v2', v4')  BY <1>0, <2>1, <2>2 DEF Heard
  <2> QED  BY <1>0, <1>o, <2>1, <2>2, <2>3, SpeechMoves
<1>2. CASE Live!StopListening
  BY <1>1, <1>2 DEF Live!StopListening
<1>3. ASSUME NEW v \in Live!Voices, Live!SpeechFails(v) \/ Live!SpeechAborted(v) PROVE LiveInv'
  <2>1. CASE Live!SpeechAborted(v)  BY <1>o, <2>1 DEF Live!SpeechAborted
  <2>2. CASE Live!SpeechFails(v) /\ (v1.gen = v4[v].gen \/ v4[v].history)
    <3>1. v1' = v1 \/ v1' = [v1 EXCEPT !.phase = "ERROR"]  BY <2>2 DEF Live!SpeechFails
    <3> QED  BY <1>1, <2>2, <3>1 DEF Live!SpeechFails
  <2>3. CASE Live!SpeechFails(v) /\ ~(v1.gen = v4[v].gen \/ v4[v].history)
    BY <1>o, <2>3 DEF Live!SpeechFails
  <2> QED  BY <1>3, <2>1, <2>2, <2>3
<1>8. ASSUME NEW v \in Live!Voices, NEW ok \in BOOLEAN, Live!SpeechEnds(v, ok) PROVE LiveInv'
  <2>1. CASE v1.gen = v4[v].gen \/ v4[v].history
    <3>1. v1' = [v1 EXCEPT !.phase = "ERROR"] \/ v1' = [v1 EXCEPT !.phase = Live!AfterSpeech]
      BY <1>8, <2>1 DEF Live!SpeechEnds
    <3> QED  BY <1>1, <1>8, <2>1, <3>1 DEF Live!SpeechEnds
  <2>2. CASE ~(v1.gen = v4[v].gen \/ v4[v].history)
    <3>1. /\ v1' = v1 /\ v2' = v2 /\ v3' = v3 /\ v5' = v5
          /\ v4' = [v4 EXCEPT ![v].at = IF v4[v].at = "playing" THEN "over" ELSE v4[v].at]
      BY <1>8, <2>2 DEF Live!SpeechEnds
    <3>2. CASE v4[v].at = "playing"  BY <1>o, <3>1, <3>2 DEF Live!Over
    <3>3. CASE v4[v].at # "playing"
      <4>1. v4' = v4  BY <1>0, <3>1, <3>3 DEF VoiceStates
      <4> QED  BY <1>0, <3>1, <4>1, SpeechMoves
    <3> QED  BY <3>2, <3>3
  <2> QED  BY <2>1, <2>2
<1>5. ASSUME NEW v \in Live!Voices, Live!SpeechReplied(v) PROVE LiveInv'
  <2>1. v1' = v1 /\ v3' = v3 /\ v5' = v5 /\ v4[v].at = "asked"  BY <1>5 DEF Live!SpeechReplied
  <2>2. CASE v1.gen = v4[v].gen /\ v2.abort = v
    <3>1. v4' = [v4 EXCEPT ![v].at = "starting"] /\ v2' = [v2 EXCEPT !.audio = v]  BY <1>5, <2>2
                              DEF Live!SpeechReplied
    <3>2. v2' \in Controls /\ v2'.audio = v /\ v2'.abort = v /\ v2'.stream = v2.stream /\ v2'.recorder = v2.recorder
      BY <1>0, <2>2, <3>1, LiveBounds DEF Controls
    <3>3. v4' \in [Live!Voices -> VoiceStates] /\ \A w \in Live!Voices : w # v => v4'[w] = v4[w]  BY <1>4, <3>1
    <3>4. \A w \in Live!Voices : v4[w].at \notin {"starting", "playing"}
      BY <1>0, <2>1, <2>2, LiveBounds DEF Heard
    <3>5. Heard(v2', v4')  BY <3>2, <3>3, <3>4 DEF Heard
    <3> QED  BY <1>0, <2>1, <3>2, <3>3, <3>5, SpeechMoves
  <2>3. CASE ~(v1.gen = v4[v].gen /\ v2.abort = v)
    BY <1>5, <1>o, <2>3 DEF Live!SpeechReplied
  <2> QED  BY <2>2, <2>3
<1>6. ASSUME NEW v \in Live!Voices, Live!SpeechPlays(v) PROVE LiveInv'
  <2>1. CASE v1.gen = v4[v].gen /\ v2.audio = v
    <3>1. /\ v1' = [v1 EXCEPT !.phase = "TTS_PLAYING"] /\ v2' = v2 /\ v3' = v3 /\ v5' = v5
          /\ v4' = [v4 EXCEPT ![v].at = "playing"]
      BY <1>6, <2>1 DEF Live!SpeechPlays
    <3>2. v4' \in [Live!Voices -> VoiceStates] /\ \A w \in Live!Voices : w # v => v4'[w] = v4[w]  BY <1>4, <3>1
    <3>3. Heard(v2', v4')  BY <1>0, <2>1, <3>1, <3>2 DEF Heard
    <3>4. v1' \in LiveUis /\ v1'.gen = v1.gen /\ v1'.phase = "TTS_PLAYING"  BY <1>p, <3>1
    <3> QED  BY <1>0, <3>1, <3>2, <3>3, <3>4, SpeechMoves
  <2>2. CASE ~(v1.gen = v4[v].gen /\ v2.audio = v)
    BY <1>1, <1>6, <2>2 DEF Live!SpeechPlays
  <2> QED  BY <2>1, <2>2
<1>7. ASSUME NEW v \in Live!Voices, NEW b \in BOOLEAN, Live!ListenClicked(v, b) PROVE LiveInv'
  <2> DEFINE z == [at |-> "asked", gen |-> v1.gen, history |-> b]
  <2>1. /\ v4' = [Live!Silent EXCEPT ![v] = z] /\ v2' = [Live!SpeechOff(v2) EXCEPT !.abort = v]
        /\ v1' = [v1 EXCEPT !.phase = "TTS_LOADING"] /\ v3' = v3 /\ v5' = v5
    BY <1>7 DEF Live!ListenClicked, Live!Listen
  <2>2. z \in VoiceStates /\ z.at = "asked"  BY <1>0 DEF VoiceStates
  <2> HIDE DEF z
  <2>3. v4' \in [Live!Voices -> VoiceStates] /\ \A w \in Live!Voices : v4'[w].at \notin {"starting", "playing"}
    BY <2>1, <2>2, SilentRow
  <2>4. v2' \in Controls /\ v2'.stream = v2.stream /\ v2'.recorder = v2.recorder /\ v2'.audio = 0
    <3> DEFINE c == Live!SpeechOff(v2)
    <3>1. v2' = [c EXCEPT !.abort = v] /\ v \in VoiceNumbers  BY <2>1, LiveBounds
    <3>2. c \in Controls /\ c.stream = v2.stream /\ c.recorder = v2.recorder /\ c.audio = 0  BY <1>s
    <3> HIDE DEF c
    <3> QED  BY <3>1, <3>2 DEF Controls
  <2>5. Heard(v2', v4')  BY <2>3, <2>4 DEF Heard
  <2>6. v1' \in LiveUis /\ v1'.gen = v1.gen /\ v1'.phase = "TTS_LOADING"  BY <1>p, <2>1
  <2> QED  BY <1>0, <2>1, <2>3, <2>4, <2>5, <2>6, SpeechMoves
<1> QED  BY <1>2, <1>3, <1>5, <1>6, <1>7, <1>8

LEMMA LiveInitEstablishes == ASSUME Live!Init PROVE LiveInv
<1>1. Live!NoIntent \in IntentStates /\ ~Live!NoIntent.live /\ Live!NoIntent.at = "none"
  BY LiveBounds DEF Live!NoIntent, IntentStates
<1>2. Live!NoVoice \in VoiceStates /\ Live!NoVoice.at = "none"
  BY LiveBounds DEF Live!NoVoice, VoiceStates
<1>3. v1 \in LiveUis /\ v1.phase = "IDLE" /\ v1.gen = 0  BY LiveBounds DEF Live!Init, LiveUis, LivePhases
<1>4. v2 \in Controls /\ v2.audio = 0  BY LiveBounds DEF Live!Init, Controls
<1>5. v5 \in RequestIds /\ v5.current = 0  BY LiveBounds DEF Live!Init, RequestIds
<1>6. v3 = [g \in Live!Gens |-> Live!NoIntent] /\ v4 = [v \in Live!Voices |-> Live!NoVoice]  BY DEF Live!Init
<1>7. LiveTyped  BY <1>1, <1>2, <1>3, <1>4, <1>5, <1>6, LiveBounds DEF LiveTyped
<1>8. MicHeld(v1, v2, v3) /\ Caused(v1, v3) /\ Heard(v2, v4)
  BY <1>1, <1>2, <1>3, <1>4, <1>6 DEF MicHeld, Caused, Heard
<1> QED  BY <1>7, <1>8 DEF LiveInv

LEMMA LiveStepKeeps == ASSUME LiveInv, [Live!Next]_Live!vars PROVE LiveInv'
<1>1. CASE UNCHANGED Live!vars
  BY <1>1 DEF Live!vars, LiveInv, LiveTyped
<1> QED  BY <1>1, ClicksKeep, MicrophoneKeeps, RequestKeeps, VoicesKeep DEF Live!Next

LivePart == which = "live" => LiveInv

LEMMA LiveStart == Init => LivePart
  BY PagesConstants, LiveInitEstablishes DEF Init, LivePart

LEMMA LiveStep == LivePart /\ [Next]_vars => LivePart'
<1> SUFFICES ASSUME LivePart, [Next]_vars PROVE LivePart'
  OBVIOUS
<1>1. CASE which = "live"
  <2>1. [Live!Next]_Live!vars  BY <1>1 DEF Next, vars, Step, Live!vars
  <2>2. which' = "live"  BY <1>1 DEF Next, vars, Step
  <2> QED  BY <1>1, <2>1, <2>2, PagesConstants, LiveStepKeeps DEF LivePart
<1>2. CASE which # "live"  BY <1>2 DEF Next, vars, Step, LivePart
<1> QED  BY <1>1, <1>2

-----------------------------------------------------------------------------
(* The history of translations. *)


ItemNumbers == 0 .. HistoryItems
HistoryServers == [last : ItemNumbers, alive : SUBSET History!Items, pinned : SUBSET History!Items]
HistoryLists ==
  [items : SUBSET History!Items, pinned : SUBSET History!Items, next : ItemNumbers, more : BOOLEAN, behind : BOOLEAN]
HistoryLoads ==
  [at : {"none", "asked", "served"}, append : BOOLEAN, before : ItemNumbers,
   items : SUBSET History!Items, pinned : SUBSET History!Items, more : BOOLEAN]

HistoryTyped ==
  /\ v1 \in HistoryServers /\ v2 \in HistoryLists /\ v3 \in HistoryLoads
  /\ v4 \in [History!Items -> {"none", "pin", "unpin", "delete", "served"}]

\* Nothing that is alive is missing between two of the items.
Gapless(items, alive) == \A i, j \in items : \A k \in alive : i <= k /\ k <= j => k \in items

\* But for the items an edit of which the server took, they are what the server has.
FreshItems(items, pinned, s, e) ==
  \A i \in items : \/ e[i] = "served"
                   \/ i \in s.alive /\ (i \in pinned <=> i \in s.pinned)

ListInv(s, l) ==
  /\ s.alive \subseteq 1 .. s.last
  /\ l.items \subseteq 1 .. s.last /\ l.pinned \subseteq l.items
  /\ Gapless(l.items, s.alive)
  /\ l.more => l.next \in l.items /\ \A i \in l.items : l.next <= i

LoadInv(s, l, f) ==
  /\ f.items \subseteq 1 .. s.last /\ f.pinned \subseteq f.items
  /\ Gapless(f.items, s.alive)
  /\ f.at # "none" /\ f.append => l.more /\ f.before = l.next
  /\ f.append => /\ \A i \in f.items : i < f.before
                 /\ \A i \in f.items : \A k \in s.alive : i <= k /\ k < f.before => k \in f.items
  /\ f.more => f.items # {}

FollowInv(s, l, f, e) ==
  /\ l.behind \/ (f.at # "none" /\ ~f.append) \/ FreshItems(l.items, l.pinned, s, e)
  /\ l.behind \/ f.at # "served" \/ FreshItems(f.items, f.pinned, s, e)

TranslationsInv == HistoryTyped /\ ListInv(v1, v2) /\ LoadInv(v1, v2, v3) /\ FollowInv(v1, v2, v3, v4)

LEMMA HistoryBounds ==
  /\ HistoryItems \in Nat /\ Limit \in Nat \ {0}
  /\ ItemNumbers \subseteq Nat /\ 0 \in ItemNumbers
  /\ History!Items \subseteq ItemNumbers /\ History!Items = 1 .. HistoryItems
  /\ \A i \in History!Items : i \in Nat /\ i # 0
BY PagesConstants DEF History!HistoryAssumption, ItemNumbers, History!Items

\* A load is asked for: alone, or below what is shown.
LEMMA LoadAsked ==
  ASSUME HistoryTyped, ListInv(v1, v2), LoadInv(v1, v2, v3), NEW append \in BOOLEAN,
         append => v2.more, History!Load(append)
  PROVE  /\ v2' \in HistoryLists /\ v3' \in HistoryLoads
         /\ v2'.items = v2.items /\ v2'.pinned = v2.pinned /\ v2'.next = v2.next /\ v2'.more = v2.more
         /\ v2.behind => v2'.behind
         /\ LoadInv(v1, v2', v3')
         /\ \/ v3' = v3 /\ v3.at # "none" /\ (v2'.behind \/ append)
            \/ v2' = v2 /\ v3.at = "none" /\ v3'.at = "asked" /\ v3'.append = append
<1>1. CASE History!Loading
  <2>1. v3' = v3 /\ v2' = [v2 EXCEPT !.behind = @ \/ ~append] /\ v3.at # "none"
    BY <1>1 DEF History!Load, History!Loading
  <2>2. /\ v2' \in HistoryLists /\ v2'.items = v2.items /\ v2'.pinned = v2.pinned
        /\ v2'.next = v2.next /\ v2'.more = v2.more /\ v2'.behind = (v2.behind \/ ~append)
    <3> DEFINE b == v2.behind \/ ~append
    <3>1. b \in BOOLEAN /\ v2' = [v2 EXCEPT !.behind = b]  BY <2>1 DEF HistoryTyped, HistoryLists
    <3> HIDE DEF b
    <3>2. /\ v2' \in HistoryLists /\ v2'.items = v2.items /\ v2'.pinned = v2.pinned
          /\ v2'.next = v2.next /\ v2'.more = v2.more /\ v2'.behind = b
      BY <3>1 DEF HistoryTyped, HistoryLists
    <3> QED  BY <3>2 DEF b
  <2> QED  BY <2>1, <2>2 DEF LoadInv, HistoryTyped
<1>2. CASE ~History!Loading
  <2> DEFINE b == IF append THEN v2.next ELSE 0
  <2>1. b \in ItemNumbers /\ (append => b = v2.next)  BY HistoryBounds DEF HistoryTyped, HistoryLists
  <2>0. v2' = v2 /\ v3.at = "none"
        /\ v3' = [History!NoLoad EXCEPT !.at = "asked", !.append = append, !.before = b]
    BY <1>2 DEF History!Load, History!Loading
  <2> HIDE DEF b
  <2>2. v2' = v2 /\ v3.at = "none"
        /\ v3' = [at |-> "asked", append |-> append, before |-> b, items |-> {}, pinned |-> {}, more |-> FALSE]
    BY <2>0 DEF History!NoLoad
  <2>3. v3' \in HistoryLoads  BY <2>1, <2>2 DEF HistoryLoads
  <2>4. LoadInv(v1, v2', v3')  BY <2>1, <2>2 DEF LoadInv, Gapless
  <2> QED  BY <2>2, <2>3, <2>4 DEF HistoryTyped
<1> QED  BY <1>1, <1>2

\* What was asked or dropped leaves the list to follow.
LEMMA AskedFollows ==
  ASSUME HistoryTyped, ListInv(v1, v2), LoadInv(v1, v2, v3), FollowInv(v1, v2, v3, v4), NEW append \in BOOLEAN,
         append => v2.more, History!Load(append), v4' = v4, v1' = v1
  PROVE  TranslationsInv'
<1>1. /\ v2' \in HistoryLists /\ v3' \in HistoryLoads
      /\ v2'.items = v2.items /\ v2'.pinned = v2.pinned /\ v2'.next = v2.next /\ v2'.more = v2.more
      /\ v2.behind => v2'.behind
      /\ LoadInv(v1, v2', v3')
      /\ \/ v3' = v3 /\ v3.at # "none" /\ (v2'.behind \/ append)
         \/ v2' = v2 /\ v3.at = "none" /\ v3'.at = "asked" /\ v3'.append = append
  BY LoadAsked
<1>2. ListInv(v1, v2')  BY <1>1 DEF ListInv
<1>3. FollowInv(v1, v2', v3', v4)  BY <1>1 DEF FollowInv, FreshItems
<1> QED  BY <1>1, <1>2, <1>3 DEF TranslationsInv, HistoryTyped

\* The page the server reads: the last items, all of those below the cursor.
LEMMA PageRead ==
  ASSUME HistoryTyped, ListInv(v1, v2), LoadInv(v1, v2, v3), v3.at = "asked"
  PROVE  /\ History!Page \subseteq v1.alive
         /\ \A i \in History!Page : \A k \in History!Older : i <= k => k \in History!Page
         /\ History!Page # History!Older => History!Page # {}
<1>1. History!Older \subseteq v1.alive /\ History!Older \subseteq 0 .. HistoryItems
      /\ History!Older \subseteq Nat
  BY HistoryBounds DEF History!Older, HistoryTyped, HistoryServers, ItemNumbers
<1> DEFINE Above(i) == {j \in History!Older : j > i}
<1>2. ASSUME NEW S, S \subseteq History!Older
      PROVE  IsFiniteSet(S) /\ History!Cardinality(S) = Cardinality(S)
  <2>1. IsFiniteSet(0 .. HistoryItems)  BY HistoryBounds, FS_Interval
  <2>2. IsFiniteSet(S)  BY <1>1, <1>2, <2>1, FS_Subset
  <2> QED  BY <2>2 DEF History!Cardinality, Cardinality
<1>3. ASSUME NEW i \in History!Page, NEW k \in History!Older, i <= k PROVE k \in History!Page
  <2>1. Above(k) \subseteq Above(i)
    <3>1. ASSUME NEW j \in History!Older, j > k PROVE j > i
      BY <1>1, <1>3, <3>1 DEF History!Page
    <3> QED  BY <3>1
  <2>2. Cardinality(Above(k)) <= Cardinality(Above(i)) /\ Cardinality(Above(k)) \in Nat /\ Cardinality(Above(i)) \in Nat
    BY <1>2, <2>1, FS_Subset, FS_CardinalityType
  <2>3. Cardinality(Above(i)) < Limit
    BY <1>2 DEF History!Page
  <2> HIDE DEF Above
  <2>4. Cardinality(Above(k)) < Limit  BY <2>2, <2>3, HistoryBounds
  <2>5. History!Cardinality({j \in History!Older : j > k}) = Cardinality(Above(k))  BY <1>2 DEF Above
  <2> QED  BY <2>4, <2>5 DEF History!Page
<1>4. ASSUME History!Older # {} PROVE History!Page # {}
  <2>1. PICK m \in History!Older : \A j \in History!Older : j <= m
    BY <1>1, <1>4, HistoryBounds, GreatestNumber
  <2>2. Above(m) = {}
    <3>1. ASSUME NEW j \in History!Older PROVE ~(j > m)
      <4>1. j \in Nat /\ m \in Nat /\ j <= m  BY <1>1, <2>1
      <4> QED  BY <4>1
    <3> QED  BY <3>1
  <2>3. History!Cardinality({j \in History!Older : j > m}) = 0  BY <1>2, <2>2, FS_EmptySet
  <2>4. m \in History!Page  BY <2>3, HistoryBounds DEF History!Page
  <2> QED  BY <2>4
<1>5. History!Page \subseteq History!Older  BY DEF History!Page
<1> QED  BY <1>1, <1>3, <1>4, <1>5

LEMMA ServedKeepsHistory ==
  ASSUME TranslationsInv, History!LoadServed
  PROVE  TranslationsInv'
<1> DEFINE more == History!Page # History!Older
           pins == v1.pinned \cap History!Page
<1>1. /\ v3.at = "asked" /\ UNCHANGED <<v1, v2, v4>> /\ more \in BOOLEAN
      /\ v3' = [v3 EXCEPT !.at = "served", !.items = History!Page, !.pinned = pins, !.more = more]
  BY DEF History!LoadServed
<1>2. /\ History!Page \subseteq v1.alive
      /\ \A i \in History!Page : \A k \in History!Older : i <= k => k \in History!Page
      /\ more => History!Page # {}
  BY <1>1, PageRead DEF TranslationsInv
<1>3. pins \subseteq History!Page  OBVIOUS
<1>4. \A i \in History!Page : (v3.before = 0 \/ i < v3.before)
  BY DEF History!Page, History!Older
<1>5. \A k \in v1.alive : (v3.before = 0 \/ k < v3.before) => k \in History!Older
  BY DEF History!Older
<1>6. \A i \in History!Page : i \in pins <=> i \in v1.pinned  OBVIOUS
<1> HIDE DEF more, pins
<1>7. History!Page \subseteq History!Items /\ v1.alive \subseteq 1 .. v1.last /\ v1.last \in Nat
  BY <1>2, HistoryBounds DEF TranslationsInv, HistoryTyped, HistoryServers, ListInv
<1>8. v3 \in HistoryLoads  BY DEF TranslationsInv, HistoryTyped
<1>9. /\ v3' \in HistoryLoads /\ v3'.at = "served" /\ v3'.append = v3.append /\ v3'.before = v3.before
      /\ v3'.items = History!Page /\ v3'.pinned = pins /\ v3'.more = more
  <2>1. pins \subseteq History!Items  BY <1>3, <1>7
  <2> QED  BY <1>1, <1>7, <1>8, <2>1 DEF HistoryLoads
<1>10. v3.append => v3.before = v2.next /\ v3.before # 0 /\ v3.before \in Nat
  <2>1. v3.append => v2.more /\ v3.before = v2.next
    BY <1>1 DEF TranslationsInv, LoadInv
  <2>2. v2.more => v2.next \in History!Items  BY DEF TranslationsInv, ListInv, HistoryTyped, HistoryLists
  <2> QED  BY <2>1, <2>2, HistoryBounds
<1>11. \A i \in History!Page : \A k \in v1.alive : i \in Nat /\ k \in Nat
  BY <1>2, <1>7
<1>12. Gapless(History!Page, v1.alive)
  <2>1. ASSUME NEW i \in History!Page, NEW j \in History!Page, NEW k \in v1.alive, i <= k, k <= j
        PROVE  k \in History!Page
    <3>1. v3.before = 0 \/ k < v3.before
      <4>1. v3.before \in Nat /\ j \in Nat /\ k \in Nat  BY <1>8, <1>2, <1>11, HistoryBounds DEF HistoryLoads
      <4> QED  BY <1>4, <2>1, <4>1
    <3> QED  BY <1>2, <1>5, <2>1, <3>1
  <2> QED  BY <2>1 DEF Gapless
<1>13. LoadInv(v1, v2, v3')
  BY <1>1, <1>2, <1>3, <1>4, <1>5, <1>7, <1>9, <1>10, <1>12 DEF LoadInv, TranslationsInv
<1>14. FollowInv(v1, v2, v3', v4)
  <2>1. FreshItems(History!Page, pins, v1, v4)  BY <1>2, <1>6 DEF FreshItems
  <2> QED  BY <1>1, <1>9, <2>1 DEF FollowInv, TranslationsInv
<1> QED  BY <1>1, <1>9, <1>13, <1>14 DEF TranslationsInv, HistoryTyped

LEMMA RepliedKeepsHistory ==
  ASSUME TranslationsInv, History!LoadReplied
  PROVE  TranslationsInv'
<1> DEFINE items == IF v3.append THEN v2.items \cup v3.items ELSE v3.items
           pins == IF v3.append THEN v2.pinned \cup v3.pinned ELSE v3.pinned
           least == CHOOSE i \in v3.items : \A j \in v3.items : i <= j
           next == IF v3.more THEN least ELSE 0
<1>1. /\ v3.at = "served" /\ UNCHANGED <<v1, v4>> /\ v3' = History!NoLoad
      /\ v2' = [items |-> items, pinned |-> pins, next |-> next, more |-> v3.more, behind |-> v2.behind]
  BY DEF History!LoadReplied
<1>2. /\ v3.more \in BOOLEAN /\ v2.behind \in BOOLEAN /\ v3.append \in BOOLEAN
      /\ v3.items \subseteq History!Items /\ v2.items \subseteq History!Items
      /\ v3.items \subseteq Nat /\ v2.items \subseteq Nat
      /\ v3.pinned \subseteq v3.items /\ v2.pinned \subseteq v2.items
      /\ v1.alive \subseteq Nat /\ v3.before \in Nat
  BY HistoryBounds DEF TranslationsInv, HistoryTyped, HistoryLists, HistoryLoads, HistoryServers, ListInv, LoadInv
<1>3. v3.more => least \in v3.items /\ \A j \in v3.items : least <= j
  <2>1. v3.more => v3.items # {}  BY DEF TranslationsInv, LoadInv
  <2> QED  BY <1>2, <2>1, LeastNumber
<1>4. v3.append => v2.more /\ v3.before = v2.next /\ v2.next \in v2.items /\ \A i \in v2.items : v2.next <= i
  BY <1>1 DEF TranslationsInv, LoadInv, ListInv
<1>5. v3.append => \A i \in v3.items : i < v3.before
  BY DEF TranslationsInv, LoadInv
<1>6. v3.append => \A i \in v3.items : \A k \in v1.alive : i <= k /\ k < v3.before => k \in v3.items
  BY DEF TranslationsInv, LoadInv
<1>7. Gapless(v2.items, v1.alive) /\ Gapless(v3.items, v1.alive)
  BY DEF TranslationsInv, LoadInv, ListInv
<1> HIDE DEF least
<1>8. /\ items \subseteq History!Items /\ pins \subseteq items
      /\ next \in ItemNumbers
      /\ v3.more => next \in items /\ \A i \in items : next <= i
  <2>1. items \subseteq History!Items /\ pins \subseteq items  BY <1>2
  <2>2. next \in ItemNumbers  BY <1>2, <1>3, HistoryBounds
  <2>3. ASSUME v3.more PROVE next \in items /\ \A i \in items : next <= i
    <3>1. next = least /\ next \in items  BY <1>3, <2>3
    <3>2. ASSUME NEW i \in items PROVE least <= i
      <4>1. CASE i \in v3.items  BY <1>3, <2>3, <4>1
      <4>2. CASE i \notin v3.items
        <5>1. v3.append /\ i \in v2.items  BY <4>2
        <5>2. least < v3.before /\ v3.before <= i  BY <1>3, <1>4, <1>5, <2>3, <5>1
        <5>3. least \in Nat /\ i \in Nat  BY <1>2, <1>3, <2>3, <5>1
        <5> QED  BY <1>2, <5>2, <5>3
      <4> QED  BY <4>1, <4>2
    <3> QED  BY <3>1, <3>2
  <2> QED  BY <2>1, <2>2, <2>3
<1>9. Gapless(items, v1.alive)
  <2>1. CASE ~v3.append  BY <1>7, <2>1
  <2>2. CASE v3.append
    <3>1. items = v2.items \cup v3.items  BY <2>2
    <3> HIDE DEF items
    <3>2. ASSUME NEW i \in items, NEW j \in items, NEW k \in v1.alive, i <= k, k <= j PROVE k \in items
      <4>0. i \in Nat /\ j \in Nat /\ k \in Nat /\ v2.next \in Nat /\ v3.before = v2.next  BY <1>2, <1>4, <2>2, <3>1
      <4>1. CASE k < v3.before
        <5>1. i \in v3.items
          <6>1. i < v2.next  BY <3>2, <4>0, <4>1
          <6>2. i \notin v2.items
            <7>1. i \in v2.items => v2.next <= i  BY <1>4, <2>2
            <7> QED  BY <4>0, <6>1, <7>1
          <6> QED  BY <3>1, <6>2
        <5> QED  BY <1>6, <2>2, <3>1, <3>2, <4>1, <5>1
      <4>2. CASE ~(k < v3.before)
        <5>1. v2.next <= k /\ v2.next \in v2.items  BY <1>4, <2>2, <4>0, <4>2
        <5>2. j \in v2.items
          <6>1. j \in v3.items => j < v3.before  BY <1>5, <2>2
          <6>2. j \notin v3.items  BY <3>2, <4>0, <4>2, <6>1
          <6> QED  BY <3>1, <6>2
        <5> QED  BY <1>7, <3>1, <3>2, <5>1, <5>2 DEF Gapless
      <4> QED  BY <4>1, <4>2
    <3> QED  BY <3>2 DEF Gapless
  <2> QED  BY <2>1, <2>2
<1>10. items \subseteq 1 .. v1.last
  BY DEF TranslationsInv, LoadInv, ListInv
<1>11. v2.behind \/ FreshItems(items, pins, v1, v4)
  <2> SUFFICES ASSUME ~v2.behind PROVE FreshItems(items, pins, v1, v4)  OBVIOUS
  <2>1. FreshItems(v3.items, v3.pinned, v1, v4)  BY <1>1 DEF TranslationsInv, FollowInv
  <2>2. CASE ~v3.append  BY <2>1, <2>2
  <2>3. CASE v3.append
    <3>1. FreshItems(v2.items, v2.pinned, v1, v4)  BY <1>1, <2>3 DEF TranslationsInv, FollowInv
    <3>2. v2.items \cap v3.items = {}
      <4>1. ASSUME NEW i \in v2.items, i \in v3.items PROVE FALSE
        <5>1. v2.next <= i /\ i < v2.next /\ i \in Nat /\ v2.next \in Nat  BY <1>2, <1>4, <1>5, <2>3, <4>1
        <5> QED  BY <5>1
      <4> QED  BY <4>1
    <3>3. items = v2.items \cup v3.items /\ pins = v2.pinned \cup v3.pinned  BY <2>3
    <3>4. ASSUME NEW i \in v2.items
          PROVE  v4[i] = "served" \/ (i \in v1.alive /\ (i \in pins <=> i \in v1.pinned))
      <4>1. i \in pins <=> i \in v2.pinned  BY <1>2, <3>2, <3>3
      <4> QED  BY <3>1, <4>1 DEF FreshItems
    <3>5. ASSUME NEW i \in v3.items
          PROVE  v4[i] = "served" \/ (i \in v1.alive /\ (i \in pins <=> i \in v1.pinned))
      <4>1. i \in pins <=> i \in v3.pinned  BY <1>2, <3>2, <3>3
      <4> QED  BY <2>1, <4>1 DEF FreshItems
    <3> HIDE DEF items, pins
    <3> QED  BY <3>3, <3>4, <3>5 DEF FreshItems
  <2> QED  BY <2>2, <2>3
<1> HIDE DEF items, pins, next
<1>12. /\ v2' \in HistoryLists /\ v2'.items = items /\ v2'.pinned = pins /\ v2'.next = next
       /\ v2'.more = v3.more /\ v2'.behind = v2.behind
  <2>1. pins \subseteq History!Items  BY <1>8
  <2> QED  BY <1>1, <1>2, <1>8, <2>1 DEF HistoryLists
<1>13. /\ v3' \in HistoryLoads /\ v3'.at = "none" /\ ~v3'.append /\ v3'.items = {} /\ v3'.pinned = {} /\ ~v3'.more
  BY <1>1, HistoryBounds DEF History!NoLoad, HistoryLoads
<1>14. ListInv(v1, v2')
  BY <1>8, <1>9, <1>10, <1>12 DEF TranslationsInv, ListInv
<1>15. LoadInv(v1, v2', v3')  BY <1>13 DEF LoadInv, Gapless
<1>16. FollowInv(v1, v2', v3', v4)  BY <1>11, <1>12, <1>13 DEF FollowInv
<1> QED  BY <1>1, <1>12, <1>13, <1>14, <1>15, <1>16 DEF TranslationsInv, HistoryTyped

LEMMA FailedKeepsHistory ==
  ASSUME TranslationsInv, History!LoadFailed
  PROVE  TranslationsInv'
<1>1. v3' = History!NoLoad /\ v2' = [v2 EXCEPT !.behind = TRUE] /\ UNCHANGED <<v1, v4>>
  BY DEF History!LoadFailed
<1>2. /\ v2' \in HistoryLists /\ v2'.items = v2.items /\ v2'.pinned = v2.pinned /\ v2'.next = v2.next
      /\ v2'.more = v2.more /\ v2'.behind = TRUE
  BY <1>1 DEF TranslationsInv, HistoryTyped, HistoryLists
<1>3. /\ v3' \in HistoryLoads /\ v3'.at = "none" /\ ~v3'.append /\ v3'.items = {} /\ v3'.pinned = {} /\ ~v3'.more
  BY <1>1, HistoryBounds DEF History!NoLoad, HistoryLoads
<1>4. LoadInv(v1, v2', v3')  BY <1>3 DEF LoadInv, Gapless
<1>5. ListInv(v1, v2')  BY <1>2 DEF TranslationsInv, ListInv
<1>6. FollowInv(v1, v2', v3', v4)  BY <1>2, <1>3 DEF FollowInv
<1> QED  BY <1>1, <1>2, <1>3, <1>4, <1>5, <1>6 DEF TranslationsInv, HistoryTyped

\* A translation is the newest item.
LEMMA TranslatedKeepsHistory ==
  ASSUME TranslationsInv, History!Translated
  PROVE  TranslationsInv'
<1> DEFINE n == v1.last + 1
<1>1. /\ v1.last < HistoryItems /\ v1' = [v1 EXCEPT !.last = @ + 1, !.alive = @ \cup {v1.last + 1}]
      /\ History!Load(FALSE) /\ v4' = v4
  BY DEF History!Translated
<1>2. v1 \in HistoryServers /\ v1.last \in Nat  BY HistoryBounds DEF TranslationsInv, HistoryTyped, HistoryServers
<1>3. n \in History!Items /\ n \in Nat /\ n \in ItemNumbers /\ v1.last < n  BY <1>1, <1>2, HistoryBounds DEF ItemNumbers
<1>4. v1' \in HistoryServers /\ v1'.last = n /\ v1'.alive = v1.alive \cup {n} /\ v1'.pinned = v1.pinned
  <2>1. v1' = [v1 EXCEPT !.last = n, !.alive = v1.alive \cup {n}]  BY <1>1, <1>2 DEF HistoryServers
  <2> HIDE DEF n
  <2> QED  BY <1>2, <1>3, <2>1 DEF HistoryServers
<1>5. /\ v2' \in HistoryLists /\ v3' \in HistoryLoads
      /\ v2'.items = v2.items /\ v2'.pinned = v2.pinned /\ v2'.next = v2.next /\ v2'.more = v2.more
      /\ v2.behind => v2'.behind
      /\ LoadInv(v1, v2', v3')
      /\ \/ v3' = v3 /\ v3.at # "none" /\ (v2'.behind \/ FALSE)
         \/ v2' = v2 /\ v3.at = "none" /\ v3'.at = "asked" /\ v3'.append = FALSE
  BY <1>1, LoadAsked DEF TranslationsInv
<1> HIDE DEF n
<1>6. ASSUME NEW S, S \subseteq 1 .. v1.last PROVE S \subseteq 1 .. n /\ \A i \in S : i < n /\ i \in Nat
  <2>1. ASSUME NEW i \in S PROVE i \in 1 .. n /\ i < n /\ i \in Nat
    <3>1. i \in 1 .. v1.last  BY <1>6
    <3> DEFINE l == v1.last
    <3>2. i \in 1 .. l /\ l \in Nat /\ l < n  BY <1>2, <1>3, <3>1
    <3> HIDE DEF l
    <3> QED  BY <1>3, <3>2
  <2> QED  BY <2>1
<1>7. ASSUME NEW S, S \subseteq 1 .. v1.last, Gapless(S, v1.alive) PROVE Gapless(S, v1'.alive)
  <2>0. \A j \in S : j < n /\ j \in Nat  BY <1>6, <1>7
  <2>1. \A j \in S : ~(n <= j)  BY <1>3, <2>0
  <2> QED  BY <1>4, <1>7, <2>1 DEF Gapless
<1>8. v1'.alive \subseteq 1 .. n
  <2>1. v1.alive \subseteq 1 .. v1.last /\ n \in 1 .. n  BY <1>3, <1>2 DEF TranslationsInv, ListInv, n
  <2> QED  BY <1>4, <1>6, <2>1
<1>9. ListInv(v1', v2')
  BY <1>4, <1>5, <1>6, <1>7, <1>8 DEF TranslationsInv, ListInv
<1>10. LoadInv(v1', v2', v3')
  <2>1. ASSUME v3'.append PROVE v3'.before <= v1.last /\ v3'.before \in Nat
    <3>1. v3' = v3 /\ v3.at # "none"  BY <1>5, <2>1
    <3>2. v3.before \in v2.items  BY <2>1, <3>1 DEF TranslationsInv, LoadInv, ListInv
    <3> QED  BY <3>1, <3>2, <1>2 DEF TranslationsInv, ListInv
  <2>2. v3'.append => ~(n < v3'.before)  BY <2>1, <1>2, <1>3
  <2> QED  BY <1>4, <1>5, <1>6, <1>7, <2>2 DEF LoadInv
<1>11. FollowInv(v1', v2', v3', v4)
  <2>1. ASSUME NEW S, NEW P, FreshItems(S, P, v1, v4) PROVE FreshItems(S, P, v1', v4)
    BY <1>4, <2>1 DEF FreshItems
  <2> QED  BY <1>5, <2>1 DEF TranslationsInv, FollowInv
<1> QED  BY <1>1, <1>4, <1>5, <1>9, <1>10, <1>11 DEF TranslationsInv, HistoryTyped

LEMMA EditKeepsHistory ==
  ASSUME TranslationsInv, NEW i \in History!Items,
         History!EditClicked(i) \/ History!EditServed(i) \/ History!EditReplied(i) \/ History!EditFailed(i)
  PROVE  TranslationsInv'
<1> DEFINE States == {"none", "pin", "unpin", "delete", "served"}
<1>0. v4 \in [History!Items -> States]  BY DEF TranslationsInv, HistoryTyped
<1>a. v2.items \subseteq History!Items /\ v3.items \subseteq History!Items
  BY DEF TranslationsInv, HistoryTyped, HistoryLists, HistoryLoads
<1>1. CASE History!EditClicked(i)
  <2>1. PICK e \in {"delete", "pin", "unpin"} : v4' = [v4 EXCEPT ![i] = e]
    <3>1. PICK e \in {"delete", IF i \in v2.pinned THEN "unpin" ELSE "pin"} : v4' = [v4 EXCEPT ![i] = e]
      BY <1>1 DEF History!EditClicked
    <3> QED  BY <3>1
  <2>2. v4[i] = "none" /\ UNCHANGED <<v1, v2, v3>>  BY <1>1 DEF History!EditClicked
  <2>3. v4' \in [History!Items -> States] /\ \A j \in History!Items : v4[j] = "served" => v4'[j] = "served"
    BY <1>0, <2>1, <2>2
  <2>4. FollowInv(v1, v2, v3, v4')
    <3>1. ASSUME NEW S \in SUBSET History!Items, NEW P, FreshItems(S, P, v1, v4) PROVE FreshItems(S, P, v1, v4')
      BY <2>3, <3>1 DEF FreshItems
    <3> QED  BY <1>a, <3>1 DEF TranslationsInv, FollowInv
  <2> QED  BY <2>2, <2>3, <2>4 DEF TranslationsInv, HistoryTyped
<1>2. CASE History!EditServed(i)
  <2> DEFINE alive == IF v4[i] = "delete" THEN v1.alive \ {i} ELSE v1.alive
             pinned == IF v4[i] = "pin" /\ i \in v1.alive THEN v1.pinned \cup {i} ELSE v1.pinned \ {i}
  <2>1. v4' = [v4 EXCEPT ![i] = "served"] /\ UNCHANGED <<v2, v3>>  BY <1>2 DEF History!EditServed
  <2>2. v1 \in HistoryServers  BY DEF TranslationsInv, HistoryTyped
  <2>3. v1' = [v1 EXCEPT !.alive = alive, !.pinned = pinned]
    BY <1>2, <2>2 DEF History!EditServed, HistoryServers
  <2>4. /\ alive \subseteq v1.alive /\ v1.alive \ {i} \subseteq alive
        /\ alive \subseteq History!Items /\ pinned \subseteq History!Items
        /\ \A j : j # i => (j \in pinned <=> j \in v1.pinned)
    BY <2>2 DEF HistoryServers
  <2> HIDE DEF alive, pinned
  <2>5. v1' \in HistoryServers /\ v1'.last = v1.last /\ v1'.alive = alive /\ v1'.pinned = pinned
    BY <2>2, <2>3, <2>4 DEF HistoryServers
  <2>6. v4' \in [History!Items -> States] /\ v4'[i] = "served" /\ \A j \in History!Items \ {i} : v4'[j] = v4[j]
    BY <1>0, <2>1
  <2>7. ASSUME NEW S \in SUBSET History!Items, NEW P, FreshItems(S, P, v1, v4) PROVE FreshItems(S, P, v1', v4')
    BY <2>4, <2>5, <2>6, <2>7 DEF FreshItems
  <2>8. ListInv(v1', v2)  BY <2>4, <2>5 DEF TranslationsInv, ListInv, Gapless
  <2>9. LoadInv(v1', v2, v3)  BY <2>4, <2>5 DEF TranslationsInv, LoadInv, Gapless
  <2>10. FollowInv(v1', v2, v3, v4')  BY <1>a, <2>7 DEF TranslationsInv, FollowInv
  <2> QED  BY <2>1, <2>5, <2>6, <2>8, <2>9, <2>10 DEF TranslationsInv, HistoryTyped
<1>3. CASE History!EditReplied(i)
  <2>1. v4' = [v4 EXCEPT ![i] = "none"] /\ History!Load(FALSE) /\ v1' = v1  BY <1>3 DEF History!EditReplied
  <2>2. v4' \in [History!Items -> States]  BY <1>0, <2>1
  <2>3. /\ v2' \in HistoryLists /\ v3' \in HistoryLoads
        /\ v2'.items = v2.items /\ v2'.pinned = v2.pinned /\ v2'.next = v2.next /\ v2'.more = v2.more
        /\ v2.behind => v2'.behind
        /\ LoadInv(v1, v2', v3')
        /\ \/ v3' = v3 /\ v3.at # "none" /\ (v2'.behind \/ FALSE)
           \/ v2' = v2 /\ v3.at = "none" /\ v3'.at = "asked" /\ v3'.append = FALSE
    BY <2>1, LoadAsked DEF TranslationsInv
  <2>4. ListInv(v1, v2')  BY <2>3 DEF ListInv, TranslationsInv
  <2>5. FollowInv(v1, v2', v3', v4')  BY <2>3 DEF FollowInv
  <2> QED  BY <2>1, <2>2, <2>3, <2>4, <2>5 DEF TranslationsInv, HistoryTyped
<1>4. CASE History!EditFailed(i)
  <2> DEFINE b == v2.behind \/ v4[i] = "served"
  <2>1. v4' = [v4 EXCEPT ![i] = "none"] /\ v2' = [v2 EXCEPT !.behind = b] /\ UNCHANGED <<v1, v3>> /\ b \in BOOLEAN
    BY <1>4 DEF History!EditFailed, TranslationsInv, HistoryTyped, HistoryLists
  <2>2. v4' \in [History!Items -> States] /\ \A j \in History!Items \ {i} : v4'[j] = v4[j]  BY <1>0, <2>1
  <2>3. b \/ \A j \in History!Items : v4[j] = "served" => v4'[j] = "served"  BY <2>2
  <2>4. v2.behind => b  OBVIOUS
  <2> HIDE DEF b
  <2>5. /\ v2' \in HistoryLists /\ v2'.items = v2.items /\ v2'.pinned = v2.pinned /\ v2'.next = v2.next
        /\ v2'.more = v2.more /\ v2'.behind = b
    BY <2>1 DEF TranslationsInv, HistoryTyped, HistoryLists
  <2>6. ASSUME ~b, NEW S \in SUBSET History!Items, NEW P, FreshItems(S, P, v1, v4) PROVE FreshItems(S, P, v1, v4')
    BY <2>3, <2>6 DEF FreshItems
  <2>7. ListInv(v1, v2')  BY <2>5 DEF TranslationsInv, ListInv
  <2>8. LoadInv(v1, v2', v3)  BY <2>5 DEF TranslationsInv, LoadInv
  <2>9. FollowInv(v1, v2', v3, v4')  BY <1>a, <2>4, <2>5, <2>6 DEF TranslationsInv, FollowInv
  <2> QED  BY <2>1, <2>2, <2>5, <2>7, <2>8, <2>9 DEF TranslationsInv, HistoryTyped
<1> QED  BY <1>1, <1>2, <1>3, <1>4

LEMMA HistoryInitEstablishes == ASSUME History!Init PROVE TranslationsInv
<1>1. PICK n \in 0 .. HistoryItems : v1 = [last |-> n, alive |-> 1 .. n, pinned |-> {}]
  BY DEF History!Init
<1>2. /\ v2 = [items |-> {}, pinned |-> {}, next |-> 0, more |-> FALSE, behind |-> FALSE]
      /\ v3 = [at |-> "asked", append |-> FALSE, before |-> 0, items |-> {}, pinned |-> {}, more |-> FALSE]
      /\ v4 = [i \in History!Items |-> "none"]
  BY DEF History!Init, History!NoLoad
<1>3. v1 \in HistoryServers
  <2>1. 1 .. n \subseteq History!Items /\ n \in ItemNumbers  BY HistoryBounds DEF ItemNumbers
  <2> QED  BY <1>1, <2>1 DEF HistoryServers
<1>4. v2 \in HistoryLists /\ v3 \in HistoryLoads  BY <1>2, HistoryBounds DEF HistoryLists, HistoryLoads
<1>5. ListInv(v1, v2) /\ LoadInv(v1, v2, v3)  BY <1>1, <1>2 DEF ListInv, LoadInv, Gapless
<1>6. FollowInv(v1, v2, v3, v4)  BY <1>2 DEF FollowInv, FreshItems
<1> QED  BY <1>2, <1>3, <1>4, <1>5, <1>6 DEF TranslationsInv, HistoryTyped

LEMMA HistoryStepKeeps == ASSUME TranslationsInv, [History!Next]_History!vars PROVE TranslationsInv'
<1>1. CASE History!RefreshClicked
  BY <1>1, AskedFollows DEF History!RefreshClicked, TranslationsInv
<1>2. CASE History!LoadMoreClicked
  BY <1>2, AskedFollows DEF History!LoadMoreClicked, TranslationsInv
<1>3. CASE UNCHANGED History!vars
  BY <1>3 DEF History!vars, TranslationsInv, HistoryTyped, ListInv, LoadInv, FollowInv, FreshItems, Gapless
<1> QED
  BY <1>1, <1>2, <1>3, ServedKeepsHistory, RepliedKeepsHistory, FailedKeepsHistory, TranslatedKeepsHistory,
     EditKeepsHistory DEF History!Next

LEMMA HistoryIs == TranslationsInv => History!TypeOK /\ History!NoHole /\ History!ListFollows
<1> SUFFICES ASSUME TranslationsInv PROVE History!TypeOK /\ History!NoHole /\ History!ListFollows  OBVIOUS
<1>1. History!TypeOK
  BY DEF TranslationsInv, HistoryTyped, History!TypeOK, ItemNumbers, HistoryServers, HistoryLists, HistoryLoads
<1>2. v2.items \subseteq History!Items /\ v2.items \subseteq Nat
  BY HistoryBounds DEF TranslationsInv, HistoryTyped, HistoryLists
<1>3. History!NoHole
  <2>1. ASSUME NEW i \in v2.items, NEW j \in v2.items, NEW k \in (i .. j) \cap v1.alive PROVE k \in v2.items
    <3>1. i <= k /\ k <= j  BY <1>2
    <3> QED  BY <3>1 DEF TranslationsInv, ListInv, Gapless
  <2> QED  BY <2>1 DEF History!NoHole, TranslationsInv, ListInv
<1>4. History!ListFollows
  <2> SUFFICES ASSUME v3.at = "none", ~v2.behind, \A i \in History!Items : v4[i] = "none"
               PROVE  v2.items \subseteq v1.alive /\ v2.pinned = v1.pinned \cap v2.items
    BY DEF History!ListFollows, History!Loading
  <2>1. FreshItems(v2.items, v2.pinned, v1, v4) /\ v2.pinned \subseteq v2.items
    BY DEF TranslationsInv, FollowInv, ListInv
  <2>2. \A i \in v2.items : i \in v1.alive /\ (i \in v2.pinned <=> i \in v1.pinned)
    BY <1>2, <2>1 DEF FreshItems
  <2> QED  BY <2>1, <2>2
<1> QED  BY <1>1, <1>3, <1>4

HistoryPart == which = "history" => TranslationsInv

LEMMA HistoryStart == Init => HistoryPart
  BY PagesConstants, HistoryInitEstablishes DEF Init, HistoryPart

LEMMA HistoryStep == HistoryPart /\ [Next]_vars => HistoryPart'
<1> SUFFICES ASSUME HistoryPart, [Next]_vars PROVE HistoryPart'
  OBVIOUS
<1>1. CASE which = "history"
  <2>1. [History!Next]_History!vars  BY <1>1 DEF Next, vars, Step, History!vars
  <2>2. which' = "history"  BY <1>1 DEF Next, vars, Step
  <2> QED  BY <1>1, <2>1, <2>2, PagesConstants, HistoryStepKeeps DEF HistoryPart
<1>2. CASE which # "history"  BY <1>2 DEF Next, vars, Step, HistoryPart
<1> QED  BY <1>1, <1>2
-----------------------------------------------------------------------------
(* The open conversation. *)

ThreadPages ==
  [conv : Convs \cup {None}, shown : SUBSET Thread!Ids, cursor : Thread!Ids \cup {0},
   met : BOOLEAN, pins : SUBSET Thread!Ids, pinning : BOOLEAN]
LoadRequests ==
  [kind : {"load"}, conv : Convs, mode : {"plain", "after", "latest"}, shown : SUBSET Thread!Ids,
   cursor : Thread!Ids \cup {0}, met : BOOLEAN, from : 0 .. ThreadMessages]
OlderRequests ==
  [kind : {"older"}, conv : Convs, before : Thread!Ids, target : Thread!Ids \cup {0}, from : 0 .. ThreadMessages]
PinRequests == [kind : {"pins"}, conv : Convs]
ThreadRequests == LoadRequests \cup OlderRequests \cup PinRequests

\* A message of c above which one of shown is, is itself in shown or is before
\* the cursor.
Covered(shown, cursor, c, log) ==
  \A j \in shown : \A i \in 1 .. Len(log) : log[i] = c /\ i < j => i \in shown \/ i < cursor

LogInv == v1 \in Seq(Convs) /\ Len(v1) <= ThreadMessages /\ v2 \subseteq 1 .. Len(v1)

ThreadPageInv(p, log) ==
  /\ p \in ThreadPages
  /\ p.shown \subseteq 1 .. Len(log) /\ p.pins \subseteq 1 .. Len(log)
  /\ \A m \in p.pins : log[m] = p.conv
  /\ p.cursor <= Len(log)
  /\ p.met => Covered(p.shown, p.cursor, p.conv, log)

\* What a request kept of the page when it was sent.
RequestInv(f, log) ==
  /\ f \in ThreadRequests
  /\ f.kind = "load" => /\ f.shown \subseteq 1 .. Len(log) /\ f.cursor <= Len(log)
                        /\ f.met => Covered(f.shown, f.cursor, f.conv, log)
  /\ f.kind = "older" => f.before <= f.from

ThreadInv == LogInv /\ ThreadPageInv(v3, v1) /\ \A f \in v4 : RequestInv(f, v1)

LEMMA ThreadBounds ==
  /\ ThreadMessages \in Nat \ {0} /\ None \notin Convs
  /\ Thread!Ids = 1 .. ThreadMessages /\ 0 \notin Thread!Ids
  /\ \A i \in Thread!Ids : i \in Nat
BY PagesConstants DEF Thread!ThreadAssumption, Thread!Ids

LEMMA LogFacts ==
  ASSUME LogInv
  PROVE  /\ Len(v1) \in Nat /\ 1 .. Len(v1) \subseteq Thread!Ids /\ Len(v1) \in 0 .. ThreadMessages
         /\ \A n \in 0 .. Len(v1) : \A c : Thread!OfConv(c, n) \subseteq 1 .. Len(v1)
<1>1. Len(v1) \in Nat  BY DEF LogInv
<1>2. 1 .. Len(v1) \subseteq Thread!Ids  BY <1>1, ThreadBounds DEF LogInv
<1>3. ASSUME NEW n \in 0 .. Len(v1), NEW c PROVE Thread!OfConv(c, n) \subseteq 1 .. Len(v1)
  BY <1>1 DEF Thread!OfConv
<1>4. Len(v1) \in 0 .. ThreadMessages  BY <1>1, ThreadBounds DEF LogInv
<1> QED  BY <1>1, <1>2, <1>3, <1>4

\* The requests a refresh of the pins adds, and the page it leaves.
LEMMA PinsAsked ==
  ASSUME NEW p, ThreadPageInv(p, v1)
  PROVE  /\ ThreadPageInv(Thread!RefreshPins(p), v1)
         /\ \A f \in Thread!PinFlight(p) : RequestInv(f, v1)
<1>1. ThreadPageInv(Thread!RefreshPins(p), v1)
  <2>1. CASE p.conv = None \/ p.pinning  BY <2>1 DEF Thread!RefreshPins
  <2>2. CASE ~(p.conv = None \/ p.pinning)
    <3>1. Thread!RefreshPins(p) = [p EXCEPT !.pinning = TRUE]  BY <2>2 DEF Thread!RefreshPins
    <3> DEFINE q == Thread!RefreshPins(p)
    <3>2. /\ q \in ThreadPages /\ q.conv = p.conv /\ q.shown = p.shown /\ q.cursor = p.cursor /\ q.pins = p.pins
          /\ q.met = p.met
      BY <3>1 DEF ThreadPageInv, ThreadPages
    <3> HIDE DEF q
    <3>3. ThreadPageInv(q, v1)  BY <3>2 DEF ThreadPageInv
    <3> QED  BY <3>3 DEF q
  <2> QED  BY <2>1, <2>2
<1>2. ASSUME NEW f \in Thread!PinFlight(p) PROVE RequestInv(f, v1)
  <2>1. f = [kind |-> "pins", conv |-> p.conv] /\ p.conv \in Convs
    BY DEF Thread!PinFlight, Thread!Pins, ThreadPageInv, ThreadPages
  <2> QED  BY <2>1 DEF RequestInv, ThreadRequests, PinRequests
<1> QED  BY <1>1, <1>2

\* A load keeps what the page is when it is sent.
LEMMA LoadSent ==
  ASSUME LogInv, NEW p, ThreadPageInv(p, v1), p.conv \in Convs, NEW mode \in {"plain", "after", "latest"}
  PROVE  RequestInv(Thread!Load(p.conv, mode, p), v1)
<1> DEFINE f == Thread!Load(p.conv, mode, p)
<1>1. f = [kind |-> "load", conv |-> p.conv, mode |-> mode, shown |-> p.shown, cursor |-> p.cursor,
           met |-> p.met, from |-> Len(v1)]
  BY DEF Thread!Load
<1>2. /\ p.shown \subseteq Thread!Ids /\ p.cursor \in Thread!Ids \cup {0} /\ p.met \in BOOLEAN
      /\ Len(v1) \in 0 .. ThreadMessages
  BY LogFacts DEF ThreadPageInv, ThreadPages
<1> HIDE DEF f
<1>3. f \in LoadRequests  BY <1>1, <1>2 DEF LoadRequests
<1>4. RequestInv(f, v1)  BY <1>1, <1>3 DEF RequestInv, ThreadRequests, ThreadPageInv
<1> QED  BY <1>4 DEF f

LEMMA OlderSent ==
  ASSUME LogInv, NEW c \in Convs, NEW before \in Thread!Ids, before <= Len(v1),
         NEW target \in Thread!Ids \cup {0}
  PROVE  RequestInv(Thread!Older(c, before, target), v1)
<1> DEFINE f == Thread!Older(c, before, target)
<1>1. f = [kind |-> "older", conv |-> c, before |-> before, target |-> target, from |-> Len(v1)]
  BY DEF Thread!Older
<1> HIDE DEF f
<1>2. f \in OlderRequests  BY <1>1, LogFacts DEF OlderRequests
<1>3. RequestInv(f, v1)  BY <1>1, <1>2 DEF RequestInv, ThreadRequests
<1> QED  BY <1>3 DEF f

\* A page rendered, with what it asks next.
LEMMA Rendered ==
  ASSUME ThreadInv, NEW p, ThreadPageInv(p, v1), NEW rest, \A f \in rest : RequestInv(f, v1),
         Thread!Render(p, rest), Thread!External
  PROVE  ThreadInv'
<1>1. /\ v3' = Thread!RefreshPins(p) /\ v4' = rest \cup Thread!PinFlight(p) /\ v1' = v1 /\ v2' = v2
  BY DEF Thread!Render, Thread!External
<1>2. ThreadPageInv(v3', v1) /\ \A f \in v4' : RequestInv(f, v1)
  BY <1>1, PinsAsked
<1> QED  BY <1>1, <1>2 DEF ThreadInv, LogInv

\* The page with other messages.
LEMMA OtherMessages ==
  ASSUME ThreadInv, NEW shown \in SUBSET (1 .. Len(v1)), NEW cursor \in 0 .. Len(v1), NEW met \in BOOLEAN,
         met => Covered(shown, cursor, v3.conv, v1)
  PROVE  ThreadPageInv([v3 EXCEPT !.shown = shown, !.cursor = cursor, !.met = met], v1)
<1> DEFINE p == [v3 EXCEPT !.shown = shown, !.cursor = cursor, !.met = met]
<1>1. /\ v3 \in ThreadPages /\ shown \in SUBSET Thread!Ids /\ cursor \in Thread!Ids \cup {0}
      /\ cursor <= Len(v1)
  BY LogFacts DEF ThreadInv, ThreadPageInv
<1>2. /\ p \in ThreadPages /\ p.shown = shown /\ p.cursor = cursor /\ p.conv = v3.conv /\ p.pins = v3.pins
      /\ p.met = met
  BY <1>1 DEF ThreadPages
<1> HIDE DEF p
<1>3. ThreadPageInv(p, v1)  BY <1>1, <1>2 DEF ThreadPageInv, ThreadInv
<1> QED  BY <1>3 DEF p

LEMMA MinOf ==
  ASSUME NEW S, S \subseteq Nat, S # {}
  PROVE  Thread!Min(S) \in S /\ \A y \in S : Thread!Min(S) <= y
BY LeastNumber DEF Thread!Min

\* A page is the upper or the lower end of the messages it is taken from.
LEMMA Ends ==
  ASSUME NEW n \in Nat, NEW S \in SUBSET (1 .. n), NEW i \in S
  PROVE  /\ \A j \in Thread!Largest(S) : j < i => i \in Thread!Largest(S)
         /\ \A j \in Thread!Smallest(S) : i < j => i \in Thread!Smallest(S)
<1> DEFINE above(k) == {m \in S : m > k}
           below(k) == {m \in S : m < k}
<1>0. \A k \in S : k \in Nat  OBVIOUS
<1>1. IsFiniteSet(1 .. n)  BY FS_Interval
<1>2. ASSUME NEW A \in SUBSET S, NEW B \in SUBSET A
      PROVE  /\ Thread!Cardinality(A) \in Nat /\ Thread!Cardinality(B) \in Nat
             /\ Thread!Cardinality(B) <= Thread!Cardinality(A)
  <2>1. IsFiniteSet(A) /\ IsFiniteSet(B) /\ Cardinality(B) <= Cardinality(A)  BY <1>1, FS_Subset
  <2>2. Thread!Cardinality(A) = Cardinality(A) /\ Thread!Cardinality(B) = Cardinality(B)
    BY <2>1 DEF Thread!Cardinality, Cardinality
  <2> QED  BY <2>1, <2>2, FS_CardinalityType
<1>3. PageSize \in Nat  BY PagesConstants DEF Thread!ThreadAssumption
<1>4. ASSUME NEW j \in Thread!Largest(S), j < i PROVE i \in Thread!Largest(S)
  <2>1. j \in S /\ Thread!Cardinality(above(j)) < PageSize  BY DEF Thread!Largest
  <2>2. above(j) \in SUBSET S /\ above(i) \in SUBSET above(j)
    <3>1. ASSUME NEW m \in above(i) PROVE m \in above(j)  BY <1>0, <1>4, <2>1
    <3> QED  BY <3>1
  <2> HIDE DEF above
  <2>3. Thread!Cardinality(above(i)) < PageSize  BY <1>2, <1>3, <2>1, <2>2
  <2> QED  BY <2>3 DEF above, Thread!Largest
<1>5. ASSUME NEW j \in Thread!Smallest(S), i < j PROVE i \in Thread!Smallest(S)
  <2>1. j \in S /\ Thread!Cardinality(below(j)) < PageSize  BY DEF Thread!Smallest
  <2>2. below(j) \in SUBSET S /\ below(i) \in SUBSET below(j)
    <3>1. ASSUME NEW m \in below(i) PROVE m \in below(j)  BY <1>0, <1>5, <2>1
    <3> QED  BY <3>1
  <2> HIDE DEF below
  <2>3. Thread!Cardinality(below(i)) < PageSize  BY <1>2, <1>3, <2>1, <2>2
  <2> QED  BY <2>3 DEF below, Thread!Smallest
<1> QED  BY <1>4, <1>5

\* The latest page of a conversation with messages has one.
LEMMA SomePage ==
  ASSUME NEW n \in Nat, NEW S \in SUBSET (1 .. n), S # {}
  PROVE  Thread!Largest(S) # {}
<1> DEFINE T == {n - i : i \in S}
<1>1. T \subseteq Nat /\ T # {}  OBVIOUS
<1>2. PICK t \in T : \A u \in T : t <= u  BY <1>1, LeastNumber
<1>3. PICK m \in S : t = n - m  OBVIOUS
<1>4. \A i \in S : ~(i > m)  BY <1>2, <1>3
<1>5. Thread!Cardinality({j \in S : j > m}) = 0
  <2>1. {j \in S : j > m} = {}  BY <1>4
  <2>2. Thread!Cardinality({}) = Cardinality({})  BY FS_EmptySet DEF Thread!Cardinality, Cardinality
  <2> QED  BY <2>1, <2>2, FS_EmptySet
<1>6. PageSize \in Nat \ {0}  BY PagesConstants DEF Thread!ThreadAssumption
<1> QED  BY <1>3, <1>5, <1>6 DEF Thread!Largest

\* The cursor a page of messages gives: what it leaves out is before it.
LEMMA CursorGiven ==
  ASSUME NEW n \in Nat, NEW S \in SUBSET (1 .. n)
  PROVE  /\ Thread!Before(S, Thread!Largest(S)) \in 0 .. n
         /\ \A j \in Thread!Largest(S) : \A i \in S :
              i < j => i \in Thread!Largest(S) \/ i < Thread!Before(S, Thread!Largest(S))
<1> DEFINE answer == Thread!Largest(S)
           b == Thread!Before(S, answer)
<1>1. answer \subseteq S /\ answer \subseteq Nat /\ \A k \in S : k \in Nat
  <2>1. answer \subseteq S /\ \A k \in S : k \in Nat  BY DEF Thread!Largest
  <2> HIDE DEF answer
  <2> QED  BY <2>1
<1>2. b = 0 \/ (answer # {} /\ b = Thread!Min(answer))  BY DEF Thread!Before
<1>3. answer # {} => Thread!Min(answer) \in answer  BY <1>1, MinOf
<1>4. b \in 0 .. n  BY <1>1, <1>2, <1>3
<1>5. ASSUME NEW j \in answer, NEW i \in S, i \notin answer PROVE i < b
  <2>1. ASSUME NEW k \in answer PROVE i < k
    <3>1. ~(k < i)  BY <1>5, Ends
    <3>2. k # i /\ k \in Nat /\ i \in Nat  BY <1>1, <1>5
    <3> QED  BY <3>1, <3>2
  <2>2. b = Thread!Min(answer)  BY <2>1 DEF Thread!Before
  <2> QED  BY <1>3, <2>1, <2>2
<1> QED  BY <1>4, <1>5

LEMMA LoadRepliedKeeps ==
  ASSUME ThreadInv, NEW f \in v4, NEW n \in 0 .. Len(v1), Thread!LoadReplied(f, n)
  PROVE  ThreadInv'
<1> DEFINE S == Thread!OfConv(f.conv, n)
           beyond == {i \in S : \A j \in f.shown : i > j}
           after == Thread!Smallest(beyond)
           latest == Thread!Largest(S)
           kept == {i \in f.shown : i < Thread!Min(latest)}
           mixed == f.mode = "latest" /\ f.shown # {} /\ latest # {} /\ kept # {}
           answer == CASE f.mode = "after" -> [shown |-> f.shown \cup after, cursor |-> f.cursor, met |-> f.met]
                       [] f.mode = "latest" /\ f.shown # {} /\ latest # {} /\ kept # {} ->
                            [shown |-> kept \cup latest, cursor |-> f.cursor,
                             met |-> f.met /\ latest \cap f.shown # {}]
                       [] OTHER -> [shown |-> latest, cursor |-> Thread!Before(S, latest), met |-> TRUE]
           met == answer.met /\ f.conv = v3.conv
<1>1. /\ f.kind = "load"
      /\ Thread!Render([v3 EXCEPT !.shown = answer.shown, !.cursor = answer.cursor, !.met = met], v4 \ {f})
      /\ Thread!External
  BY DEF Thread!LoadReplied
<1>2. RequestInv(f, v1) /\ LogInv  BY DEF ThreadInv
<1>3. f \in LoadRequests
  BY <1>1, <1>2 DEF RequestInv, ThreadRequests, LoadRequests, OlderRequests, PinRequests
<1>4. /\ f.shown \subseteq 1 .. Len(v1) /\ f.cursor \in 0 .. Len(v1) /\ f.met \in BOOLEAN
      /\ f.met => Covered(f.shown, f.cursor, f.conv, v1)
  <2>1. f.cursor \in Thread!Ids \cup {0} /\ f.met \in BOOLEAN  BY <1>3 DEF LoadRequests
  <2>2. f.cursor \in Nat  BY <2>1, ThreadBounds
  <2> QED  BY <1>1, <1>2, <2>1, <2>2, LogFacts DEF RequestInv
<1>5. S \subseteq 1 .. Len(v1) /\ beyond \subseteq S /\ Len(v1) \in Nat  BY <1>2, LogFacts
<1>6. after \subseteq beyond /\ latest \subseteq S /\ kept \subseteq f.shown
  BY DEF Thread!Smallest, Thread!Largest
<1>7. ASSUME NEW i \in 1 .. Len(v1), v1[i] = f.conv, NEW j \in S, i < j PROVE i \in S
  BY <1>7 DEF Thread!OfConv
<1> HIDE DEF S
<1>8. ASSUME f.met PROVE Covered(f.shown \cup after, f.cursor, f.conv, v1)
  <2> SUFFICES ASSUME NEW j \in f.shown \cup after, NEW i \in 1 .. Len(v1), v1[i] = f.conv, i < j
               PROVE  i \in f.shown \cup after \/ i < f.cursor
    BY DEF Covered
  <2>1. CASE \E k \in f.shown : i < k  BY <1>4, <1>8, <2>1 DEF Covered
  <2>2. CASE i \in f.shown  BY <2>2
  <2>3. CASE i \notin f.shown /\ \A k \in f.shown : ~(i < k)
    <3>1. \A k \in f.shown : i > k  BY <1>4, <2>3
    <3>2. j \in after /\ j \in beyond  BY <1>6, <2>3
    <3>3. i \in beyond  BY <1>7, <3>1, <3>2
    <3> HIDE DEF beyond
    <3>4. i \in after  BY <1>5, <3>2, <3>3, Ends
    <3> QED  BY <3>4
  <2> QED  BY <2>1, <2>2, <2>3
<1>9. Covered(latest, Thread!Before(S, latest), f.conv, v1) /\ Thread!Before(S, latest) \in 0 .. Len(v1)
  <2>1. ASSUME NEW j \in latest, NEW i \in 1 .. Len(v1), v1[i] = f.conv, i < j
        PROVE  i \in latest \/ i < Thread!Before(S, latest)
    BY <1>5, <1>6, <1>7, <2>1, CursorGiven
  <2> QED  BY <1>5, <2>1, CursorGiven DEF Covered
<1>10. ASSUME f.met, mixed, latest \cap f.shown # {} PROVE Covered(kept \cup latest, f.cursor, f.conv, v1)
  <2> SUFFICES ASSUME NEW j \in kept \cup latest, NEW i \in 1 .. Len(v1), v1[i] = f.conv, i < j
               PROVE  i \in kept \cup latest \/ i < f.cursor
    BY DEF Covered
  <2> DEFINE m == Thread!Min(latest)
  <2>1. m \in latest /\ m \in 1 .. Len(v1) /\ \A k \in latest : m <= k
    <3>1. latest \subseteq Nat /\ latest # {}  BY <1>5, <1>6, <1>10
    <3> QED  BY <1>5, <1>6, <3>1, MinOf
  <2>2. PICK k \in f.shown : k \in latest  BY <1>10
  <2>3. CASE i < m
    <3>1. i < k /\ k \in Nat  BY <1>4, <2>1, <2>2, <2>3
    <3>2. i \in f.shown \/ i < f.cursor  BY <1>4, <1>10, <3>1 DEF Covered
    <3> QED  BY <2>3, <3>2
  <2>4. CASE ~(i < m)
    <3>1. j \notin kept  BY <1>4, <2>1, <2>4
    <3>2. j \in latest /\ j \in S  BY <1>6, <3>1
    <3>3. i \in S /\ m <= i  BY <1>7, <2>1, <2>4, <3>2
    <3>4. CASE i = m  BY <2>1, <3>4
    <3>5. CASE m < i  BY <1>2, <1>5, <2>1, <3>3, <3>5, Ends
    <3>6. m \in Nat /\ i \in Nat  BY <1>5, <2>1
    <3> HIDE DEF m
    <3> QED  BY <3>3, <3>4, <3>5, <3>6
  <2> QED  BY <2>3, <2>4
<1>11. /\ answer.shown \in SUBSET (1 .. Len(v1)) /\ answer.cursor \in 0 .. Len(v1) /\ answer.met \in BOOLEAN
       /\ answer.met => Covered(answer.shown, answer.cursor, f.conv, v1)
  <2>1. CASE f.mode = "after"
    <3>1. answer = [shown |-> f.shown \cup after, cursor |-> f.cursor, met |-> f.met]  BY <2>1
    <3>2. f.shown \cup after \subseteq 1 .. Len(v1)  BY <1>4, <1>5, <1>6
    <3> HIDE DEF answer, after
    <3> QED  BY <1>4, <1>8, <3>1, <3>2
  <2>2. CASE f.mode # "after" /\ mixed
    <3>1. answer = [shown |-> kept \cup latest, cursor |-> f.cursor,
                    met |-> f.met /\ latest \cap f.shown # {}]
      BY <2>2
    <3>2. kept \cup latest \subseteq 1 .. Len(v1)  BY <1>4, <1>5, <1>6
    <3> HIDE DEF answer, kept, latest, mixed
    <3> QED  BY <1>4, <1>10, <2>2, <3>1, <3>2
  <2>3. CASE f.mode # "after" /\ ~mixed
    <3>1. answer = [shown |-> latest, cursor |-> Thread!Before(S, latest), met |-> TRUE]  BY <2>3
    <3> HIDE DEF answer, kept, latest, mixed
    <3> QED  BY <1>5, <1>6, <1>9, <3>1
  <2> QED  BY <2>1, <2>2, <2>3
<1> HIDE DEF answer
<1>12. met \in BOOLEAN /\ (met => Covered(answer.shown, answer.cursor, v3.conv, v1))  BY <1>11
<1> HIDE DEF met
<1>13. ThreadPageInv([v3 EXCEPT !.shown = answer.shown, !.cursor = answer.cursor, !.met = met], v1)
  BY <1>11, <1>12, OtherMessages
<1>14. \A g \in v4 \ {f} : RequestInv(g, v1)  BY DEF ThreadInv
<1> QED  BY <1>1, <1>13, <1>14, Rendered

LEMMA OlderRepliedKeeps ==
  ASSUME ThreadInv, NEW f \in v4, NEW n \in f.from .. Len(v1), Thread!OlderReplied(f, n)
  PROVE  ThreadInv'
<1> DEFINE S == {i \in Thread!OfConv(f.conv, n) : i < f.before}
           answer == Thread!Largest(S)
           s == [v3 EXCEPT !.shown = @ \cup answer, !.cursor = Thread!Before(S, answer),
                           !.met = @ /\ v3.cursor = f.before]
           again == IF f.target # 0 /\ f.target \notin s.shown /\ s.cursor # 0
                    THEN {Thread!Older(f.conv, s.cursor, f.target)} ELSE {}
<1>1. /\ f.kind = "older"
      /\ IF v3.conv = f.conv /\ v3.shown # {} THEN Thread!Render(s, (v4 \ {f}) \cup again)
         ELSE v3' = v3 /\ v4' = v4 \ {f}
      /\ Thread!External
  BY DEF Thread!OlderReplied
<1>2. RequestInv(f, v1) /\ LogInv /\ Len(v1) \in Nat  BY LogFacts DEF ThreadInv
<1>3. /\ f.conv \in Convs /\ f.target \in Thread!Ids \cup {0} /\ f.before \in Nat /\ f.from \in Nat
      /\ f.before <= f.from
  <2>1. f \in OlderRequests
    BY <1>1, <1>2 DEF RequestInv, ThreadRequests, LoadRequests, OlderRequests, PinRequests
  <2> QED  BY <1>1, <1>2, <2>1, ThreadBounds DEF OlderRequests, RequestInv
<1>4. S \in SUBSET (1 .. Len(v1)) /\ answer \subseteq S
  BY <1>2, <1>3 DEF Thread!Largest, Thread!OfConv
<1>5. v3 \in ThreadPages /\ v3.shown \subseteq 1 .. Len(v1) /\ (v3.met => Covered(v3.shown, v3.cursor, v3.conv, v1))
  BY DEF ThreadInv, ThreadPageInv
<1>6. ASSUME NEW i \in 1 .. Len(v1), v1[i] = f.conv, i < f.before PROVE i \in S
  BY <1>2, <1>3, <1>6 DEF Thread!OfConv
<1> DEFINE shown == v3.shown \cup answer
           cursor == Thread!Before(S, answer)
           met == v3.met /\ v3.cursor = f.before
<1>7. /\ shown \in SUBSET (1 .. Len(v1)) /\ cursor \in 0 .. Len(v1) /\ met \in BOOLEAN
      /\ cursor \in Thread!Ids \cup {0}
  <2>1. cursor \in 0 .. Len(v1)  BY <1>2, <1>4, CursorGiven
  <2> HIDE DEF cursor, answer, S
  <2>2. cursor \in Thread!Ids \cup {0}  BY <1>2, <2>1, LogFacts
  <2>3. met \in BOOLEAN  BY <1>5 DEF ThreadPages
  <2> QED  BY <1>4, <1>5, <2>1, <2>2, <2>3
<1>8. s = [v3 EXCEPT !.shown = shown, !.cursor = cursor, !.met = met] /\ s.cursor = cursor
  BY <1>5 DEF ThreadPages
<1>9. ASSUME met, v3.conv = f.conv PROVE Covered(shown, cursor, v3.conv, v1)
  <2> SUFFICES ASSUME NEW j \in shown, NEW i \in 1 .. Len(v1), v1[i] = f.conv, i < j
               PROVE  i \in shown \/ i < cursor
    BY <1>9 DEF Covered
  <2>1. (\E k \in answer : TRUE) /\ i \in S => i \in answer \/ i < cursor
    <3> SUFFICES ASSUME NEW k \in answer, i \in S, i \notin answer PROVE i < cursor  OBVIOUS
    <3>1. k \in S /\ k \in Nat /\ i \in Nat  BY <1>4
    <3>2. ~(k < i)  BY <1>2, <1>4, Ends
    <3>3. i < k  BY <3>1, <3>2
    <3> QED  BY <1>2, <1>4, <3>3, CursorGiven
  <2>2. answer = {} => S = {}
    <3> SUFFICES ASSUME S # {} PROVE answer # {}  OBVIOUS
    <3> QED  BY <1>2, <1>4, SomePage
  <2>3. CASE i \in v3.shown  BY <2>3
  <2>4. CASE i < f.before
    <3>1. i \in S  BY <1>6, <2>4
    <3> QED  BY <2>1, <2>2, <3>1
  <2>5. CASE i \notin v3.shown /\ ~(i < f.before)
    <3>1. j \notin answer  BY <1>3, <1>4, <2>5
    <3>2. j \in v3.shown  BY <3>1
    <3> QED  BY <1>5, <1>9, <2>5, <3>2 DEF Covered
  <2> QED  BY <2>3, <2>4, <2>5
<1> HIDE DEF answer, S, cursor, shown, met
<1>10. ASSUME v3.conv = f.conv PROVE ThreadPageInv(s, v1)
  <2>1. ThreadPageInv([v3 EXCEPT !.shown = shown, !.cursor = cursor, !.met = met], v1)
    BY <1>7, <1>10, <1>9, OtherMessages
  <2> HIDE DEF s
  <2> QED  BY <1>8, <2>1
<1>11. \A g \in again : RequestInv(g, v1)
  <2> SUFFICES ASSUME NEW g \in again PROVE RequestInv(g, v1)  OBVIOUS
  <2>1. g = Thread!Older(f.conv, s.cursor, f.target) /\ s.cursor # 0  OBVIOUS
  <2> HIDE DEF s, again
  <2>2. s.cursor \in Thread!Ids /\ s.cursor <= Len(v1)  BY <1>2, <1>7, <1>8, <2>1
  <2> QED  BY <1>2, <1>3, <2>1, <2>2, OlderSent
<1>12. \A g \in v4 \ {f} : RequestInv(g, v1)  BY DEF ThreadInv
<1> HIDE DEF s, again
<1>13. CASE v3.conv = f.conv /\ v3.shown # {}
  <2>1. Thread!Render(s, (v4 \ {f}) \cup again)  BY <1>1, <1>13
  <2>2. \A g \in (v4 \ {f}) \cup again : RequestInv(g, v1)  BY <1>11, <1>12
  <2>3. ThreadPageInv(s, v1)  BY <1>10, <1>13
  <2> QED  BY <1>1, <2>1, <2>2, <2>3, Rendered
<1>14. CASE ~(v3.conv = f.conv /\ v3.shown # {})
  <2>1. v3' = v3 /\ v4' = v4 \ {f} /\ v1' = v1 /\ v2' = v2  BY <1>1, <1>14 DEF Thread!External
  <2> QED  BY <1>12, <2>1 DEF ThreadInv, LogInv
<1> QED  BY <1>13, <1>14

LEMMA RepliesKeepThread ==
  ASSUME ThreadInv, NEW f \in v4, Thread!RequestFailed(f) \/ Thread!PinsReplied(f)
  PROVE  ThreadInv'
<1> DEFINE pins == IF Thread!PinsReplied(f) /\ v3.conv = f.conv THEN {i \in v2 : v1[i] = f.conv} ELSE v3.pins
           pinning == IF f.kind = "pins" THEN FALSE ELSE v3.pinning
<1>1. v1' = v1 /\ v2' = v2 /\ v4' = v4 \ {f}
  BY DEF Thread!RequestFailed, Thread!PinsReplied, Thread!External
<1>2. v3 \in ThreadPages /\ v2 \subseteq 1 .. Len(v1) /\ LogInv /\ ThreadPageInv(v3, v1)
  BY DEF ThreadInv, ThreadPageInv, LogInv
<1>3. /\ pins \subseteq 1 .. Len(v1) /\ pinning \in BOOLEAN
      /\ \A m \in pins : v1[m] = v3.conv
  BY <1>2 DEF ThreadPageInv, ThreadPages
<1>4. \E p \in SUBSET (1 .. Len(v1)), b \in BOOLEAN :
         v3' = [v3 EXCEPT !.pins = p, !.pinning = b] /\ \A m \in p : v1[m] = v3.conv
  <2>1. CASE Thread!PinsReplied(f)
    <3>1. v3' = [v3 EXCEPT !.pins = pins, !.pinning = FALSE]
      BY <1>2, <2>1 DEF Thread!PinsReplied, ThreadPages
    <3> HIDE DEF pins
    <3> QED  BY <1>3, <3>1
  <2>2. CASE Thread!RequestFailed(f)
    <3>1. v3' = [v3 EXCEPT !.pinning = pinning]
      BY <1>2, <2>2 DEF Thread!RequestFailed, ThreadPages
    <3> HIDE DEF pinning
    <3>2. v3' = [v3 EXCEPT !.pins = v3.pins, !.pinning = pinning]  BY <1>2, <3>1 DEF ThreadPages
    <3> QED  BY <1>2, <1>3, <3>2 DEF ThreadPageInv
  <2> QED  BY <2>1, <2>2
<1>5. PICK p \in SUBSET (1 .. Len(v1)), b \in BOOLEAN :
         v3' = [v3 EXCEPT !.pins = p, !.pinning = b] /\ \A m \in p : v1[m] = v3.conv
  BY <1>4
<1>6. p \in SUBSET Thread!Ids  BY <1>2, LogFacts
<1>7. /\ v3' \in ThreadPages /\ v3'.conv = v3.conv /\ v3'.shown = v3.shown /\ v3'.cursor = v3.cursor /\ v3'.pins = p
      /\ v3'.met = v3.met
  BY <1>2, <1>5, <1>6 DEF ThreadPages
<1>8. ThreadPageInv(v3', v1)  BY <1>2, <1>5, <1>7 DEF ThreadPageInv
<1> QED  BY <1>1, <1>2, <1>8 DEF ThreadInv, LogInv

LEMMA AsksKeepThread ==
  ASSUME ThreadInv,
         \/ \E c \in Convs : Thread!SelectConversation(c)
         \/ \E mode \in {"after", "latest"} : Thread!LoadConversationMessages(mode)
         \/ Thread!LoadOlderClicked \/ Thread!OpenPinnedCenter
         \/ \E m \in Thread!Ids : Thread!JumpToPinnedMessage(m) \/ Thread!TogglePin(m)
  PROVE  ThreadInv'
<1>1. LogInv /\ ThreadPageInv(v3, v1) /\ v3 \in ThreadPages /\ \A f \in v4 : RequestInv(f, v1)
  BY DEF ThreadInv, ThreadPageInv
<1>2. v3.conv # None => v3.conv \in Convs  BY <1>1 DEF ThreadPages
<1>3. v3.cursor # 0 => v3.cursor \in Thread!Ids /\ v3.cursor <= Len(v1)  BY <1>1 DEF ThreadPages, ThreadPageInv
<1>4. ASSUME NEW c \in Convs, Thread!SelectConversation(c) PROVE ThreadInv'
  <2> DEFINE s == [v3 EXCEPT !.conv = c, !.shown = {}, !.cursor = 0, !.met = TRUE, !.pins = {}]
  <2>1. v3' = s /\ v4' = v4 \cup {Thread!Load(c, "plain", s)} /\ v1' = v1 /\ v2' = v2
    BY <1>4 DEF Thread!SelectConversation, Thread!External
  <2>2. s \in ThreadPages /\ s.shown = {} /\ s.pins = {} /\ s.cursor = 0 /\ s.conv = c
    BY <1>1 DEF ThreadPages
  <2> HIDE DEF s
  <2>3. ThreadPageInv(s, v1)  BY <1>1, <2>2, LogFacts DEF ThreadPageInv, Covered
  <2>4. RequestInv(Thread!Load(c, "plain", s), v1)  BY <1>1, <2>2, <2>3, LoadSent
  <2> QED  BY <1>1, <2>1, <2>3, <2>4 DEF ThreadInv, LogInv
<1>5. ASSUME NEW mode \in {"after", "latest"}, Thread!LoadConversationMessages(mode) PROVE ThreadInv'
  <2> DEFINE m == IF mode = "after" /\ v3.shown = {} THEN "plain" ELSE mode
  <2>1. v3' = v3 /\ v4' = v4 \cup {Thread!Load(v3.conv, m, v3)} /\ v1' = v1 /\ v2' = v2 /\ v3.conv # None
    BY <1>5 DEF Thread!LoadConversationMessages, Thread!External
  <2>2. m \in {"plain", "after", "latest"}  OBVIOUS
  <2> HIDE DEF m
  <2>3. RequestInv(Thread!Load(v3.conv, m, v3), v1)  BY <1>1, <1>2, <2>1, <2>2, LoadSent
  <2> QED  BY <1>1, <2>1, <2>3 DEF ThreadInv, LogInv
<1>6. CASE Thread!LoadOlderClicked
  <2>1. /\ v3' = v3 /\ v4' = v4 \cup {Thread!Older(v3.conv, v3.cursor, 0)} /\ v1' = v1 /\ v2' = v2
        /\ v3.conv # None /\ v3.cursor # 0
    BY <1>6 DEF Thread!LoadOlderClicked, Thread!External
  <2>2. RequestInv(Thread!Older(v3.conv, v3.cursor, 0), v1)  BY <1>1, <1>2, <1>3, <2>1, OlderSent
  <2> QED  BY <1>1, <2>1, <2>2 DEF ThreadInv, LogInv
<1>7. ASSUME NEW m \in Thread!Ids, Thread!JumpToPinnedMessage(m) PROVE ThreadInv'
  <2>1. /\ v3' = v3 /\ v4' = v4 \cup {Thread!Older(v3.conv, v3.cursor, m)} /\ v1' = v1 /\ v2' = v2
        /\ m \in v3.pins /\ v3.cursor # 0
    BY <1>7 DEF Thread!JumpToPinnedMessage, Thread!External
  <2>2. v3.conv \in Convs
    <3>1. v1[m] = v3.conv /\ m \in 1 .. Len(v1)  BY <1>1, <2>1 DEF ThreadPageInv
    <3> QED  BY <1>1, <3>1 DEF LogInv
  <2>3. RequestInv(Thread!Older(v3.conv, v3.cursor, m), v1)  BY <1>1, <1>3, <2>1, <2>2, OlderSent
  <2> QED  BY <1>1, <2>1, <2>3 DEF ThreadInv, LogInv
<1>8. CASE Thread!OpenPinnedCenter
  <2>1. v3' = Thread!RefreshPins(v3) /\ v4' = v4 \cup Thread!PinFlight(v3) /\ v1' = v1 /\ v2' = v2
    BY <1>8 DEF Thread!OpenPinnedCenter, Thread!External
  <2>2. ThreadPageInv(v3', v1) /\ \A f \in v4' : RequestInv(f, v1)  BY <1>1, <2>1, PinsAsked
  <2> QED  BY <1>1, <2>1, <2>2 DEF ThreadInv, LogInv
<1>9. ASSUME NEW m \in Thread!Ids, Thread!TogglePin(m) PROVE ThreadInv'
  <2>1. /\ v3' = Thread!RefreshPins(v3) /\ v1' = v1 /\ v2' = (v2 \cup {m}) \ (v2 \cap {m})
        /\ v4' = v4 \cup {Thread!Load(v3.conv, "latest", v3)} \cup Thread!PinFlight(v3)
        /\ m \in v3.shown \cup v3.pins /\ v3.conv # None
    BY <1>9 DEF Thread!TogglePin
  <2>2. ThreadPageInv(v3', v1) /\ \A f \in Thread!PinFlight(v3) : RequestInv(f, v1)  BY <1>1, <2>1, PinsAsked
  <2>3. RequestInv(Thread!Load(v3.conv, "latest", v3), v1)  BY <1>1, <1>2, <2>1, LoadSent
  <2>4. v2' \subseteq 1 .. Len(v1)
    <3>1. m \in 1 .. Len(v1)  BY <1>1, <2>1 DEF ThreadPageInv
    <3> QED  BY <1>1, <2>1, <3>1 DEF LogInv
  <2>5. \A f \in v4' : RequestInv(f, v1)  BY <1>1, <2>1, <2>2, <2>3
  <2> QED  BY <1>1, <2>1, <2>2, <2>4, <2>5 DEF ThreadInv, LogInv
<1> QED  BY <1>4, <1>5, <1>6, <1>7, <1>8, <1>9

LEMMA ArrivalKeepsThread ==
  ASSUME ThreadInv, NEW c \in Convs, Thread!MessageArrives(c)
  PROVE  ThreadInv'
<1>1. v1' = Append(v1, c) /\ v2' = v2 /\ v3' = v3 /\ v4' = v4 /\ Len(v1) < ThreadMessages
  BY DEF Thread!MessageArrives
<1>2. /\ v1' \in Seq(Convs) /\ Len(v1') = Len(v1) + 1 /\ Len(v1) \in Nat
      /\ \A i \in 1 .. Len(v1) : v1'[i] = v1[i]
  BY <1>1 DEF ThreadInv, LogInv
<1>3. 1 .. Len(v1) \subseteq 1 .. Len(v1')  BY <1>2
<1>4. LogInv'
  <2>1. Len(v1') <= ThreadMessages  BY <1>1, <1>2, ThreadBounds
  <2> QED  BY <1>1, <1>2, <1>3, <2>1 DEF ThreadInv, LogInv
<1>5. ASSUME NEW shown \in SUBSET (1 .. Len(v1)), NEW cursor, NEW d, Covered(shown, cursor, d, v1)
       PROVE  Covered(shown, cursor, d, v1')
  <2> SUFFICES ASSUME NEW j \in shown, NEW i \in 1 .. Len(v1'), v1'[i] = d, i < j
               PROVE  i \in shown \/ i < cursor
    BY DEF Covered
  <2>1. i \in 1 .. Len(v1) /\ v1[i] = d  BY <1>2
  <2> QED  BY <1>5, <2>1 DEF Covered
<1>6. ThreadPageInv(v3, v1')
  <2>1. v3 \in ThreadPages /\ v3.cursor \in Nat  BY ThreadBounds DEF ThreadInv, ThreadPageInv, ThreadPages
  <2> QED  BY <1>2, <1>3, <1>5, <2>1 DEF ThreadInv, ThreadPageInv
<1>7. ASSUME NEW f \in v4 PROVE RequestInv(f, v1')
  <2>1. RequestInv(f, v1) /\ f \in ThreadRequests  BY DEF ThreadInv, RequestInv
  <2>2. f.kind = "load" => f.cursor \in Nat
    BY <2>1, ThreadBounds DEF ThreadRequests, LoadRequests, OlderRequests, PinRequests
  <2> QED  BY <1>2, <1>3, <1>5, <2>1, <2>2 DEF RequestInv
<1> QED  BY <1>1, <1>4, <1>6, <1>7 DEF ThreadInv

LEMMA ThreadInitEstablishes == ASSUME Thread!Init PROVE ThreadInv
<1>1. /\ v1 = <<>> /\ v2 = {} /\ v4 = {}
      /\ v3 = [conv |-> None, shown |-> {}, cursor |-> 0, met |-> TRUE, pins |-> {}, pinning |-> FALSE]
  BY DEF Thread!Init
<1>2. LogInv  BY <1>1, ThreadBounds DEF LogInv
<1>3. ThreadPageInv(v3, v1)  BY <1>1 DEF ThreadPageInv, ThreadPages, Covered
<1> QED  BY <1>1, <1>2, <1>3 DEF ThreadInv

LEMMA ThreadStepKeeps == ASSUME ThreadInv, [Thread!Next]_Thread!vars PROVE ThreadInv'
<1>1. ASSUME NEW f \in v4, NEW n \in 0 .. Len(v1), Thread!LoadReplied(f, n) \/ Thread!OlderReplied(f, n) PROVE ThreadInv'
  <2>1. CASE Thread!LoadReplied(f, n)  BY <2>1, LoadRepliedKeeps
  <2>2. CASE Thread!OlderReplied(f, n)
    <3>1. n \in f.from .. Len(v1)  BY <2>2 DEF Thread!OlderReplied
    <3> QED  BY <2>2, <3>1, OlderRepliedKeeps
  <2> QED  BY <1>1, <2>1, <2>2
<1>2. ASSUME NEW f \in v4, Thread!RequestFailed(f) \/ Thread!PinsReplied(f) PROVE ThreadInv'
  BY <1>2, RepliesKeepThread
<1>3. ASSUME NEW c \in Convs, Thread!MessageArrives(c) PROVE ThreadInv'
  BY <1>3, ArrivalKeepsThread
<1>4. CASE UNCHANGED Thread!vars
  BY <1>4 DEF Thread!vars, ThreadInv, LogInv
<1> QED  BY <1>1, <1>2, <1>3, <1>4, AsksKeepThread DEF Thread!Next

LEMMA ThreadIs == ThreadInv => Thread!TypeOK /\ Thread!NoOlderSkipped /\ Thread!PinsOfConversation
<1> SUFFICES ASSUME ThreadInv PROVE Thread!TypeOK /\ Thread!NoOlderSkipped /\ Thread!PinsOfConversation  OBVIOUS
<1>1. Thread!TypeOK
  <2>1. v4 \subseteq ThreadRequests  BY DEF ThreadInv, RequestInv
  <2>2. ThreadRequests = Thread!Flights
    BY DEF ThreadRequests, LoadRequests, OlderRequests, PinRequests, Thread!Flights
  <2> QED  BY <2>1, <2>2 DEF ThreadInv, LogInv, ThreadPageInv, ThreadPages, Thread!TypeOK
<1>2. Thread!PinsOfConversation  BY DEF ThreadInv, ThreadPageInv, Thread!PinsOfConversation
<1>3. Thread!NoOlderSkipped
  <2> SUFFICES ASSUME v3.met, NEW j \in v3.shown, NEW i \in Thread!OfConv(v3.conv, Len(v1)), i < j
               PROVE  i \in v3.shown \/ i < v3.cursor
    BY DEF Thread!NoOlderSkipped
  <2>1. i \in 1 .. Len(v1) /\ v1[i] = v3.conv  BY DEF Thread!OfConv
  <2> QED  BY <2>1 DEF ThreadInv, ThreadPageInv, Covered
<1> QED  BY <1>1, <1>2, <1>3

ThreadPart == which = "thread" => ThreadInv

LEMMA ThreadStart == Init => ThreadPart
  BY PagesConstants, ThreadInitEstablishes DEF Init, ThreadPart

LEMMA ThreadStep == ThreadPart /\ [Next]_vars => ThreadPart'
<1> SUFFICES ASSUME ThreadPart, [Next]_vars PROVE ThreadPart'
  OBVIOUS
<1>1. CASE which = "thread"
  <2>1. [Thread!Next]_Thread!vars  BY <1>1 DEF Next, vars, Step, Thread!vars
  <2>2. which' = "thread"  BY <1>1 DEF Next, vars, Step
  <2> QED  BY <1>1, <2>1, <2>2, PagesConstants, ThreadStepKeeps DEF ThreadPart
<1>2. CASE which # "thread"  BY <1>2 DEF Next, vars, Step, ThreadPart
<1> QED  BY <1>1, <1>2

-----------------------------------------------------------------------------
(* What is read aloud. *)

SpeechPages ==
  [seen : SUBSET SpeechSegments, open : BOOLEAN, eligible : SUBSET SpeechSegments, reconcile : BOOLEAN,
   queued : SUBSET Speech!Items, consumed : SUBSET Speech!Items, hand : Speech!Items \cup {Speech!NoItem}, playing : BOOLEAN]
SpeechStates == Speech!Shut \cup {"READY", "PLAYING", "VOICE_LOADING", "ERROR"}
SpeechManagers == [state : SpeechStates, pump : BOOLEAN, priming : BOOLEAN]
JobRows ==
  [item : Speech!Items \cup {Speech!NoItem}, auto : BOOLEAN, utter : BOOLEAN, waits : BOOLEAN, begun : BOOLEAN, over : BOOLEAN]
OverRow == [Speech!NoJob EXCEPT !.over = TRUE]
Running(js) == {j \in Speech!Jobs : js[j].item # Speech!NoItem}

\* A job was never begun, or is over, or speaks of a segment.
RowsInv(js) ==
  /\ js \in [Speech!Jobs -> JobRows]
  /\ \A j \in Speech!Jobs : js[j] = Speech!NoJob \/ js[j] = OverRow \/ (js[j].item \in Speech!Items /\ ~js[j].over)

\* What has a voice, or waits for one, is the active job.
VoiceInv(js, a) ==
  /\ a \in 0 .. SpeechJobs
  /\ a # 0 => a \in Running(js) /\ (js[a].utter \/ js[a].waits)
  /\ \A j \in Speech!Jobs : js[j].utter => a = j

\* The queue holds automatic jobs, each once, that were not begun.
LineInv(js, a, q) ==
  /\ q \in Seq(Speech!Jobs)
  /\ \A n \in 1 .. Len(q) : /\ q[n] # a /\ js[q[n]].item # Speech!NoItem
                            /\ js[q[n]].auto /\ ~js[q[n]].utter /\ ~js[q[n]].begun
  /\ \A m, n \in 1 .. Len(q) : q[m] = q[n] => m = n

\* A segment has one automatic job, which is not begun before it is spoken.
KeysInv(js, st) ==
  /\ \A j \in Running(js) : js[j].auto /\ ~js[j].begun => js[j].item \notin st
  /\ \A j, k \in Running(js) : js[j].auto /\ js[k].auto /\ js[j].item = js[k].item => j = k

JobsInv(js, a, q, st) == RowsInv(js) /\ VoiceInv(js, a) /\ LineInv(js, a, q) /\ KeysInv(js, st)

\* What waits has somebody to call it.
Fetched(m, a, q) == q # <<>> => m.pump \/ m.state \in Speech!Shut \/ a # 0

Counted(st, s) ==
  /\ st \subseteq Speech!Items
  /\ s \in [Speech!Items -> Nat]
  /\ \A i \in Speech!Items : s[i] = IF i \in st THEN 1 ELSE 0

SpeechInv ==
  /\ v1 \subseteq SpeechSegments /\ v2 \in SpeechPages /\ v3 \in SpeechManagers
  /\ JobsInv(v6, v5, v4, v7)
  /\ Fetched(v3, v5, v4)
  /\ Counted(v7, v8)

LEMMA SpeechBounds ==
  /\ Speech!NoItem \notin Speech!Items /\ IsFiniteSet(Speech!Items)
  /\ SpeechJobs \in Nat /\ Speech!Jobs = 1 .. SpeechJobs
  /\ 0 \notin Speech!Jobs /\ \A j \in Speech!Jobs : j \in Nat /\ j \in 0 .. SpeechJobs
  /\ Speech!NoJob = [item |-> Speech!NoItem, auto |-> FALSE, utter |-> FALSE, waits |-> FALSE, begun |-> FALSE, over |-> FALSE]
  /\ Speech!NoJob \in JobRows /\ OverRow \in JobRows
  /\ Speech!NoJob.item = Speech!NoItem /\ ~Speech!NoJob.utter /\ ~Speech!NoJob.over /\ ~Speech!NoJob.waits
  /\ OverRow.item = Speech!NoItem /\ ~OverRow.utter /\ OverRow.over /\ ~OverRow.waits
<1>0. /\ SpeechJobs \in Nat /\ 0 \notin SpeechSegments
      /\ IsFiniteSet(SpeechSegments) /\ IsFiniteSet(SpeechLanguages)
  BY PagesConstants DEF Speech!SpeechAssumption, Speech!IsFiniteSet, IsFiniteSet
<1>1. SpeechJobs \in Nat /\ Speech!Jobs = 1 .. SpeechJobs /\ Speech!NoItem \notin Speech!Items /\ IsFiniteSet(Speech!Items)
  <2>1. IsFiniteSet(Speech!Items)  BY <1>0, FS_Product DEF Speech!Items
  <2>2. Speech!NoItem \notin Speech!Items  BY <1>0 DEF Speech!Items, Speech!NoItem
  <2> QED  BY <1>0, <2>1, <2>2 DEF Speech!Jobs
<1>2. Speech!NoJob = [item |-> Speech!NoItem, auto |-> FALSE, utter |-> FALSE, waits |-> FALSE, begun |-> FALSE, over |-> FALSE]
  BY DEF Speech!NoJob
<1>3. Speech!NoJob \in JobRows /\ OverRow \in JobRows  BY <1>2 DEF JobRows, OverRow
<1>4. OverRow.item = Speech!NoItem /\ ~OverRow.utter /\ OverRow.over /\ ~OverRow.waits  BY <1>2 DEF OverRow
<1> QED  BY <1>1, <1>2, <1>3, <1>4

\* The jobs that run are the living ones.
LEMMA RunningIsAlive ==
  ASSUME RowsInv(v6)
  PROVE  /\ Speech!Alive = Running(v6)
         /\ \A j \in Speech!Free : v6[j] = Speech!NoJob
         /\ Speech!Free \subseteq Speech!Jobs
<1>1. ASSUME NEW j \in Speech!Jobs PROVE (v6[j] # Speech!NoJob /\ ~v6[j].over) <=> v6[j].item # Speech!NoItem
  BY SpeechBounds DEF RowsInv
<1> QED  BY <1>1 DEF Speech!Alive, Running, Speech!Free

\* One job's record is another.
LEMMA OneJobChanges ==
  ASSUME NEW js, RowsInv(js), NEW j \in Speech!Jobs, NEW r \in JobRows,
         r = OverRow \/ (r.item \in Speech!Items /\ ~r.over),
         NEW js2 \in [Speech!Jobs -> JobRows], js2[j] = r, \A k \in Speech!Jobs \ {j} : js2[k] = js[k]
  PROVE  RowsInv(js2)
BY DEF RowsInv

\* The active job ends, and nobody follows it yet.
LEMMA FinishKeeps ==
  ASSUME SpeechInv, NEW j \in Speech!Jobs, v6[j].utter, NEW state \in {"READY", "ERROR"}, Speech!Finish(j, state)
  PROVE  SpeechInv'
<1> DEFINE after == [v6 EXCEPT ![j] = OverRow]
<1>1. /\ v6' = after /\ v5' = 0 /\ UNCHANGED <<v1, v4, v7, v8>>
      /\ v2' = Speech!Forgotten(v2, {j})
      /\ v3' = Speech!FinishPumps([v3 EXCEPT !.state = state])
  BY DEF Speech!Finish, Speech!Over, OverRow
<1>2. JobsInv(v6, v5, v4, v7) /\ v5 = j  BY DEF SpeechInv, JobsInv, VoiceInv
<1>3. RowsInv(v6) /\ RowsInv(after) /\ after[j] = OverRow /\ \A k \in Speech!Jobs \ {j} : after[k] = v6[k]
  <2>1. RowsInv(v6) /\ v6 \in [Speech!Jobs -> JobRows] /\ OverRow \in JobRows
    BY <1>2, SpeechBounds DEF JobsInv, RowsInv
  <2>2. /\ after \in [Speech!Jobs -> JobRows] /\ after[j] = OverRow
        /\ \A k \in Speech!Jobs \ {j} : after[k] = v6[k]
    BY <2>1
  <2> HIDE DEF after
  <2> QED  BY <2>1, <2>2, OneJobChanges
<1> HIDE DEF after
<1>4. Running(after) = Running(v6) \ {j}  BY <1>3, SpeechBounds DEF Running
<1>5. VoiceInv(after, 0)
  BY <1>2, <1>3, SpeechBounds DEF JobsInv, VoiceInv
<1>6. LineInv(after, 0, v4)
  <2>1. LineInv(v6, j, v4)  BY <1>2 DEF JobsInv
  <2>2. ASSUME NEW n \in 1 .. Len(v4) PROVE v4[n] # 0 /\ after[v4[n]] = v6[v4[n]]
    <3>1. v4[n] \in Speech!Jobs /\ v4[n] # j  BY <2>1 DEF LineInv
    <3> QED  BY <3>1, <1>3, SpeechBounds
  <2> QED  BY <2>1, <2>2 DEF LineInv
<1>7. KeysInv(after, v7)  BY <1>2, <1>3, <1>4 DEF JobsInv, KeysInv, Running
<1>8. v3' \in SpeechManagers /\ v3'.pump = TRUE
  <2>1. v3 \in SpeechManagers  BY DEF SpeechInv
  <2>2. state \in SpeechStates /\ v3' = [v3 EXCEPT !.state = state, !.pump = TRUE]
    BY <1>1, <2>1 DEF SpeechManagers, SpeechStates, Speech!FinishPumps, Speech!Pumped
  <2> QED  BY <2>1, <2>2 DEF SpeechManagers
<1>9. v2' \in SpeechPages
  <2> DEFINE gone == {v6[k].item : k \in {i \in {j} : v6[i].auto}}
             hand == IF \E k \in {j} : ~v6[k].auto THEN Speech!NoItem ELSE v2.hand
             playing == v2.playing /\ \A k \in {j} : v6[k].auto
  <2>0. v2 \in SpeechPages  BY DEF SpeechInv
  <2>1. /\ v2' = [v2 EXCEPT !.queued = v2.queued \ gone, !.hand = hand, !.playing = playing]
        /\ v2.queued \ gone \subseteq Speech!Items /\ hand \in Speech!Items \cup {Speech!NoItem} /\ playing \in BOOLEAN
    BY <1>1, <2>0 DEF Speech!Forgotten, SpeechPages
  <2> HIDE DEF gone, hand, playing
  <2> QED  BY <2>0, <2>1 DEF SpeechPages
<1> QED  BY <1>1, <1>3, <1>5, <1>6, <1>7, <1>8, <1>9 DEF SpeechInv, JobsInv, Fetched

\* It is the first of the queue again.
LEMMA RetryKeeps ==
  ASSUME SpeechInv, NEW j \in Speech!Jobs, v6[j].utter, v6[j].auto, ~v6[j].begun,
         NEW state \in {"UNLOCK_REQUIRED", "BLOCKED"}, Speech!Retry(j, state)
  PROVE  SpeechInv'
<1> DEFINE r == [v6[j] EXCEPT !.utter = FALSE]
           after == [v6 EXCEPT ![j] = r]
<1>1. /\ v6' = [v6 EXCEPT ![j].utter = FALSE] /\ v5' = 0 /\ v4' = <<j>> \o v4 /\ UNCHANGED <<v1, v2, v7, v8>>
      /\ v3' = [v3 EXCEPT !.state = state]
  BY DEF Speech!Retry, Speech!Set
<1>2. JobsInv(v6, v5, v4, v7) /\ v5 = j /\ v6 \in [Speech!Jobs -> JobRows]
  BY DEF SpeechInv, JobsInv, VoiceInv, RowsInv
<1>3. j \in Running(v6)  BY <1>2, SpeechBounds DEF JobsInv, VoiceInv
<1>4. /\ v6' = after
      /\ r \in JobRows /\ r.item = v6[j].item /\ r.auto /\ ~r.utter /\ ~r.begun /\ r.over = v6[j].over
  BY <1>1, <1>2 DEF JobRows
<1>5. v6[j].item \in Speech!Items /\ ~v6[j].over
  BY <1>2, <1>3, SpeechBounds DEF JobsInv, RowsInv, Running
<1> HIDE DEF r
<1>6. RowsInv(after) /\ after[j] = r /\ \A k \in Speech!Jobs \ {j} : after[k] = v6[k]
  <2>1. /\ after \in [Speech!Jobs -> JobRows] /\ after[j] = r
        /\ \A k \in Speech!Jobs \ {j} : after[k] = v6[k]
    BY <1>2, <1>4
  <2> HIDE DEF after
  <2> QED  BY <1>2, <1>4, <1>5, <2>1, OneJobChanges DEF JobsInv
<1> HIDE DEF after
<1>7. Running(after) = Running(v6)  BY <1>4, <1>6 DEF Running
<1>8. VoiceInv(after, 0)  BY <1>2, <1>4, <1>6, SpeechBounds DEF JobsInv, VoiceInv
<1>9. LineInv(after, 0, v4')
  <2>1. v4 \in Seq(Speech!Jobs) /\ \A n \in 1 .. Len(v4) : v4[n] \in Speech!Jobs /\ v4[n] # j
    BY <1>2 DEF JobsInv, LineInv
  <2>2. /\ v4' \in Seq(Speech!Jobs) /\ Len(v4') = Len(v4) + 1 /\ v4'[1] = j
        /\ \A n \in 2 .. Len(v4') : n - 1 \in 1 .. Len(v4) /\ v4'[n] = v4[n - 1]
    BY <1>1, <2>1
  <2>3. ASSUME NEW n \in 1 .. Len(v4')
        PROVE  /\ v4'[n] # 0 /\ after[v4'[n]].item # Speech!NoItem
               /\ after[v4'[n]].auto /\ ~after[v4'[n]].utter /\ ~after[v4'[n]].begun
    <3>1. CASE n = 1  BY <1>4, <1>5, <1>6, <2>2, <3>1, SpeechBounds
    <3>2. CASE n # 1
      <4>1. n \in 2 .. Len(v4') /\ n - 1 \in 1 .. Len(v4) /\ v4'[n] = v4[n - 1]
        <5>1. n \in 2 .. Len(v4')  BY <2>1, <2>2, <3>2
        <5> QED  BY <2>2, <5>1
      <4>2. v4[n - 1] \in Speech!Jobs \ {j}  BY <2>1, <4>1
      <4> QED  BY <1>2, <1>6, <4>1, <4>2, SpeechBounds DEF JobsInv, LineInv
    <3> QED  BY <3>1, <3>2
  <2>4. ASSUME NEW m \in 1 .. Len(v4'), NEW n \in 1 .. Len(v4'), v4'[m] = v4'[n] PROVE m = n
    <3>1. m \in 2 .. Len(v4') \/ m = 1  BY <2>1, <2>2
    <3>2. n \in 2 .. Len(v4') \/ n = 1  BY <2>1, <2>2
    <3>3. CASE m = 1 \/ n = 1  BY <2>1, <2>2, <2>4, <3>1, <3>2, <3>3
    <3>4. CASE m \in 2 .. Len(v4') /\ n \in 2 .. Len(v4')
      <4>1. m - 1 \in 1 .. Len(v4) /\ n - 1 \in 1 .. Len(v4) /\ v4[m - 1] = v4[n - 1]  BY <2>2, <2>4, <3>4
      <4>2. m - 1 = n - 1  BY <1>2, <4>1 DEF JobsInv, LineInv
      <4> QED  BY <3>4, <4>2
    <3> QED  BY <3>1, <3>2, <3>3, <3>4
  <2> QED  BY <2>2, <2>3, <2>4 DEF LineInv
<1>10. KeysInv(after, v7)  BY <1>2, <1>4, <1>6, <1>7 DEF JobsInv, KeysInv, Running
<1>11. v3' \in SpeechManagers /\ v3'.state \in Speech!Shut
  BY <1>1 DEF SpeechInv, SpeechManagers, SpeechStates, Speech!Shut
<1> QED  BY <1>1, <1>4, <1>6, <1>8, <1>9, <1>10, <1>11 DEF SpeechInv, JobsInv, Fetched

\* The first of the queue is taken, or nothing is.
LEMMA PumpKeeps ==
  ASSUME SpeechInv, NEW gesture \in BOOLEAN, NEW voices \in BOOLEAN, Speech!Pump(gesture, voices),
         UNCHANGED <<v1, v2, v7, v8>>
  PROVE  SpeechInv'
<1> DEFINE h == Head(v4)
           now == gesture \/ ~v6[h].auto \/ voices
           shut == v6[h].auto /\ ~gesture /\ v3.state \in Speech!Shut
           p == v3.pump /\ gesture
           empty == v5 # 0 \/ v4 = <<>>
<1>1. /\ v3 \in SpeechManagers /\ JobsInv(v6, v5, v4, v7) /\ v6 \in [Speech!Jobs -> JobRows]
      /\ v4 \in Seq(Speech!Jobs) /\ p \in BOOLEAN
  BY DEF SpeechInv, JobsInv, RowsInv, LineInv, SpeechManagers
<1>2. CASE empty
  <2>1. v3' = [v3 EXCEPT !.pump = p] /\ v5' = v5 /\ v4' = v4 /\ v6' = v6
    BY <1>1, <1>2 DEF Speech!Pump, SpeechManagers
  <2> HIDE DEF p
  <2>2. v3' \in SpeechManagers  BY <1>1, <2>1 DEF SpeechManagers
  <2> QED  BY <1>2, <2>1, <2>2 DEF SpeechInv, Fetched
<1>3. CASE ~empty /\ shut
  <2>1. v3' = [v3 EXCEPT !.state = "UNLOCK_REQUIRED", !.pump = p] /\ v5' = v5 /\ v4' = v4 /\ v6' = v6
    BY <1>1, <1>3 DEF Speech!Pump, SpeechManagers
  <2> HIDE DEF p
  <2>2. v3' \in SpeechManagers /\ v3'.state \in Speech!Shut
    BY <1>1, <2>1 DEF SpeechManagers, SpeechStates, Speech!Shut
  <2> QED  BY <2>1, <2>2 DEF SpeechInv, Fetched
<1>4. CASE ~empty /\ ~shut
  <2> DEFINE s == IF ~now THEN "VOICE_LOADING" ELSE IF v3.state = "PLAYING" THEN v3.state ELSE "READY"
             r == IF now THEN [v6[h] EXCEPT !.utter = TRUE] ELSE [v6[h] EXCEPT !.waits = TRUE]
  <2>1. /\ v5' = h /\ v4' = Tail(v4) /\ v3' = [v3 EXCEPT !.state = s, !.pump = p]
        /\ v6' = IF now THEN [v6 EXCEPT ![h].utter = TRUE] ELSE [v6 EXCEPT ![h].waits = TRUE]
    BY <1>1, <1>4 DEF Speech!Pump, SpeechManagers
  <2>2. v5 = 0 /\ v4 # <<>>  BY <1>4
  <2>3. v6' = [v6 EXCEPT ![h] = r]  BY <2>1
  <2>4. /\ h = v4[1] /\ 1 \in 1 .. Len(v4) /\ h \in Speech!Jobs
        /\ Len(v4) \in Nat /\ Tail(v4) \in Seq(Speech!Jobs) /\ Len(Tail(v4)) = Len(v4) - 1
        /\ \A n \in 1 .. Len(v4) - 1 : n + 1 \in 1 .. Len(v4) /\ Tail(v4)[n] = v4[n + 1]
    BY <1>1, <2>2
  <2>5. v6[h].item # Speech!NoItem /\ v6[h].auto /\ ~v6[h].utter /\ ~v6[h].begun
    BY <1>1, <2>4 DEF JobsInv, LineInv
  <2>6. /\ r \in JobRows /\ r.item = v6[h].item /\ r.auto = v6[h].auto /\ r.begun = v6[h].begun /\ r.over = v6[h].over
        /\ r.utter \/ r.waits
    BY <1>1, <2>4 DEF JobRows
  <2>7. s \in SpeechStates  BY <1>1 DEF SpeechManagers, SpeechStates
  <2> HIDE DEF s, r, p, h, now, shut
  <2>8. v3' \in SpeechManagers  BY <1>1, <2>1, <2>7 DEF SpeechManagers
  <2>9. RowsInv(v6) /\ v6[h].item \in Speech!Items /\ ~v6[h].over  BY <1>1, <2>4, <2>5, SpeechBounds DEF JobsInv, RowsInv
  <2>10. RowsInv(v6') /\ v6'[h] = r /\ \A k \in Speech!Jobs \ {h} : v6'[k] = v6[k]
    <3>1. v6' \in [Speech!Jobs -> JobRows] /\ v6'[h] = r /\ \A k \in Speech!Jobs \ {h} : v6'[k] = v6[k]
      BY <1>1, <2>3, <2>4, <2>6
    <3> QED  BY <2>4, <2>6, <2>9, <3>1, OneJobChanges
  <2>11. Running(v6') = Running(v6) /\ h \in Running(v6)  BY <2>4, <2>5, <2>6, <2>10 DEF Running
  <2>12. VoiceInv(v6', h)
    BY <1>1, <2>2, <2>4, <2>6, <2>10, <2>11, SpeechBounds DEF JobsInv, VoiceInv
  <2>13. LineInv(v6', h, v4')
    <3>1. ASSUME NEW n \in 1 .. Len(v4')
          PROVE  /\ v4'[n] = v4[n + 1] /\ n + 1 \in 1 .. Len(v4) /\ v4'[n] \in Speech!Jobs /\ v4'[n] # h
      <4>1. n \in 1 .. Len(v4) - 1  BY <2>1, <2>4
      <4>2. v4'[n] = v4[n + 1] /\ n + 1 \in 1 .. Len(v4) /\ n + 1 # 1  BY <2>1, <2>4, <4>1
      <4>3. v4[n + 1] # v4[1]  BY <1>1, <2>4, <4>2 DEF JobsInv, LineInv
      <4> QED  BY <1>1, <2>4, <4>2, <4>3
    <3>2. ASSUME NEW n \in 1 .. Len(v4')
          PROVE  v6'[v4'[n]].item # Speech!NoItem /\ v6'[v4'[n]].auto /\ ~v6'[v4'[n]].utter /\ ~v6'[v4'[n]].begun
      BY <1>1, <2>10, <3>1 DEF JobsInv, LineInv
    <3>3. ASSUME NEW m \in 1 .. Len(v4'), NEW n \in 1 .. Len(v4'), v4'[m] = v4'[n] PROVE m = n
      <4>1. m + 1 = n + 1  BY <1>1, <3>1, <3>3 DEF JobsInv, LineInv
      <4>2. m \in Nat /\ n \in Nat  OBVIOUS
      <4> QED  BY <4>1, <4>2
    <3> QED  BY <2>1, <2>4, <3>1, <3>2, <3>3 DEF LineInv
  <2>14. KeysInv(v6', v7)  BY <1>1, <2>4, <2>6, <2>10, <2>11 DEF JobsInv, KeysInv, Running
  <2> QED  BY <2>1, <2>4, <2>8, <2>10, <2>12, <2>13, <2>14, SpeechBounds DEF SpeechInv, JobsInv, Fetched
<1> QED  BY <1>2, <1>3, <1>4

\* A job that runs gets its voice, or begins.
LEMMA OneVoiceMoves ==
  ASSUME SpeechInv, NEW j \in Running(v6), NEW r \in JobRows, r.item = v6[j].item, r.auto = v6[j].auto, ~r.over,
         r.utter => v5 = j, v6[j].utter => r.utter, v5 = j => r.utter \/ r.waits,
         NEW st, st \subseteq v7 \cup {v6[j].item},
         v6[j].begun => r.begun, r.begun => v5 = j \/ v6[j].begun,
         r.begun \/ st \subseteq v7, r.auto \/ st \subseteq v7,
         NEW js, js = [v6 EXCEPT ![j] = r]
  PROVE  JobsInv(js, v5, v4, st)
<1>1. JobsInv(v6, v5, v4, v7) /\ j \in Speech!Jobs /\ RowsInv(v6)  BY DEF SpeechInv, JobsInv, Running
<1>2. v6[j].item \in Speech!Items  BY <1>1, SpeechBounds DEF RowsInv, Running
<1>3. RowsInv(js) /\ js[j] = r /\ \A k \in Speech!Jobs \ {j} : js[k] = v6[k]
  <2>1. js \in [Speech!Jobs -> JobRows] /\ js[j] = r /\ \A k \in Speech!Jobs \ {j} : js[k] = v6[k]
    BY <1>1 DEF RowsInv
  <2> QED  BY <1>1, <1>2, <2>1, OneJobChanges
<1>4. Running(js) = Running(v6)  BY <1>3 DEF Running
<1>5. VoiceInv(js, v5)  BY <1>1, <1>3, <1>4, SpeechBounds DEF JobsInv, VoiceInv, Running
<1>6. LineInv(js, v5, v4)
  <2>1. ASSUME NEW n \in 1 .. Len(v4)
        PROVE  /\ v4[n] # v5 /\ js[v4[n]].item # Speech!NoItem
               /\ js[v4[n]].auto /\ ~js[v4[n]].utter /\ ~js[v4[n]].begun
    <3>1. /\ v4[n] \in Speech!Jobs /\ v4[n] # v5 /\ v6[v4[n]].item # Speech!NoItem
          /\ v6[v4[n]].auto /\ ~v6[v4[n]].utter /\ ~v6[v4[n]].begun
      BY <1>1 DEF JobsInv, LineInv
    <3>2. CASE v4[n] = j  BY <1>3, <3>1, <3>2
    <3>3. CASE v4[n] # j  BY <1>3, <3>1, <3>3
    <3> QED  BY <3>2, <3>3
  <2> QED  BY <1>1, <2>1 DEF JobsInv, LineInv
<1>7. KeysInv(js, st)
  <2>1. ASSUME NEW k \in Running(js), NEW l \in Running(js), js[k].auto, js[l].auto, js[k].item = js[l].item PROVE k = l
    BY <1>1, <1>3, <1>4, <2>1 DEF JobsInv, KeysInv, Running
  <2>2. ASSUME NEW k \in Running(js), js[k].auto, ~js[k].begun PROVE js[k].item \notin st
    <3>1. v6[k].auto /\ ~v6[k].begun /\ v6[k].item = js[k].item /\ k \in Running(v6)
      BY <1>3, <1>4, <2>2 DEF Running
    <3>2. v6[k].item \notin v7  BY <1>1, <3>1 DEF JobsInv, KeysInv
    <3>3. CASE k = j  BY <1>3, <2>2, <3>1, <3>2, <3>3
    <3>4. CASE k # j
      <4>1. v6[j].auto => v6[k].item # v6[j].item  BY <1>1, <3>1, <3>4 DEF JobsInv, KeysInv
      <4> QED  BY <3>1, <3>2, <4>1
    <3> QED  BY <3>3, <3>4
  <2> QED  BY <2>1, <2>2 DEF KeysInv
<1> QED  BY <1>3, <1>5, <1>6, <1>7 DEF JobsInv

LEMMA VoicesKeepSpeech ==
  ASSUME SpeechInv, NEW j \in Speech!Jobs, Speech!VoicesArrive(j)
  PROVE  SpeechInv'
<1> DEFINE u == v6[j].utter \/ v5 = j
           r == [v6[j] EXCEPT !.waits = FALSE, !.utter = u]
<1>1. /\ v6[j].waits /\ UNCHANGED <<v1, v2, v4, v5, v7, v8>>
      /\ v6' = [v6 EXCEPT ![j].waits = FALSE, ![j].utter = @ \/ v5 = j]
      /\ v3' = IF v5 = j THEN [v3 EXCEPT !.state = "READY"] ELSE v3
  BY DEF Speech!VoicesArrive, Speech!Set
<1>2. RowsInv(v6) /\ v6 \in [Speech!Jobs -> JobRows] /\ VoiceInv(v6, v5)  BY DEF SpeechInv, JobsInv, RowsInv
<1>3. j \in Running(v6) /\ ~v6[j].over  BY <1>1, <1>2, SpeechBounds DEF RowsInv, Running
<1>4. u \in BOOLEAN  BY <1>2 DEF JobRows
<1>5. v6' = [v6 EXCEPT ![j] = r]
  <2>1. [v6 EXCEPT ![j].waits = FALSE, ![j].utter = @ \/ v5 = j]
          = [v6 EXCEPT ![j].waits = FALSE, ![j].utter = u]
    BY <1>2 DEF JobRows
  <2> HIDE DEF u
  <2> QED  BY <1>1, <1>2, <2>1 DEF JobRows
<1>6. (u => v5 = j) /\ (v6[j].utter => u) /\ (v5 = j => u)  BY <1>2 DEF VoiceInv
<1> HIDE DEF u
<1>7. r \in JobRows /\ r.item = v6[j].item /\ r.auto = v6[j].auto /\ r.begun = v6[j].begun /\ ~r.over /\ r.utter = u
  BY <1>2, <1>3, <1>4 DEF JobRows
<1> HIDE DEF r
<1>8. JobsInv(v6', v5, v4, v7)  BY <1>3, <1>5, <1>6, <1>7, OneVoiceMoves
<1>9. v3' \in SpeechManagers /\ (v3' = v3 \/ v5 = j)
  BY <1>1 DEF SpeechInv, SpeechManagers, SpeechStates
<1>10. Fetched(v3', v5, v4)  BY <1>9, SpeechBounds DEF SpeechInv, Fetched
<1> QED  BY <1>1, <1>8, <1>9, <1>10 DEF SpeechInv

LEMMA UnlockKeeps ==
  ASSUME SpeechInv, Speech!Unlock
  PROVE  SpeechInv'
<1>1. UNCHANGED <<v1, v2, v7, v8>>  BY DEF Speech!Unlock
<1>2. CASE v5 = 0 /\ v4 # <<>>
  BY <1>1, <1>2, PumpKeeps DEF Speech!Unlock
<1>3. CASE ~(v5 = 0 /\ v4 # <<>>) /\ v5 # 0 /\ ~v6[v5].begun /\ ~v6[v5].utter
  <2> DEFINE r == [v6[v5] EXCEPT !.utter = TRUE]
  <2>1. v6' = [v6 EXCEPT ![v5] = r] /\ UNCHANGED <<v3, v4, v5>>  BY <1>3 DEF Speech!Unlock
  <2>2. RowsInv(v6) /\ v6 \in [Speech!Jobs -> JobRows] /\ VoiceInv(v6, v5)  BY DEF SpeechInv, JobsInv, RowsInv
  <2>3. v5 \in Running(v6) /\ v5 \in Speech!Jobs  BY <1>3, <2>2 DEF VoiceInv, Running
  <2>4. ~v6[v5].over  BY <2>2, <2>3, SpeechBounds DEF RowsInv, Running
  <2>5. r \in JobRows /\ r.item = v6[v5].item /\ r.auto = v6[v5].auto /\ r.begun = v6[v5].begun /\ ~r.over /\ r.utter
    BY <2>2, <2>3, <2>4 DEF JobRows
  <2> HIDE DEF r
  <2>6. JobsInv(v6', v5, v4, v7)  BY <2>1, <2>3, <2>5, OneVoiceMoves
  <2> QED  BY <1>1, <2>1, <2>6 DEF SpeechInv
<1>4. CASE ~(v5 = 0 /\ v4 # <<>>) /\ ~(v5 # 0 /\ ~v6[v5].begun /\ ~v6[v5].utter)
  <2>1. UNCHANGED <<v4, v5, v6>> /\ (v3' = v3 \/ v3' = [v3 EXCEPT !.priming = TRUE])
    BY <1>4 DEF Speech!Unlock
  <2>2. v3' \in SpeechManagers /\ v3'.pump = v3.pump /\ v3'.state = v3.state
    BY <2>1 DEF SpeechInv, SpeechManagers
  <2> QED  BY <1>1, <2>1, <2>2 DEF SpeechInv, Fetched
<1> QED  BY <1>2, <1>3, <1>4

LEMMA PrimeKeeps ==
  ASSUME SpeechInv, NEW ok \in BOOLEAN, Speech!PrimeSettles(ok)
  PROVE  SpeechInv'
<1>1. /\ UNCHANGED <<v1, v2, v4, v5, v6, v7, v8>>
      /\ v3' = IF ok THEN [v3 EXCEPT !.priming = FALSE, !.state = "READY", !.pump = TRUE]
               ELSE [v3 EXCEPT !.priming = FALSE, !.state = "UNLOCK_REQUIRED"]
  BY DEF Speech!PrimeSettles, Speech!Pumped, SpeechInv, SpeechManagers
<1>2. v3' \in SpeechManagers /\ (v3'.pump \/ v3'.state \in Speech!Shut)
  BY <1>1 DEF SpeechInv, SpeechManagers, SpeechStates, Speech!Shut
<1> QED  BY <1>1, <1>2 DEF SpeechInv, Fetched

\* The synthesizer begins: a segment's automatic job was never begun.
LEMMA StartsKeeps ==
  ASSUME SpeechInv, NEW j \in Speech!Jobs, Speech!Starts(j)
  PROVE  SpeechInv'
<1> DEFINE r == [v6[j] EXCEPT !.begun = TRUE]
           i == v6[j].item
<1>1. /\ v6[j].utter /\ ~v6[j].begun
      /\ v6' = [v6 EXCEPT ![j] = r]
      /\ v7' = IF v6[j].auto THEN v7 \cup {i} ELSE v7
      /\ v8' = IF v6[j].auto THEN [v8 EXCEPT ![i] = @ + 1] ELSE v8
      /\ v2' = IF v6[j].auto THEN [v2 EXCEPT !.consumed = @ \cup {i}, !.queued = @ \ {i}]
               ELSE [v2 EXCEPT !.playing = TRUE]
      /\ v3' = [v3 EXCEPT !.state = "PLAYING"]
      /\ UNCHANGED <<v1, v4, v5>>
  BY DEF Speech!Starts, Speech!Set
<1>2. JobsInv(v6, v5, v4, v7) /\ RowsInv(v6) /\ v6 \in [Speech!Jobs -> JobRows] /\ VoiceInv(v6, v5)
  BY DEF SpeechInv, JobsInv, RowsInv
<1>3. v5 = j /\ j \in Running(v6) /\ ~v6[j].over /\ i \in Speech!Items
  BY <1>1, <1>2, SpeechBounds DEF RowsInv, Running, VoiceInv
<1>4. r \in JobRows /\ r.item = i /\ r.auto = v6[j].auto /\ r.begun /\ ~r.over /\ r.utter
  BY <1>1, <1>2, <1>3 DEF JobRows
<1> HIDE DEF r
<1>5. JobsInv(v6', v5, v4, v7')  BY <1>1, <1>3, <1>4, OneVoiceMoves
<1>6. Counted(v7', v8')
  <2>1. CASE v6[j].auto
    <3>1. i \notin v7  BY <1>1, <1>2, <1>3, <2>1 DEF JobsInv, KeysInv
    <3>2. /\ v7 \subseteq Speech!Items /\ v8 \in [Speech!Items -> Nat]
          /\ \A k \in Speech!Items : v8[k] = IF k \in v7 THEN 1 ELSE 0
      BY DEF SpeechInv, Counted
    <3> HIDE DEF i
    <3>3. v7' = v7 \cup {i} /\ v8' = [v8 EXCEPT ![i] = v8[i] + 1]  BY <1>1, <2>1
    <3>4. v8[i] + 1 = 1  BY <1>3, <3>1, <3>2
    <3>5. v8' = [v8 EXCEPT ![i] = 1]  BY <3>3, <3>4
    <3> QED  BY <1>3, <3>2, <3>3, <3>5 DEF Counted
  <2>2. CASE ~v6[j].auto  BY <1>1, <2>2 DEF SpeechInv
  <2> QED  BY <2>1, <2>2
<1>7. v2' \in SpeechPages
  <2>0. v2 \in SpeechPages  BY DEF SpeechInv
  <2>1. CASE v6[j].auto
    <3>1. v2' = [v2 EXCEPT !.consumed = @ \cup {i}, !.queued = @ \ {i}]  BY <1>1, <2>1
    <3> HIDE DEF i
    <3> QED  BY <1>3, <2>0, <3>1 DEF SpeechPages
  <2>2. CASE ~v6[j].auto  BY <1>1, <2>0, <2>2 DEF SpeechPages
  <2> QED  BY <2>1, <2>2
<1>8. v3' \in SpeechManagers  BY <1>1 DEF SpeechInv, SpeechManagers, SpeechStates
<1>9. Fetched(v3', v5, v4)  BY <1>3, SpeechBounds DEF Fetched
<1> QED  BY <1>1, <1>5, <1>6, <1>7, <1>8, <1>9 DEF SpeechInv

\* Everything is cancelled.
LEMMA CancelledRows ==
  ASSUME SpeechInv
  PROVE  /\ RowsInv(Speech!Cancelled) /\ Running(Speech!Cancelled) = {}
         /\ \A j \in Speech!Jobs : ~Speech!Cancelled[j].utter
         /\ \A j \in Speech!Free : Speech!Cancelled[j] = Speech!NoJob
         /\ Speech!Forgotten(v2, Speech!Alive) \in SpeechPages
<1>1. RowsInv(v6) /\ v6 \in [Speech!Jobs -> JobRows]  BY DEF SpeechInv, JobsInv, RowsInv
<1>2. Speech!Alive = Running(v6)  BY <1>1, RunningIsAlive
<1>3. ASSUME NEW j \in Speech!Jobs
      PROVE  Speech!Cancelled[j] = IF v6[j].item # Speech!NoItem THEN OverRow ELSE v6[j]
  <2>1. Speech!Over(j)[j] = OverRow  BY <1>1 DEF Speech!Over, Speech!NoJob, OverRow
  <2> QED  BY <1>2, <2>1 DEF Speech!Cancelled, Running
<1>4. Speech!Cancelled \in [Speech!Jobs -> JobRows]
  <2>1. Speech!Cancelled = [j \in Speech!Jobs |-> Speech!Cancelled[j]]  BY DEF Speech!Cancelled
  <2>2. \A j \in Speech!Jobs : Speech!Cancelled[j] \in JobRows  BY <1>1, <1>3, SpeechBounds
  <2> DEFINE c == Speech!Cancelled
  <2> HIDE DEF c
  <2>3. c = [j \in Speech!Jobs |-> c[j]] /\ \A j \in Speech!Jobs : c[j] \in JobRows  BY <2>1, <2>2 DEF c
  <2>4. c \in [Speech!Jobs -> JobRows]  BY <2>3
  <2> QED  BY <2>4 DEF c
<1>5. \A j \in Speech!Jobs : Speech!Cancelled[j] = OverRow \/ Speech!Cancelled[j] = Speech!NoJob
  BY <1>1, <1>3, SpeechBounds DEF RowsInv
<1>6. Speech!Forgotten(v2, Speech!Alive) \in SpeechPages
  <2> DEFINE gone == {v6[k].item : k \in {i \in Speech!Alive : v6[i].auto}}
             hand == IF \E k \in Speech!Alive : ~v6[k].auto THEN Speech!NoItem ELSE v2.hand
             playing == v2.playing /\ \A k \in Speech!Alive : v6[k].auto
             p == Speech!Forgotten(v2, Speech!Alive)
  <2>0. v2 \in SpeechPages  BY DEF SpeechInv
  <2>1. /\ p = [v2 EXCEPT !.queued = v2.queued \ gone, !.hand = hand, !.playing = playing]
        /\ v2.queued \ gone \subseteq Speech!Items /\ hand \in Speech!Items \cup {Speech!NoItem} /\ playing \in BOOLEAN
    BY <2>0 DEF Speech!Forgotten, SpeechPages
  <2> HIDE DEF gone, hand, playing, p
  <2>2. p \in SpeechPages  BY <2>0, <2>1 DEF SpeechPages
  <2> QED  BY <2>2 DEF p
<1>7. \A j \in Speech!Free : Speech!Cancelled[j] = Speech!NoJob
  BY <1>1, <1>3, RunningIsAlive, SpeechBounds
<1> QED  BY <1>4, <1>5, <1>6, <1>7, SpeechBounds DEF RowsInv, Running

LEMMA CleanupKeeps ==
  ASSUME SpeechInv, Speech!Cleanup
  PROVE  SpeechInv'
<1> DEFINE p == v3.pump \/ Speech!Alive # {}
           f == Speech!Forgotten(v2, Speech!Alive)
<1>1. /\ v6' = Speech!Cancelled /\ v5' = 0 /\ v4' = <<>> /\ UNCHANGED <<v1, v7, v8>>
      /\ v2' = [f EXCEPT !.hand = Speech!NoItem, !.playing = FALSE]
      /\ v3' = [v3 EXCEPT !.priming = FALSE, !.pump = p]
  BY DEF Speech!Cleanup
<1>2. /\ RowsInv(v6') /\ Running(v6') = {} /\ \A j \in Speech!Jobs : ~v6'[j].utter
      /\ f \in SpeechPages
  BY <1>1, CancelledRows
<1>3. p \in BOOLEAN  BY DEF SpeechInv, SpeechManagers
<1> HIDE DEF p, f
<1>4. v2' \in SpeechPages  BY <1>1, <1>2 DEF SpeechPages
<1>5. v3' \in SpeechManagers  BY <1>1, <1>3 DEF SpeechInv, SpeechManagers
<1>6. JobsInv(v6', 0, <<>>, v7)
  BY <1>2, SpeechBounds DEF JobsInv, VoiceInv, LineInv, KeysInv
<1> QED  BY <1>1, <1>4, <1>5, <1>6 DEF SpeechInv, Fetched

\* The smallest that is free.
LEMMA RankedIn ==
  ASSUME NEW M \in Nat, NEW F, F \subseteq 0 .. M, NEW n \in Nat, n < Cardinality(F)
  PROVE  \E j \in F, B \in SUBSET F : (\A k \in F : k \in B <=> k < j) /\ Cardinality(B) = n
<1>1. IsFiniteSet(F) /\ F \subseteq Nat
  <2>1. IsFiniteSet(0 .. M)  BY FS_Interval
  <2>2. IsFiniteSet(F)  BY <2>1, FS_Subset
  <2>3. F \subseteq Nat  OBVIOUS
  <2> QED  BY <2>2, <2>3
<1> DEFINE Below(j) == {k \in F : k < j}
           G == {j \in F : n <= Cardinality(Below(j))}
<1>2. ASSUME NEW j PROVE IsFiniteSet(Below(j)) /\ Cardinality(Below(j)) \in Nat
  BY <1>1, FS_Subset, FS_CardinalityType
<1>3. ASSUME NEW S, S \subseteq F, S # {}, IsFiniteSet(S)
      PROVE  \E m \in S : (\A y \in S : y <= m) /\ Cardinality(S \ {m}) = Cardinality(S) - 1
  <2>1. PICK m \in S : \A y \in S : y <= m
    <3>1. S \subseteq 0 .. M  BY <1>3
    <3> QED  BY <1>3, <3>1, GreatestNumber
  <2> QED  BY <1>3, <2>1, FS_RemoveElement
<1>4. G # {}
  <2>1. F # {}
    <3>1. F = {} => Cardinality(F) = 0  BY FS_EmptySet
    <3> QED  BY <3>1
  <2>2. PICK m \in F : (\A y \in F : y <= m) /\ Cardinality(F \ {m}) = Cardinality(F) - 1
    BY <1>1, <1>3, <2>1
  <2>3. Below(m) = F \ {m}
    <3>1. ASSUME NEW k \in F PROVE k < m <=> k # m
      <4>1. k <= m /\ k \in Nat /\ m \in Nat  BY <1>1, <2>2
      <4> QED  BY <4>1
    <3> QED  BY <3>1
  <2>4. Cardinality(F) \in Nat  BY <1>1, FS_CardinalityType
  <2>5. n <= Cardinality(Below(m))  BY <2>2, <2>3, <2>4
  <2> QED  BY <2>5
<1>5. PICK j \in G : \A y \in G : j <= y
  <2>1. G \subseteq Nat  BY <1>1
  <2> HIDE DEF G
  <2> QED  BY <1>4, <2>1, LeastNumber
<1>6. Cardinality(Below(j)) = n
  <2> SUFFICES ASSUME Cardinality(Below(j)) # n PROVE FALSE  OBVIOUS
  <2>1. n < Cardinality(Below(j))  BY <1>2, <1>5
  <2>2. Below(j) # {}
    <3>1. Below(j) = {} => Cardinality(Below(j)) = 0  BY FS_EmptySet
    <3> QED  BY <2>1, <3>1
  <2>3. PICK p \in Below(j) : (\A y \in Below(j) : y <= p) /\ Cardinality(Below(j) \ {p}) = Cardinality(Below(j)) - 1
    BY <1>2, <1>3, <2>2
  <2>4. Below(p) = Below(j) \ {p} /\ p \in F /\ p < j
    <3>1. p \in F /\ p < j /\ p \in Nat /\ j \in Nat  BY <1>1, <1>5
    <3>2. ASSUME NEW k \in F PROVE k < p <=> k < j /\ k # p
      <4>1. k \in Nat  BY <1>1
      <4>2. k < j => k <= p  BY <2>3
      <4> QED  BY <3>1, <4>1, <4>2
    <3> QED  BY <3>1, <3>2
  <2>5. n <= Cardinality(Below(p))
    <3>1. Cardinality(Below(j)) \in Nat  BY <1>2
    <3> QED  BY <2>1, <2>3, <2>4, <3>1
  <2>6. p \in G  BY <2>4, <2>5
  <2>7. j <= p /\ p \in Nat /\ j \in Nat  BY <1>1, <1>5, <2>4, <2>6
  <2> QED  BY <2>4, <2>7
<1>7. Below(j) \in SUBSET F /\ \A k \in F : k \in Below(j) <=> k < j  OBVIOUS
<1> HIDE DEF Below
<1> QED  BY <1>5, <1>6, <1>7

LEMMA FirstFree ==
  ASSUME RowsInv(v6), NEW n \in Nat, n < Speech!Cardinality(Speech!Free)
  PROVE  /\ (CHOOSE j \in Speech!First(n) : TRUE) \in Speech!First(n)
         /\ (CHOOSE j \in Speech!First(n) : TRUE) \in Speech!Free
<1>1. Speech!Free \subseteq 0 .. SpeechJobs  BY SpeechBounds DEF Speech!Free
<1>2. ASSUME NEW S, S \subseteq Speech!Free PROVE Speech!Cardinality(S) = Cardinality(S)
  <2>1. IsFiniteSet(S)
    <3>1. IsFiniteSet(0 .. SpeechJobs)  BY SpeechBounds, FS_Interval
    <3> QED  BY <1>1, <1>2, <3>1, FS_Subset
  <2> QED  BY <2>1 DEF Speech!Cardinality, Cardinality
<1>3. PICK j \in Speech!Free : Cardinality({k \in Speech!Free : k < j}) = n
  <2>1. Speech!Cardinality(Speech!Free) = Cardinality(Speech!Free)  BY <1>2
  <2>2. n < Cardinality(Speech!Free) /\ SpeechJobs \in Nat  BY <2>1, SpeechBounds
  <2>3. PICK j \in Speech!Free, B \in SUBSET Speech!Free :
          (\A k \in Speech!Free : k \in B <=> k < j) /\ Cardinality(B) = n
    BY <1>1, <2>2, RankedIn
  <2>4. B = {k \in Speech!Free : k < j}  BY <2>3
  <2> QED  BY <2>3, <2>4
<1>4. j \in Speech!First(n)  BY <1>2, <1>3 DEF Speech!First
<1> QED  BY <1>4 DEF Speech!First

\* The text played by hand takes the voice.
LEMMA PlayKeeps ==
  ASSUME SpeechInv, NEW i \in Speech!Items, Speech!PlayClicked(i)
  PROVE  SpeechInv'
<1> DEFINE j == CHOOSE k \in Speech!First(0) : TRUE
           f == Speech!Forgotten(v2, Speech!Alive)
           p == v3.pump \/ Speech!Alive # {}
           s == IF v3.state = "PLAYING" THEN v3.state ELSE "READY"
           r == [Speech!NoJob EXCEPT !.item = i, !.utter = TRUE]
           again == v2.playing /\ v2.hand = i
<1>1. /\ UNCHANGED <<v1, v7, v8>> /\ v4' = <<>> /\ Speech!Free # {}
      /\ again => /\ v6' = Speech!Cancelled /\ v5' = 0 /\ v2' = [f EXCEPT !.hand = Speech!NoItem, !.playing = FALSE]
                  /\ v3' = [v3 EXCEPT !.priming = FALSE, !.pump = TRUE]
      /\ ~again => /\ v6' = [Speech!Cancelled EXCEPT ![j] = r] /\ v5' = j /\ v2' = [f EXCEPT !.hand = i, !.playing = FALSE]
                   /\ v3' = [v3 EXCEPT !.priming = FALSE, !.state = s, !.pump = p]
  BY DEF Speech!PlayClicked, Speech!Pumped, SpeechInv, SpeechManagers
<1>2. /\ RowsInv(Speech!Cancelled) /\ Running(Speech!Cancelled) = {}
      /\ \A k \in Speech!Jobs : ~Speech!Cancelled[k].utter
      /\ \A k \in Speech!Free : Speech!Cancelled[k] = Speech!NoJob
      /\ f \in SpeechPages
  BY CancelledRows
<1>3. v3 \in SpeechManagers /\ p \in BOOLEAN /\ s \in SpeechStates /\ RowsInv(v6)
  BY DEF SpeechInv, SpeechManagers, SpeechStates, JobsInv
<1>4. j \in Speech!Jobs
  <2>1. Speech!Cardinality(Speech!Free) = Cardinality(Speech!Free) /\ Cardinality(Speech!Free) \in Nat
        /\ Cardinality(Speech!Free) # 0
    <3>1. IsFiniteSet(Speech!Free)
      <4>1. Speech!Free \subseteq 1 .. SpeechJobs  BY SpeechBounds DEF Speech!Free
      <4>2. IsFiniteSet(1 .. SpeechJobs)  BY SpeechBounds, FS_Interval
      <4> QED  BY <4>1, <4>2, FS_Subset
    <3>2. Speech!Cardinality(Speech!Free) = Cardinality(Speech!Free)  BY <3>1 DEF Speech!Cardinality, Cardinality
    <3> QED  BY <1>1, <3>1, <3>2, FS_EmptySet, FS_CardinalityType
  <2>2. j \in Speech!Free  BY <1>3, <2>1, FirstFree
  <2> QED  BY <1>3, <2>2, RunningIsAlive
<1>5. r \in JobRows /\ r.item = i /\ ~r.over /\ ~r.auto /\ r.utter
  <2>1. Speech!NoJob = [item |-> Speech!NoItem, auto |-> FALSE, utter |-> FALSE, waits |-> FALSE, begun |-> FALSE, over |-> FALSE]
    BY DEF Speech!NoJob
  <2> HIDE DEF j, f, p, s, again
  <2> QED  BY <2>1 DEF JobRows
<1> HIDE DEF j, f, p, s, r, again
<1>6. v2' \in SpeechPages  BY <1>1, <1>2 DEF SpeechPages
<1>7. v3' \in SpeechManagers
  <2>1. CASE again  BY <1>1, <1>3, <2>1 DEF SpeechManagers
  <2>2. CASE ~again  BY <1>1, <1>3, <2>2 DEF SpeechManagers
  <2> QED  BY <2>1, <2>2
<1>8. JobsInv(v6', v5', <<>>, v7)
  <2>1. CASE again
    BY <1>1, <1>2, <2>1, SpeechBounds DEF JobsInv, VoiceInv, LineInv, KeysInv
  <2>2. CASE ~again
    <3>1. r \in JobRows /\ r.item = i /\ ~r.over /\ ~r.auto /\ r.utter  BY <1>5
    <3>2. RowsInv(v6') /\ v6'[j] = r /\ \A k \in Speech!Jobs \ {j} : v6'[k] = Speech!Cancelled[k]
      <4>1. v6' \in [Speech!Jobs -> JobRows] /\ v6'[j] = r /\ \A k \in Speech!Jobs \ {j} : v6'[k] = Speech!Cancelled[k]
        BY <1>1, <1>2, <1>4, <2>2, <3>1 DEF RowsInv
      <4>2. RowsInv(v6')
        <5> HIDE DEF Speech!Cancelled
        <5> QED  BY <1>2, <1>4, <3>1, <4>1, OneJobChanges
      <4> QED  BY <4>1, <4>2
    <3>3. Running(v6') = {j}
      BY <1>2, <1>4, <3>1, <3>2, SpeechBounds DEF Running
    <3>4. VoiceInv(v6', j)  BY <1>2, <1>4, <3>1, <3>2, <3>3, SpeechBounds DEF VoiceInv
    <3>5. KeysInv(v6', v7)  BY <3>1, <3>2, <3>3 DEF KeysInv
    <3>6. LineInv(v6', j, <<>>)  BY DEF LineInv
    <3> QED  BY <1>1, <2>2, <3>2, <3>4, <3>5, <3>6 DEF JobsInv
  <2> QED  BY <2>1, <2>2
<1> QED  BY <1>1, <1>6, <1>7, <1>8 DEF SpeechInv, Fetched

LEMMA Appended ==
  ASSUME NEW S, NEW q \in Seq(S), NEW c \in Nat, NEW ids \in [1 .. c -> S]
  PROVE  /\ Len(q) \in Nat /\ q \o ids \in Seq(S) /\ Len(q \o ids) = Len(q) + c
         /\ \A n \in 1 .. Len(q) : (q \o ids)[n] = q[n]
         /\ \A n \in (Len(q) + 1) .. (Len(q) + c) : n - Len(q) \in 1 .. c /\ (q \o ids)[n] = ids[n - Len(q)]
<1>1. ids \in Seq(S) /\ Len(ids) = c /\ Len(q) \in Nat  OBVIOUS
<1>2. q \o ids \in Seq(S) /\ Len(q \o ids) = Len(q) + c  BY <1>1
<1>3. ASSUME NEW n \in 1 .. Len(q) PROVE (q \o ids)[n] = q[n]  BY <1>1
<1>4. ASSUME NEW n \in (Len(q) + 1) .. (Len(q) + c) PROVE n - Len(q) \in 1 .. c /\ (q \o ids)[n] = ids[n - Len(q)]
  <2>1. n \in Nat /\ n - Len(q) \in 1 .. c /\ n \notin 1 .. Len(q) /\ n \in 1 .. (Len(q) + c)  BY <1>1
  <2> QED  BY <1>1, <2>1
<1> QED  BY <1>1, <1>2, <1>3, <1>4

\* New automatic jobs, one a segment.
AreNew(js, st, c, ids, new, order, js2) ==
  /\ c \in Nat /\ ids \in [1 .. c -> Speech!Jobs] /\ new \in SUBSET Speech!Items /\ order \in [1 .. c -> new]
  /\ \A n \in 1 .. c : js[ids[n]] = Speech!NoJob
  /\ \A m, n \in 1 .. c : ids[m] = ids[n] => m = n
  /\ \A m, n \in 1 .. c : order[m] = order[n] => m = n
  /\ \A i \in new : i \notin st /\ \A j \in Running(js) : js[j].auto => js[j].item # i
  /\ js2 \in [Speech!Jobs -> JobRows]
  /\ \A n \in 1 .. c : /\ js2[ids[n]].item = order[n] /\ js2[ids[n]].auto /\ ~js2[ids[n]].utter
                        /\ ~js2[ids[n]].begun /\ ~js2[ids[n]].over
  /\ \A j \in Speech!Jobs : (\E n \in 1 .. c : ids[n] = j) \/ js2[j] = js[j]

\* They go to the end of the queue.
LEMMA JobsAdded ==
  ASSUME NEW js, NEW a, NEW q, NEW st, NEW c, NEW ids, NEW new, NEW order, NEW js2,
         JobsInv(js, a, q, st), AreNew(js, st, c, ids, new, order, js2)
  PROVE  JobsInv(js2, a, q \o ids, st)
<1> USE DEF AreNew
<1>0. RowsInv(js) /\ VoiceInv(js, a) /\ LineInv(js, a, q) /\ KeysInv(js, st)  BY DEF JobsInv
<1> DEFINE Added == {ids[n] : n \in 1 .. c}
<1>1. \A j \in Added : j \in Speech!Jobs /\ js[j] = Speech!NoJob /\ js[j].item = Speech!NoItem /\ j \notin Running(js)
  <2>1. ASSUME NEW j \in Added PROVE j \in Speech!Jobs /\ js[j] = Speech!NoJob  OBVIOUS
  <2> HIDE DEF Added
  <2> QED  BY <2>1, SpeechBounds DEF Running
<1>2. \A n \in 1 .. c : /\ js2[ids[n]].item = order[n] /\ js2[ids[n]].auto /\ ~js2[ids[n]].utter
                        /\ ~js2[ids[n]].begun /\ ~js2[ids[n]].over /\ order[n] \in Speech!Items /\ order[n] # Speech!NoItem
                        /\ order[n] \in new
  <2> SUFFICES ASSUME NEW n \in 1 .. c
               PROVE  /\ js2[ids[n]].item = order[n] /\ js2[ids[n]].auto /\ ~js2[ids[n]].utter
                      /\ ~js2[ids[n]].begun /\ ~js2[ids[n]].over /\ order[n] \in Speech!Items /\ order[n] # Speech!NoItem
                      /\ order[n] \in new
    OBVIOUS
  <2>1. order[n] \in new /\ order[n] \in Speech!Items  OBVIOUS
  <2>2. order[n] # Speech!NoItem  BY <2>1, SpeechBounds
  <2> QED  BY <2>1, <2>2
<1>3. \A j \in Speech!Jobs \ Added : js2[j] = js[j]  OBVIOUS
<1>4. RowsInv(js2)
  <2>1. ASSUME NEW j \in Speech!Jobs
        PROVE  js2[j] = Speech!NoJob \/ js2[j] = OverRow \/ (js2[j].item \in Speech!Items /\ ~js2[j].over)
    <3>1. CASE j \in Added  BY <1>2, <3>1
    <3>2. CASE j \notin Added  BY <1>0, <1>3, <3>2 DEF RowsInv
    <3> QED  BY <3>1, <3>2
  <2> QED  BY <2>1 DEF RowsInv
<1>5. Running(js2) = Running(js) \cup Added
  <2>1. \A j \in Added : js2[j].item # Speech!NoItem  BY <1>2
  <2> HIDE DEF Added
  <2> QED  BY <1>1, <1>3, <2>1 DEF Running
<1>6. VoiceInv(js2, a)
  <2>1. \A j \in Added : ~js2[j].utter  BY <1>2
  <2> HIDE DEF Added
  <2>2. a # 0 => a \in Running(js) /\ a \in Speech!Jobs \ Added  BY <1>0, <1>1 DEF VoiceInv, Running
  <2> QED  BY <1>0, <1>3, <1>5, <2>1, <2>2 DEF VoiceInv
<1>7. KeysInv(js2, st)
  <2>1. ASSUME NEW j \in Running(js2), js2[j].auto, ~js2[j].begun PROVE js2[j].item \notin st
    <3>1. CASE j \in Added  BY <1>2, <3>1
    <3>2. CASE j \notin Added
      <4>1. j \in Running(js) /\ js2[j] = js[j]  BY <1>3, <1>5, <3>2 DEF Running
      <4> QED  BY <1>0, <2>1, <4>1 DEF KeysInv
    <3> QED  BY <3>1, <3>2
  <2>2. ASSUME NEW j \in Running(js2), NEW k \in Running(js2), js2[j].auto, js2[k].auto, js2[j].item = js2[k].item
        PROVE  j = k
    <3>1. ASSUME NEW l \in Running(js2), l \notin Added PROVE l \in Running(js) /\ js2[l] = js[l]
      BY <1>3, <1>5, <3>1 DEF Running
    <3>2. CASE j \in Added /\ k \in Added
      <4>1. PICK m \in 1 .. c : j = ids[m]  BY <3>2
      <4>2. PICK n \in 1 .. c : k = ids[n]  BY <3>2
      <4>3. order[m] = order[n]  BY <1>2, <2>2, <4>1, <4>2
      <4> QED  BY <4>1, <4>2, <4>3
    <3>3. CASE j \in Added /\ k \notin Added
      <4>1. PICK m \in 1 .. c : j = ids[m]  BY <3>3
      <4>2. js[k].item = order[m] /\ order[m] \in new /\ k \in Running(js) /\ js[k].auto
        BY <1>2, <2>2, <3>1, <3>3, <4>1
      <4> QED  BY <4>2
    <3>4. CASE j \notin Added /\ k \in Added
      <4>1. PICK m \in 1 .. c : k = ids[m]  BY <3>4
      <4>2. js[j].item = order[m] /\ order[m] \in new /\ j \in Running(js) /\ js[j].auto
        BY <1>2, <2>2, <3>1, <3>4, <4>1
      <4> QED  BY <4>2
    <3>5. CASE j \notin Added /\ k \notin Added
      <4>1. j \in Running(js) /\ k \in Running(js) /\ js2[j] = js[j] /\ js2[k] = js[k]  BY <3>1, <3>5
      <4> QED  BY <1>0, <2>2, <4>1 DEF KeysInv
    <3> QED  BY <3>2, <3>3, <3>4, <3>5
  <2> QED  BY <2>1, <2>2 DEF KeysInv
<1>8. LineInv(js2, a, q \o ids)
  <2>1. q \in Seq(Speech!Jobs) /\ ids \in Seq(Speech!Jobs) /\ Len(ids) = c /\ Len(q) \in Nat
    BY <1>0 DEF LineInv
  <2> DEFINE q2 == q \o ids
             l == Len(q)
  <2>2. /\ q2 \in Seq(Speech!Jobs) /\ Len(q2) = l + c
        /\ \A n \in 1 .. l : q2[n] = q[n]
        /\ \A n \in (l + 1) .. (l + c) : n - l \in 1 .. c /\ q2[n] = ids[n - l]
    <3>1. q \in Seq(Speech!Jobs) /\ c \in Nat /\ ids \in [1 .. c -> Speech!Jobs]  BY <2>1
    <3> QED  BY <3>1, Appended
  <2>3. \A n \in 1 .. l : q[n] \in Speech!Jobs /\ q[n] \notin Added
    BY <1>0, <1>1, <2>1 DEF LineInv
  <2>4. \A n \in 1 .. c : ids[n] # a
    BY <1>0, <1>1 , SpeechBounds DEF VoiceInv
  <2>5. l \in Nat  BY <2>1
  <2> HIDE DEF q2, l
  <2>6. ASSUME NEW n \in 1 .. (l + c) PROVE n \in 1 .. l \/ n \in (l + 1) .. (l + c)
    BY <2>5
  <2>7. ASSUME NEW n \in 1 .. (l + c)
        PROVE  /\ q2[n] # a /\ js2[q2[n]].item # Speech!NoItem
               /\ js2[q2[n]].auto /\ ~js2[q2[n]].utter /\ ~js2[q2[n]].begun
    <3>1. CASE n \in 1 .. l
      <4>1. q2[n] = q[n] /\ js2[q[n]] = js[q[n]]  BY <1>3, <2>2, <2>3, <3>1
      <4> QED  BY <1>0, <3>1, <4>1 DEF LineInv, l
    <3>2. CASE n \in (l + 1) .. (l + c)
      <4>1. n - l \in 1 .. c /\ q2[n] = ids[n - l]  BY <2>2, <3>2
      <4> QED  BY <1>2, <2>4, <4>1
    <3> QED  BY <2>6, <3>1, <3>2
  <2>8. ASSUME NEW m \in 1 .. (l + c), NEW n \in 1 .. (l + c), q2[m] = q2[n] PROVE m = n
    <3>1. CASE m \in 1 .. l /\ n \in 1 .. l
      <4>1. q[m] = q[n]  BY <2>2, <2>8, <3>1
      <4> QED  BY <1>0, <3>1, <4>1 DEF LineInv, l
    <3>2. CASE m \in 1 .. l /\ n \in (l + 1) .. (l + c)
      <4>1. q2[n] \in Added /\ q2[m] \notin Added  BY <2>2, <2>3, <3>2
      <4> QED  BY <2>8, <4>1
    <3>3. CASE m \in (l + 1) .. (l + c) /\ n \in 1 .. l
      <4>1. q2[m] \in Added /\ q2[n] \notin Added  BY <2>2, <2>3, <3>3
      <4> QED  BY <2>8, <4>1
    <3>4. CASE m \in (l + 1) .. (l + c) /\ n \in (l + 1) .. (l + c)
      <4>1. m - l = n - l  BY <2>2, <2>8, <3>4
      <4> QED  BY <2>5, <3>4, <4>1
    <3> QED  BY <2>6, <3>1, <3>2, <3>3, <3>4
  <2> QED  BY <2>2, <2>7, <2>8 DEF LineInv, q2
<1> QED  BY <1>4, <1>6, <1>7, <1>8 DEF JobsInv

\* A history gives the segments that are to be read their jobs.
LEMMA LoadedKeeps ==
  ASSUME SpeechInv, NEW segs \in SUBSET SpeechSegments, NEW lang \in SpeechLanguages, NEW reads \in BOOLEAN,
         Speech!HistoryLoaded(segs, lang, reads)
  PROVE  SpeechInv'
<1> DEFINE new == {i \in Speech!ToRead(segs, lang, reads) : ~Speech!Refused(i)}
           c == Speech!Cardinality(new)
           id(n) == CHOOSE j \in Speech!First(n - 1) : TRUE
<1>1. /\ c <= Speech!Cardinality(Speech!Free)
      /\ v3' = IF new = {} THEN v3 ELSE Speech!Pumped(v3)
      /\ v2' = [v2 EXCEPT !.open = TRUE, !.seen = @ \cup segs, !.reconcile = FALSE, !.eligible = Speech!Eligible(segs),
                          !.queued = @ \cup new, !.consumed = @ \cup (Speech!ToRead(segs, lang, reads) \cap v7)]
      /\ UNCHANGED <<v1, v5, v7, v8>>
  BY DEF Speech!HistoryLoaded
<1>2. PICK order \in [1 .. c -> new] :
        /\ \A i \in new : \E n \in DOMAIN order : order[n] = i
        /\ v6' = [j \in Speech!Jobs |-> IF \E n \in DOMAIN order : id(n) = j
                    THEN [Speech!NoJob EXCEPT !.auto = TRUE, !.item = order[CHOOSE n \in DOMAIN order : id(n) = j]]
                    ELSE v6[j]]
        /\ v4' = v4 \o [n \in DOMAIN order |-> id(n)]
  BY DEF Speech!HistoryLoaded
<1>3. v2 \in SpeechPages /\ v3 \in SpeechManagers /\ JobsInv(v6, v5, v4, v7) /\ RowsInv(v6)
      /\ v6 \in [Speech!Jobs -> JobRows]
  BY DEF SpeechInv, JobsInv, RowsInv
<1>4. /\ new \in SUBSET Speech!Items /\ Speech!ToRead(segs, lang, reads) \subseteq Speech!Items
      /\ Speech!Eligible(segs) \subseteq SpeechSegments
      /\ \A i \in new : i \notin v7 /\ i \notin Speech!QueuedKeys
  <2>1. Speech!ToRead(segs, lang, reads) \subseteq Speech!Items  BY DEF Speech!ToRead, Speech!Items
  <2>2. Speech!Eligible(segs) \subseteq SpeechSegments  BY <1>3 DEF Speech!Eligible, SpeechPages
  <2> QED  BY <2>1, <2>2 DEF Speech!Refused
<1>5. IsFiniteSet(new) /\ c = Cardinality(new) /\ c \in Nat
  <2>1. IsFiniteSet(new)  BY <1>4, SpeechBounds, FS_Subset
  <2> HIDE DEF new
  <2>2. Speech!Cardinality(new) = Cardinality(new)  BY <2>1 DEF Speech!Cardinality, Cardinality
  <2> QED  BY <2>1, <2>2, FS_CardinalityType
<1>6. \A i \in new : \A j \in Running(v6) : v6[j].auto => v6[j].item # i
  <2>1. ASSUME NEW j \in Running(v6), v6[j].auto PROVE v6[j].item \in Speech!QueuedKeys
    <3>1. ~v6[j].over /\ j \in Speech!Jobs  BY <1>3, <2>1, SpeechBounds DEF RowsInv, Running
    <3> QED  BY <2>1, <3>1 DEF Speech!QueuedKeys
  <2> QED  BY <1>4, <2>1
<1> HIDE DEF new, c
<1>7. \A m, n \in 1 .. c : order[m] = order[n] => m = n
  <2>1. Cardinality(1 .. c) = c /\ IsFiniteSet(1 .. c)  BY <1>5, FS_Interval
  <2>2. order \in Surjection(1 .. c, new)  BY <1>2 DEF Surjection
  <2>3. order \in Injection(1 .. c, new)  BY <1>5, <2>1, <2>2, FS_SurjSameCardinalityImpliesInj
  <2> QED  BY <2>3 DEF Injection, IsInjective
<1>8. ASSUME NEW n \in 1 .. c PROVE id(n) \in Speech!First(n - 1) /\ id(n) \in Speech!Free
  <2>1. n - 1 \in Nat /\ n - 1 < Speech!Cardinality(Speech!Free)
    <3>1. Speech!Cardinality(Speech!Free) \in Nat
      <4>1. IsFiniteSet(Speech!Free)
        <5>1. Speech!Free \subseteq 1 .. SpeechJobs  BY SpeechBounds DEF Speech!Free
        <5>2. IsFiniteSet(1 .. SpeechJobs)  BY SpeechBounds, FS_Interval
        <5> QED  BY <5>1, <5>2, FS_Subset
      <4>2. Speech!Cardinality(Speech!Free) = Cardinality(Speech!Free)  BY <4>1 DEF Speech!Cardinality, Cardinality
      <4> QED  BY <4>1, <4>2, FS_CardinalityType
    <3> QED  BY <1>1, <1>5, <3>1
  <2> QED  BY <1>3, <2>1, FirstFree
<1> DEFINE ids == [n \in 1 .. c |-> id(n)]
<1>9. \A m, n \in 1 .. c : id(m) = id(n) => m = n
  <2> SUFFICES ASSUME NEW m \in 1 .. c, NEW n \in 1 .. c, id(m) = id(n) PROVE m = n  OBVIOUS
  <2>1. id(m) \in Speech!First(m - 1) /\ id(m) \in Speech!First(n - 1)  BY <1>8
  <2> HIDE DEF id
  <2>2. m - 1 = n - 1  BY <2>1 DEF Speech!First
  <2> QED  BY <2>2
<1>10. \A n \in 1 .. c : id(n) \in Speech!Jobs /\ v6[id(n)] = Speech!NoJob
  BY <1>3, <1>8, RunningIsAlive
<1> HIDE DEF id
<1>11. /\ ids \in [1 .. c -> Speech!Jobs]
       /\ \A n \in 1 .. c : ids[n] = id(n) /\ v6[ids[n]] = Speech!NoJob
       /\ \A m, n \in 1 .. c : ids[m] = ids[n] => m = n
  BY <1>9, <1>10
<1>12. v4' = v4 \o ids /\ DOMAIN order = 1 .. c  BY <1>2
<1>13. ASSUME NEW n \in 1 .. c
       PROVE  /\ v6'[ids[n]] \in JobRows
              /\ v6'[ids[n]].item = order[n] /\ v6'[ids[n]].auto /\ ~v6'[ids[n]].utter
              /\ ~v6'[ids[n]].begun /\ ~v6'[ids[n]].over
  <2>1. (CHOOSE m \in 1 .. c : id(m) = id(n)) = n  BY <1>9
  <2>2. v6'[id(n)] = [Speech!NoJob EXCEPT !.auto = TRUE, !.item = order[CHOOSE m \in 1 .. c : id(m) = id(n)]]
    BY <1>2, <1>10, <1>12
  <2>3. v6'[id(n)] = [Speech!NoJob EXCEPT !.auto = TRUE, !.item = order[n]]  BY <2>1, <2>2
  <2>4. ids[n] = id(n)  BY <1>11
  <2>5. order[n] \in Speech!Items  BY <1>2, <1>4
  <2> HIDE DEF ids
  <2>6. ASSUME NEW i \in Speech!Items, NEW r, r = [Speech!NoJob EXCEPT !.auto = TRUE, !.item = i]
        PROVE  r \in JobRows /\ r.item = i /\ r.auto /\ ~r.utter /\ ~r.begun /\ ~r.over
    BY <2>6 DEF JobRows, Speech!NoJob
  <2> QED  BY <2>3, <2>4, <2>5, <2>6
<1>14. ASSUME NEW j \in Speech!Jobs PROVE (\E n \in 1 .. c : ids[n] = j) \/ v6'[j] = v6[j]
  BY <1>2, <1>11, <1>12
<1> HIDE DEF ids
<1>15. v6' \in [Speech!Jobs -> JobRows]
  <2>1. ASSUME NEW j \in Speech!Jobs PROVE v6'[j] \in JobRows
    <3>1. CASE \E n \in 1 .. c : ids[n] = j
      <4>1. PICK n \in 1 .. c : ids[n] = j  BY <3>1
      <4> QED  BY <1>13, <4>1
    <3>2. CASE ~\E n \in 1 .. c : ids[n] = j  BY <1>3, <1>14, <3>2
    <3> QED  BY <3>1, <3>2
  <2>2. DOMAIN v6' = Speech!Jobs /\ v6' = [j \in Speech!Jobs |-> v6'[j]]  BY <1>2
  <2> QED  BY <2>1, <2>2
<1>16. JobsInv(v6', v5, v4', v7)
  <2>1. \A i \in new : i \notin v7 /\ \A j \in Running(v6) : v6[j].auto => v6[j].item # i  BY <1>4, <1>6
  <2>2. JobsInv(v6', v5, v4 \o ids, v7)
    <3>1. /\ JobsInv(v6, v5, v4, v7) /\ c \in Nat /\ ids \in [1 .. c -> Speech!Jobs]
          /\ new \in SUBSET Speech!Items /\ order \in [1 .. c -> new] /\ v6' \in [Speech!Jobs -> JobRows]
      BY <1>2, <1>3, <1>4, <1>5, <1>11, <1>15
    <3>2. \A n \in 1 .. c : v6[ids[n]] = Speech!NoJob  BY <1>11
    <3>3. \A m, n \in 1 .. c : ids[m] = ids[n] => m = n  BY <1>11
    <3>4. \A n \in 1 .. c : /\ v6'[ids[n]].item = order[n] /\ v6'[ids[n]].auto /\ ~v6'[ids[n]].utter
                            /\ ~v6'[ids[n]].begun /\ ~v6'[ids[n]].over
      BY <1>13
    <3>5. \A j \in Speech!Jobs : (\E n \in 1 .. c : ids[n] = j) \/ v6'[j] = v6[j]  BY <1>14
    <3>6. AreNew(v6, v7, c, ids, new, order, v6')  BY <1>7, <2>1, <3>1, <3>2, <3>3, <3>4, <3>5 DEF AreNew
    <3> QED  BY <3>1, <3>6, JobsAdded
  <2> QED  BY <1>12, <2>2
<1>17. v3' \in SpeechManagers /\ Fetched(v3', v5, v4')
  <2>1. CASE new = {}
    <3>1. c = 0  BY <1>5, <2>1, FS_EmptySet
    <3>2. ids \in Seq(Speech!Jobs) /\ Len(ids) = 0 /\ v4 \in Seq(Speech!Jobs)
      BY <1>3, <1>11, <3>1 DEF JobsInv, LineInv
    <3>3. v4' = v4  BY <1>12, <3>2
    <3> QED  BY <1>1, <1>3, <2>1, <3>3 DEF SpeechInv
  <2>2. CASE new # {}
    <3>1. v3' = [v3 EXCEPT !.pump = TRUE]  BY <1>1, <2>2 DEF Speech!Pumped
    <3> QED  BY <1>3, <3>1 DEF SpeechManagers, Fetched
  <2> QED  BY <2>1, <2>2
<1>18. v2' \in SpeechPages
  <2> DEFINE e == Speech!Eligible(segs)
             d == Speech!ToRead(segs, lang, reads) \cap v7
  <2>1. e \subseteq SpeechSegments /\ d \subseteq Speech!Items  BY <1>4
  <2>2. v2' = [v2 EXCEPT !.open = TRUE, !.seen = v2.seen \cup segs, !.reconcile = FALSE, !.eligible = e,
                         !.queued = v2.queued \cup new, !.consumed = v2.consumed \cup d]
    BY <1>1, <1>3 DEF SpeechPages
  <2> HIDE DEF e, d
  <2> QED  BY <1>3, <1>4, <2>1, <2>2 DEF SpeechPages
<1> QED  BY <1>1, <1>16, <1>17, <1>18 DEF SpeechInv

LEMMA PanelKeeps ==
  ASSUME SpeechInv,
         \/ Speech!ReconcileAsked
         \/ \E i \in SpeechSegments : Speech!Spoken(i) \/ Speech!EventArrives(i)
         \/ UNCHANGED Speech!vars
  PROVE  SpeechInv'
<1>1. UNCHANGED <<v3, v4, v5, v6, v7, v8>>
  BY DEF Speech!ReconcileAsked, Speech!Spoken, Speech!EventArrives, Speech!vars
<1>2. v1' \subseteq SpeechSegments
  BY DEF SpeechInv, Speech!ReconcileAsked, Speech!Spoken, Speech!EventArrives, Speech!vars
<1>3. v2' \in SpeechPages
  <2>0. v2 \in SpeechPages  BY DEF SpeechInv
  <2>1. CASE Speech!ReconcileAsked
    <3>1. v2' = [v2 EXCEPT !.reconcile = TRUE]  BY <2>1 DEF Speech!ReconcileAsked
    <3> QED  BY <2>0, <3>1 DEF SpeechPages
  <2>2. ASSUME NEW i \in SpeechSegments, Speech!EventArrives(i) PROVE v2' \in SpeechPages
    <3>1. v2' = [v2 EXCEPT !.eligible = @ \cup {i}]  BY <2>2 DEF Speech!EventArrives
    <3> QED  BY <2>0, <3>1 DEF SpeechPages
  <2>3. CASE (\E i \in SpeechSegments : Speech!Spoken(i)) \/ UNCHANGED Speech!vars
    BY <2>0, <2>3 DEF Speech!Spoken, Speech!vars
  <2> QED  BY <2>1, <2>2, <2>3
<1> QED  BY <1>1, <1>2, <1>3 DEF SpeechInv

LEMMA SpeechInitEstablishes == ASSUME Speech!Init PROVE SpeechInv
<1>1. /\ v1 = {} /\ v4 = <<>> /\ v5 = 0 /\ v6 = [j \in Speech!Jobs |-> Speech!NoJob] /\ v7 = {}
      /\ v8 = [i \in Speech!Items |-> 0]
      /\ v2 = [seen |-> {}, open |-> FALSE, eligible |-> {}, reconcile |-> FALSE, queued |-> {}, consumed |-> {},
               hand |-> Speech!NoItem, playing |-> FALSE]
      /\ v3 = [state |-> "LOCKED", pump |-> FALSE, priming |-> FALSE]
  BY DEF Speech!Init
<1>2. v2 \in SpeechPages /\ v3 \in SpeechManagers
  BY <1>1 DEF SpeechPages, SpeechManagers, SpeechStates, Speech!Shut
<1>3. RowsInv(v6) /\ Running(v6) = {} /\ \A j \in Speech!Jobs : ~v6[j].utter
  BY <1>1, SpeechBounds DEF RowsInv, Running
<1>4. JobsInv(v6, v5, v4, v7)
  <2>1. VoiceInv(v6, v5)  BY <1>1, <1>3, SpeechBounds DEF VoiceInv
  <2>2. LineInv(v6, v5, v4)  BY <1>1 DEF LineInv
  <2>3. KeysInv(v6, v7)  BY <1>3 DEF KeysInv
  <2> QED  BY <1>3, <2>1, <2>2, <2>3 DEF JobsInv
<1>5. Counted(v7, v8) /\ Fetched(v3, v5, v4)  BY <1>1 DEF Counted, Fetched
<1> QED  BY <1>1, <1>2, <1>4, <1>5 DEF SpeechInv

LEMMA SpeechStepKeeps == ASSUME SpeechInv, [Speech!Next]_Speech!vars PROVE SpeechInv'
<1>1. ASSUME NEW ok \in BOOLEAN, Speech!PumpRuns(ok) \/ Speech!PrimeSettles(ok) PROVE SpeechInv'
  BY <1>1, PumpKeeps, PrimeKeeps DEF Speech!PumpRuns
<1>2. ASSUME NEW j \in Speech!Jobs, Speech!Ends(j) \/ Speech!Errs(j) \/ Speech!StartTimesOut(j) PROVE SpeechInv'
  BY <1>2, FinishKeeps, RetryKeeps DEF Speech!Ends, Speech!Errs, Speech!StartTimesOut
<1>3. ASSUME NEW j \in Speech!Jobs, Speech!VoicesArrive(j) \/ Speech!Starts(j) PROVE SpeechInv'
  BY <1>3, VoicesKeepSpeech, StartsKeeps
<1>4. ASSUME NEW i \in Speech!Items, Speech!PlayClicked(i) PROVE SpeechInv'
  BY <1>4, PlayKeeps
<1>5. ASSUME NEW segs \in SUBSET SpeechSegments, NEW lang \in SpeechLanguages, NEW reads \in BOOLEAN,
         Speech!HistoryLoaded(segs, lang, reads) PROVE SpeechInv'
  BY <1>5, LoadedKeeps
<1> QED  BY <1>1, <1>2, <1>3, <1>4, <1>5, UnlockKeeps, CleanupKeeps, PanelKeeps DEF Speech!Next

LEMMA SpeechIs == SpeechInv => Speech!TypeOK /\ Speech!SpokenOnce /\ Speech!OneVoice /\ Speech!QueueMoves
<1> SUFFICES ASSUME SpeechInv PROVE Speech!TypeOK /\ Speech!SpokenOnce /\ Speech!OneVoice /\ Speech!QueueMoves  OBVIOUS
<1>1. Speech!TypeOK
  BY DEF SpeechInv, JobsInv, RowsInv, VoiceInv, LineInv, Counted, SpeechPages, SpeechManagers, SpeechStates, JobRows,
         Speech!TypeOK
<1>2. Speech!SpokenOnce  BY DEF SpeechInv, Counted, Speech!SpokenOnce
<1>3. Speech!OneVoice  BY DEF SpeechInv, JobsInv, VoiceInv, Speech!OneVoice
<1>4. Speech!QueueMoves  BY DEF SpeechInv, Fetched, JobsInv, VoiceInv, Speech!QueueMoves
<1> QED  BY <1>1, <1>2, <1>3, <1>4

SpeechPart == which = "speech" => SpeechInv

LEMMA SpeechStart == Init => SpeechPart
  BY PagesConstants, SpeechInitEstablishes DEF Init, SpeechPart

LEMMA SpeechStep == SpeechPart /\ [Next]_vars => SpeechPart'
<1> SUFFICES ASSUME SpeechPart, [Next]_vars PROVE SpeechPart'
  OBVIOUS
<1>1. CASE which = "speech"
  <2>1. [Speech!Next]_Speech!vars  BY <1>1 DEF Next, vars, Step, Speech!vars
  <2>2. which' = "speech"  BY <1>1 DEF Next, vars, Step
  <2> QED  BY <1>1, <2>1, <2>2, PagesConstants, SpeechStepKeeps DEF SpeechPart
<1>2. CASE which # "speech"  BY <1>2 DEF Next, vars, Step, SpeechPart
<1> QED  BY <1>1, <1>2

-----------------------------------------------------------------------------
(* What the invariants of the parts say. *)

LEMMA DevicesIs == DevicesInv => Devices!TypeOK /\ Devices!DeviceAccounted
<1> SUFFICES ASSUME DevicesInv PROVE Devices!TypeOK /\ Devices!DeviceAccounted  OBVIOUS
<1>1. Devices!TypeOK
  BY DEF DevicesInv, DevicesTyped, Devices!TypeOK, Streams, Managers, DevicePages, Ghosts, DeviceNumbers
<1>2. Devices!On \subseteq {v2.active} \cup v4.replaced
  BY DEF DevicesInv, OthersReplaced, Devices!On
<1>3. v2.ready /\ ~v4.guessed => v2.device = v4.granted
  BY DEF DevicesInv, KnownToWork
<1> QED  BY <1>1, <1>2, <1>3 DEF Devices!DeviceAccounted

LEMMA NoteIs == NoteInv => Note!TypeOK /\ Note!MicWhileRecording /\ Note!BusyHasCause
<1> SUFFICES ASSUME NoteInv PROVE Note!TypeOK /\ Note!MicWhileRecording /\ Note!BusyHasCause  OBVIOUS
<1>1. Note!TypeOK
  BY DEF NoteInv, Note!TypeOK, NoteStates, Forms, AttachmentNumbers, NoteHolders
<1>2. Note!MicWhileRecording  BY DEF NoteInv, MicOf, Note!MicWhileRecording
<1>3. Note!BusyHasCause  BY DEF NoteInv, BusyFor, Note!BusyHasCause
<1> QED  BY <1>1, <1>2, <1>3

LEMMA ChatIs == ChatInv => Chat!TypeOK /\ Chat!NoHole /\ Chat!RecorderAccounted
<1> SUFFICES ASSUME ChatInv PROVE Chat!TypeOK /\ Chat!NoHole /\ Chat!RecorderAccounted  OBVIOUS
<1>1. Chat!TypeOK
  BY DEF ChatInv, HistoryInv, RecorderInv, AsksTyped, Chat!TypeOK, ChatNumbers, Recorders, ChatPages, ChatOps,
         AskStates, RecStates
<1>2. Chat!NoHole
  <2>1. v2.msgs \subseteq 1 .. ChatMessages  BY DEF ChatInv, HistoryInv, ChatPages, Chat!Messages
  <2>2. ASSUME NEW m \in v2.msgs, NEW n \in v2.msgs, NEW k \in m .. n PROVE k \in v2.msgs
    <3>1. k \in Chat!Messages  BY <2>1, PagesConstants DEF Chat!Messages, Chat!ChatAssumption
    <3>2. m <= k /\ k <= n  BY <2>1
    <3> QED  BY <3>1, <3>2 DEF ChatInv, HistoryInv, InARow
  <2> QED  BY <2>2 DEF ChatInv, HistoryInv, FirstOf, Chat!NoHole
<1>3. Chat!RecorderAccounted
  BY DEF ChatInv, RecorderInv, Recording, AudioIsOver, Chat!RecorderAccounted
<1> QED  BY <1>1, <1>2, <1>3

LEMMA LiveIs ==
  LiveInv => Live!TypeOK /\ Live!MicrophoneOfIntent /\ Live!WaitHasCause /\ Live!OneVoice
<1> SUFFICES ASSUME LiveInv
             PROVE  Live!TypeOK /\ Live!MicrophoneOfIntent /\ Live!WaitHasCause /\ Live!OneVoice
  OBVIOUS
<1>1. Live!TypeOK
  <2>1. LivePhases = {"IDLE", "RECORDING", "PROCESSING", "RESULT_READY", "ERROR"} \cup Live!TtsPhases
    BY DEF LivePhases, Live!TtsPhases
  <2> HIDE DEF LivePhases
  <2> QED
    BY <2>1 DEF LiveInv, LiveTyped, Live!TypeOK, LiveNumbers, VoiceNumbers, LiveUis, Controls,
              IntentStates, VoiceStates, RequestIds
<1>2. Live!MicrophoneOfIntent  BY DEF LiveInv, MicHeld, Live!MicrophoneOfIntent
<1>3. Live!WaitHasCause  BY DEF LiveInv, Caused, Live!WaitHasCause
<1>4. Live!OneVoice  BY DEF LiveInv, Heard, Live!OneVoice
<1> QED  BY <1>1, <1>2, <1>3, <1>4

-----------------------------------------------------------------------------
(* The theorems. *)

\* However permissions, stops, retries and changes of device or of dialog cross (the note
\* recorders of the composer and of the assistant's chat, the live translator, the friend
\* scanner, the group device manager), a microphone or a camera that is on is the current
\* recording's, intent's, dialog's or device's, or the orphan its module names.
THEOREM CapturesStop == Spec => []CapturesAccounted
<1> DEFINE All == NotePart /\ ChatPart /\ LivePart /\ ScannerPart /\ DevicesPart
<1>1. Init => All
  BY NoteStart, ChatStart, LiveStart, ScannerStart, DevicesStart
<1>2. All /\ [Next]_vars => All'
  BY NoteStep, ChatStep, LiveStep, ScannerStep, DevicesStep
<1>3. All => CapturesAccounted
  <2> SUFFICES ASSUME All PROVE CapturesAccounted  OBVIOUS
  <2>1. which = "note" => Note!MicWhileRecording  BY NoteIs DEF NotePart
  <2>2. which = "chat" => Chat!RecorderAccounted  BY ChatIs DEF ChatPart
  <2>3. which = "live" => Live!MicrophoneOfIntent  BY LiveIs DEF LivePart
  <2>4. which = "scanner" => Scanner!CameraOfDialog  BY ScannerIs DEF ScannerPart
  <2>5. which = "devices" => Devices!DeviceAccounted  BY DevicesIs DEF DevicesPart
  <2> QED  BY <2>1, <2>2, <2>3, <2>4, <2>5 DEF CapturesAccounted
<1> QED
  <2> HIDE DEF All
  <2> QED  BY <1>1, <1>2, <1>3, PTL DEF Spec

\* Whatever loads, deletions, edits and new messages overlap (messaging_core_v2.js,
\* live_translate_history.js, assistant.js), nothing is missing between two records that a
\* list shows - in the open conversation, as long as each latest page shared a message with
\* what was shown and no reply of another conversation or cursor was taken (Thread!met) -
\* and the pins listed are the open conversation's.
THEOREM PagesFitTogether == Spec => []HistoriesWhole
<1> DEFINE All == ThreadPart /\ ChatPart /\ HistoryPart
<1>1. Init => All
  BY ThreadStart, ChatStart, HistoryStart
<1>2. All /\ [Next]_vars => All'
  BY ThreadStep, ChatStep, HistoryStep
<1>3. All => HistoriesWhole
  <2> SUFFICES ASSUME All PROVE HistoriesWhole  OBVIOUS
  <2>1. which = "thread" => Thread!NoOlderSkipped /\ Thread!PinsOfConversation  BY ThreadIs DEF ThreadPart
  <2>2. which = "chat" => Chat!NoHole  BY ChatIs DEF ChatPart
  <2>3. which = "history" => History!NoHole  BY HistoryIs DEF HistoryPart
  <2> QED  BY <2>1, <2>2, <2>3 DEF HistoriesWhole
<1> QED
  <2> HIDE DEF All
  <2> QED  BY <1>1, <1>2, <1>3, PTL DEF Spec

\* What is read aloud is read once by itself in each language it is shown in, one text at a
\* time, and what waits in the queue waits for a job that runs, a pump that is due or the
\* user's gesture, for any number of segments, languages and jobs (group_tts_manager.js and
\* playbackKey of group_v3_translation.js); the live translator has one voice too
\* (live_translate.js).
THEOREM SpokenOnceInTurn == Spec => []SpokenInTurn
<1> DEFINE All == SpeechPart /\ LivePart
<1>1. Init => All
  BY SpeechStart, LiveStart
<1>2. All /\ [Next]_vars => All'
  BY SpeechStep, LiveStep
<1>3. All => SpokenInTurn
  <2> SUFFICES ASSUME All PROVE SpokenInTurn  OBVIOUS
  <2>1. which = "speech" => Speech!SpokenOnce /\ Speech!OneVoice /\ Speech!QueueMoves  BY SpeechIs DEF SpeechPart
  <2>2. which = "live" => Live!OneVoice  BY LiveIs DEF LivePart
  <2> QED  BY <2>1, <2>2 DEF SpokenInTurn
<1> QED
  <2> HIDE DEF All
  <2> QED  BY <1>1, <1>2, <1>3, PTL DEF Spec

\* The parts proved here keep well-formed states, whatever overlaps
\* (messaging_core_v2.js, assistant.js and the scripts the other parts name).
THEOREM PartsTyped ==
  Spec => [](which \in {"send", "scanner", "ringtone", "negotiation", "poll", "legacy", "devices", "note", "chat",
                        "live", "history", "thread", "speech"} => PagesTypeOK)
<1> DEFINE All == /\ SendPart /\ ScannerPart /\ RingtonePart /\ NegotiationPart /\ PollPart /\ LegacyPart
                  /\ DevicesPart /\ NotePart /\ ChatPart /\ LivePart /\ HistoryPart /\ ThreadPart /\ SpeechPart
                  /\ which \in Parts
<1> DEFINE Typed == which \in {"send", "scanner", "ringtone", "negotiation", "poll", "legacy", "devices", "note",
                               "chat", "live", "history", "thread", "speech"} => PagesTypeOK
<1>1. Init => All
  <2>1. Init => which \in Parts  BY DEF Init
  <2> QED
    BY <2>1, SendStart, ScannerStart, RingtoneStart, NegotiationStart, PollStart, LegacyStart, DevicesStart,
       NoteStart, ChatStart, LiveStart, HistoryStart, ThreadStart, SpeechStart
<1>2. All /\ [Next]_vars => All'
  <2>1. which \in Parts /\ [Next]_vars => (which \in Parts)'  BY DEF Next, vars, Step
  <2> QED
    BY <2>1, SendStep, ScannerStep, RingtoneStep, NegotiationStep, PollStep, LegacyStep, DevicesStep, NoteStep,
       ChatStep, LiveStep, HistoryStep, ThreadStep, SpeechStep
<1>3. All => Typed
  <2> SUFFICES ASSUME All PROVE Typed  OBVIOUS
  <2>1. /\ which = "send" => Send!TypeOK
        /\ which = "scanner" => Scanner!TypeOK
    BY ScannerIs DEF SendPart, ScannerPart, SendInv
  <2>2. /\ which = "ringtone" => Ringtone!TypeOK
        /\ which = "negotiation" => Negotiation!TypeOK
    BY RingtoneTypes, NegotiationIs DEF RingtonePart, NegotiationPart
  <2>3. /\ which = "poll" => Poll!TypeOK
        /\ which = "legacy" => Legacy!TypeOK
    BY PollIs, LegacyIs DEF PollPart, LegacyPart
  <2>4. /\ which = "devices" => Devices!TypeOK
        /\ which = "note" => Note!TypeOK
    BY DevicesIs, NoteIs DEF DevicesPart, NotePart
  <2>5. /\ which = "chat" => Chat!TypeOK
        /\ which = "live" => Live!TypeOK
    BY ChatIs, LiveIs DEF ChatPart, LivePart
  <2>6. /\ which = "history" => History!TypeOK
        /\ which = "thread" => Thread!TypeOK
    BY HistoryIs, ThreadIs DEF HistoryPart, ThreadPart
  <2>7. which = "speech" => Speech!TypeOK  BY SpeechIs DEF SpeechPart
  <2> QED  BY <2>1, <2>2, <2>3, <2>4, <2>5, <2>6, <2>7 DEF PagesTypeOK
<1> QED
  <2> HIDE DEF All, Typed
  <2>1. Spec => []Typed  BY <1>1, <1>2, <1>3, PTL DEF Spec
  <2> QED  BY <2>1 DEF Typed
=============================================================================
