--------------------------- MODULE GroupRadioClient ---------------------------
(***************************************************************************)
(* The radio of a group's page (group_v3_app.js, group_radio_recording.js): *)
(* joining the room to listen, taking the floor to talk, stopping, leaving,*)
(* and the loss of the device.  One join or start runs at a time           *)
(* (radioOperation); the stop's task, a leave, a heartbeat and the loss of  *)
(* the device run beside it.  radioGeneration and mediaGeneration are      *)
(* modelled by what they decide: whether an attempt has been overtaken     *)
(* (over), whether its connection has (stale).                             *)
(***************************************************************************)
EXTENDS Naturals

CONSTANT MaxBursts   \* bound on the floors granted

RadioClientAssumption == MaxBursts \in Nat \ {0}

VARIABLES
  bursts,  \* external: burst, which names its floor token -> its state at the server
  page,    \* the page's state
  op,      \* the joinRadio or startRadio under way
  stop,    \* radioStopTask
  leave,   \* the leaveRadio under way
  lost,    \* the radioDeviceLost under way; at most one at a time is modelled
  beat,    \* burst of the heartbeat under way, 0 without one
  unsure,  \* history: bursts whose floor was given up to the expiry of its lease
  late     \* history: a reply to one talk's request has ended a newer one

vars == <<bursts, page, op, stop, leave, lost, beat, unsure, late>>
Bursts == 1 .. MaxBursts
Floors == 0 .. MaxBursts   \* 0: no floor token

\* surface; radioSession; floorToken; radioPreparing and radioStopping; deviceLost;
\* the room connected; the local stream; the recorder's burst; the heartbeat's
\* interval; radioLeaving is leave, radioOperation op.
Init ==
  /\ bursts = [b \in Bursts |-> "unused"]
  /\ page = [radio |-> TRUE, session |-> FALSE, token |-> 0, preparing |-> FALSE,
             stopping |-> FALSE, lost |-> FALSE, room |-> "none", mic |-> FALSE,
             rec |-> 0, timer |-> FALSE]
  /\ op = [at |-> "none", over |-> FALSE, stale |-> FALSE, floor |-> 0]
  /\ stop = [at |-> "none", over |-> FALSE, stale |-> FALSE, floor |-> 0]
  /\ leave = "none"
  /\ lost = [at |-> "none", floor |-> 0]
  /\ beat = 0
  /\ unsure = {} /\ late = FALSE

NoOp == [at |-> "none", over |-> FALSE, stale |-> FALSE, floor |-> 0]
Joining == {"output", "join", "returnRoom", "grantJoin", "connectJoin"}
Overtaken(o) == [o EXCEPT !.over = o.at # "none"]
Stale(o) == [o EXCEPT !.stale = o.at # "none"]

Disconnected(p) == [p EXCEPT !.room = "none", !.mic = FALSE]
Controls ==
  IF page.stopping THEN "STOPPING" ELSE IF page.preparing THEN "PREPARING"
  ELSE IF page.lost THEN "DEVICE_LOST" ELSE IF page.token # 0 THEN "TALKING"
  ELSE IF page.room = "none" \/ ~page.session THEN "DISCONNECTED" ELSE "READY"

-----------------------------------------------------------------------------
(* Joining *)

JoinClicked ==
  /\ page.radio /\ Controls \in {"DISCONNECTED", "DEVICE_LOST"}
  /\ op.at = "none" /\ leave = "none"
  /\ op' = [NoOp EXCEPT !.at = "output"]
  /\ page' = [page EXCEPT !.preparing = TRUE]
  /\ stop' = Overtaken(stop)
  /\ UNCHANGED <<bursts, leave, lost, beat, unsure, late>>

\* The end of joinRadio or startRadio; only the latest attempt clears the state.
Finished(p, o) == /\ op' = NoOp
                  /\ page' = IF o.over THEN p ELSE [p EXCEPT !.preparing = FALSE]

OutputChosen ==
  /\ op.at = "output"
  /\ IF op.over THEN Finished(page, op)
                ELSE op' = [op EXCEPT !.at = "join"] /\ UNCHANGED page
  /\ UNCHANGED <<bursts, stop, leave, lost, beat, unsure, late>>

JoinReplied(ok) ==
  /\ op.at = "join"
  /\ \/ ~ok /\ Finished(page, op)
     \/ ok /\ op.over /\ op' = [op EXCEPT !.at = "returnRoom"] /\ UNCHANGED page
     \/ /\ ok /\ ~op.over
        /\ op' = [op EXCEPT !.at = "grantJoin"]
        /\ page' = [page EXCEPT !.session = TRUE, !.lost = FALSE]
  /\ UNCHANGED <<bursts, stop, leave, lost, beat, unsure, late>>

RoomReturned ==
  /\ op.at = "returnRoom"
  /\ Finished(page, op)
  /\ UNCHANGED <<bursts, stop, leave, lost, beat, unsure, late>>

-----------------------------------------------------------------------------
(* Taking the floor *)

StartClicked ==
  /\ page.radio /\ Controls = "READY"
  /\ op.at = "none" /\ leave = "none"
  /\ op' = [NoOp EXCEPT !.at = IF page.mic THEN "floor" ELSE "mic"]
  /\ page' = [page EXCEPT !.preparing = TRUE]
  /\ stop' = Overtaken(stop)
  /\ UNCHANGED <<bursts, leave, lost, beat, unsure, late>>

\* An overtaken attempt stops the tracks it was given.
MicAcquired(ok) ==
  /\ op.at = "mic"
  /\ IF op.over THEN Finished(page, op)
     ELSE IF ok THEN /\ op' = [op EXCEPT !.at = "floor"]
                     /\ page' = [page EXCEPT !.mic = TRUE]
     ELSE op' = [op EXCEPT !.at = "failed"] /\ UNCHANGED page
  /\ UNCHANGED <<bursts, stop, leave, lost, beat, unsure, late>>

\* A floor granted to an overtaken attempt is kept.
FloorKept(answer) ==
  LET b == CHOOSE n \in Bursts : bursts[n] = "unused" /\ \A m \in 1 .. n - 1 : bursts[m] # "unused" IN
  /\ op.at = "floor"
  /\ answer # "refused" => /\ \E n \in Bursts : bursts[n] = "unused"
                           /\ \A n \in Bursts : bursts[n] # "talking"
  /\ bursts' = IF answer = "refused" THEN bursts ELSE [bursts EXCEPT ![b] = "talking"]
  /\ unsure' = IF answer = "lost" THEN unsure \cup {b} ELSE unsure
  /\ IF answer # "granted" THEN op' = [op EXCEPT !.at = "failed"] /\ UNCHANGED page
     ELSE IF op.over THEN Finished(page, op)
     ELSE op' = [op EXCEPT !.at = "grantTalk"] /\ page' = [page EXCEPT !.token = b]
  /\ UNCHANGED <<stop, leave, lost, beat, late>>

\* The server grants the floor, refuses it, or grants it with a reply that is lost.
FloorReplied(answer) ==
  LET b == CHOOSE n \in Bursts : bursts[n] = "unused" /\ \A m \in 1 .. n - 1 : bursts[m] # "unused" IN
  /\ op.at = "floor"
  /\ answer # "refused" => /\ \E n \in Bursts : bursts[n] = "unused"
                           /\ \A n \in Bursts : bursts[n] # "talking"
  /\ bursts' = IF answer = "refused" THEN bursts ELSE [bursts EXCEPT ![b] = "talking"]
  /\ unsure' = IF answer = "lost" THEN unsure \cup {b} ELSE unsure
  /\ IF answer # "granted" THEN op' = [op EXCEPT !.at = "failed"] /\ UNCHANGED page
     ELSE IF op.over THEN op' = [op EXCEPT !.at = "returnFloor", !.floor = b] /\ UNCHANGED page
     ELSE op' = [op EXCEPT !.at = "grantTalk"] /\ page' = [page EXCEPT !.token = b]
  /\ UNCHANGED <<stop, leave, lost, beat, late>>

\* At the server; a stop of a floor that is no longer held changes nothing.
Released(b, ok, as) ==
  IF ok /\ b # 0 /\ bursts[b] = "talking" THEN [bursts EXCEPT ![b] = as] ELSE bursts
GivenUp(b, ok) == IF ok \/ b = 0 THEN unsure ELSE unsure \cup {b}

\* The floor granted to an overtaken attempt is given back.
FloorReturned(ok) ==
  /\ op.at = "returnFloor"
  /\ bursts' = Released(op.floor, ok, "returned")
  /\ unsure' = GivenUp(op.floor, ok)
  /\ IF ok THEN Finished(page, op) ELSE op' = [op EXCEPT !.at = "failed"] /\ UNCHANGED page
  /\ UNCHANGED <<stop, leave, lost, beat, late>>

-----------------------------------------------------------------------------
(* Connecting to the room, for the operation *)

GrantReplied(ok) ==
  /\ op.at \in {"grantJoin", "grantTalk"}
  /\ IF ok /\ ~op.over
     THEN /\ op' = [op EXCEPT !.at = IF op.at = "grantJoin" THEN "connectJoin" ELSE "connectTalk",
                              !.stale = FALSE]
          /\ stop' = Stale(stop)
          /\ page' = [page EXCEPT !.room = "none", !.mic = op.at = "grantTalk" /\ page.mic]
     ELSE /\ UNCHANGED stop
          /\ \/ op.at = "grantJoin" /\ Finished(page, op)
             \/ op.at = "grantTalk" /\ ok /\ Finished(page, op)
             \/ op.at = "grantTalk" /\ ~ok /\ op' = [op EXCEPT !.at = "failed"] /\ UNCHANGED page
  /\ UNCHANGED <<bursts, leave, lost, beat, unsure, late>>

JoinConnected(ok) ==
  /\ op.at = "connectJoin"
  /\ IF ok /\ ~op.stale THEN Finished([page EXCEPT !.room = "listen"], op) /\ UNCHANGED stop
     ELSE IF op.stale THEN Finished(page, op) /\ UNCHANGED stop
     ELSE Finished(Disconnected(page), op) /\ stop' = Stale(stop)
  /\ UNCHANGED <<bursts, leave, lost, beat, unsure, late>>

\* The recorder begins, unless it is busy, and the heartbeat.
TalkConnected(ok) ==
  /\ op.at = "connectTalk"
  /\ \/ /\ ok /\ ~op.stale /\ ~op.over /\ page.rec = 0 /\ page.mic
        /\ Finished([page EXCEPT !.room = "talk", !.rec = page.token, !.timer = TRUE], op)
        /\ UNCHANGED stop
     \/ /\ ok /\ ~op.stale /\ ~op.over /\ ~(page.rec = 0 /\ page.mic)
        /\ op' = [op EXCEPT !.at = "failed"]
        /\ page' = [page EXCEPT !.room = "talk"]
        /\ UNCHANGED stop
     \/ /\ ok /\ ~op.stale /\ op.over
        /\ Finished([page EXCEPT !.room = "talk"], op)
        /\ UNCHANGED stop
     \/ /\ ~ok \/ op.stale
        /\ op' = [op EXCEPT !.at = "failed"]
        /\ page' = IF op.stale THEN [page EXCEPT !.mic = FALSE] ELSE Disconnected(page)
        /\ stop' = IF op.stale THEN stop ELSE Stale(stop)
  /\ UNCHANGED <<bursts, leave, lost, beat, unsure, late>>

\* startRadio failed: the recorder is stopped, then a floor it has is given back.
StartFailed ==
  /\ op.at = "failed"
  /\ IF ~op.over /\ page.token # 0
     THEN /\ op' = [op EXCEPT !.at = "stopping"]
          /\ IF stop.at # "none" THEN UNCHANGED stop /\ page' = [page EXCEPT !.rec = 0]
             ELSE /\ stop' = [NoOp EXCEPT !.at = "stop", !.floor = page.token]
                  /\ page' = [page EXCEPT !.rec = 0, !.stopping = TRUE, !.timer = FALSE]
     ELSE Finished([page EXCEPT !.rec = 0], op) /\ UNCHANGED stop
  /\ UNCHANGED <<bursts, leave, lost, beat, unsure, late>>

StartStopped ==
  /\ op.at = "stopping" /\ stop.at = "none"
  /\ Finished(page, op)
  /\ UNCHANGED <<bursts, stop, leave, lost, beat, unsure, late>>

-----------------------------------------------------------------------------
(* Giving the floor back *)

\* stopRadio: does nothing if its task is under way or no floor is held.
CanStop == stop.at = "none" /\ page.token # 0 /\ page.session
StopTask == /\ stop' = [NoOp EXCEPT !.at = "stop", !.floor = page.token]
            /\ page' = [page EXCEPT !.stopping = TRUE, !.timer = FALSE, !.rec = 0]

StopClicked ==
  /\ page.radio /\ Controls = "TALKING" /\ CanStop
  /\ StopTask
  /\ UNCHANGED <<bursts, op, leave, lost, beat, unsure, late>>

\* The clip of the burst is sent, or the burst discarded (finalizeRadioClip).
Finalized(b) == [bursts EXCEPT ![b] = IF bursts[b] = "released" THEN "finalized" ELSE bursts[b]]

StopReplied(ok) ==
  /\ stop.at = "stop"
  /\ op' = Stale(op)
  /\ LET b == stop.floor
         freed == Released(b, ok, "released") IN
     /\ IF ok /\ leave = "none" /\ page.radio /\ page.session
        THEN /\ stop' = [stop EXCEPT !.at = "grant", !.over = FALSE]
             /\ bursts' = freed
             /\ page' = [Disconnected(page) EXCEPT !.token = 0, !.stopping = FALSE]
        ELSE /\ stop' = NoOp
             /\ bursts' = IF ok /\ freed[b] = "released" THEN [bursts EXCEPT ![b] = "finalized"] ELSE bursts
             /\ page' = [Disconnected(page) EXCEPT !.token = IF ok THEN 0 ELSE page.token, !.stopping = FALSE]
  /\ late' = (late \/ (ok /\ page.token \notin {0, stop.floor}))
  /\ UNCHANGED <<leave, lost, beat, unsure>>

\* Listening again; a failure ends the task before it sends the clip.
ListenGranted(ok) ==
  /\ stop.at = "grant"
  /\ IF ok /\ ~stop.over
     THEN /\ stop' = [stop EXCEPT !.at = "connect", !.stale = FALSE]
          /\ op' = Stale(op) /\ page' = Disconnected(page) /\ UNCHANGED bursts
     ELSE /\ stop' = NoOp
          /\ bursts' = IF ok THEN Finalized(stop.floor) ELSE bursts
          /\ IF ok THEN UNCHANGED <<op, page>>
             ELSE op' = Stale(op) /\ page' = [Disconnected(page) EXCEPT !.stopping = FALSE]
  /\ UNCHANGED <<leave, lost, beat, unsure, late>>

ListenConnected(ok) ==
  /\ stop.at = "connect"
  /\ stop' = NoOp
  /\ IF ok /\ ~stop.stale
     THEN /\ bursts' = Finalized(stop.floor)
          /\ page' = [page EXCEPT !.room = "listen", !.stopping = FALSE]
          /\ UNCHANGED op
     ELSE /\ op' = Stale(op) /\ page' = [Disconnected(page) EXCEPT !.stopping = FALSE]
          /\ UNCHANGED bursts
  /\ UNCHANGED <<leave, lost, beat, unsure, late>>

\* The heartbeat; its reply stops the floor held by then, its failure is taken for
\* the loss of the device.
Heartbeat ==
  /\ page.timer /\ page.token # 0 /\ page.session /\ beat = 0
  /\ beat' = page.token
  /\ UNCHANGED <<bursts, page, op, stop, leave, lost, unsure, late>>

HeartbeatReplied ==
  /\ beat # 0
  /\ beat' = 0
  /\ \/ UNCHANGED <<page, stop, late>>
     \/ /\ bursts[beat] # "talking"
        /\ IF CanStop THEN StopTask ELSE UNCHANGED <<page, stop>>
        /\ late' = (late \/ page.token \notin {0, beat})
  /\ UNCHANGED <<bursts, op, leave, lost, unsure>>

-----------------------------------------------------------------------------
(* The loss of the device, and leaving *)

\* The end of radioDeviceLost: it takes what the page holds by now, a floor or an
\* attempt at one, for what it had when the device was lost.
LossEnds(p, o, s) ==
  /\ lost' = [at |-> "none", floor |-> 0]
  /\ late' = (late \/ p.token \notin {0, lost.floor} \/ (o.at # "none" /\ ~o.over))
  /\ op' = Stale(o) /\ stop' = Stale(s)
  /\ page' = [Disconnected(p) EXCEPT !.token = 0, !.preparing = FALSE, !.lost = TRUE]

\* The floor held is reported lost; without one there is nothing to wait for.
Report(p, o, s) ==
  IF p.token # 0 /\ p.session
  THEN lost' = [at |-> "report", floor |-> p.token] /\ page' = p /\ op' = o /\ stop' = s
       /\ late' = (late \/ (lost.at = "recorder" /\ p.token # lost.floor))
  ELSE LossEnds(p, o, s)

DeviceLost ==
  LET p == [page EXCEPT !.timer = FALSE, !.rec = 0] IN
  /\ lost.at = "none"
  /\ IF page.rec = 0 THEN Report(p, Overtaken(op), Overtaken(stop))
     ELSE /\ lost' = [at |-> "recorder", floor |-> page.token]
          /\ op' = Overtaken(op) /\ stop' = Overtaken(stop) /\ page' = p
          /\ late' = (late \/ (lost.at = "recorder" /\ p.token # lost.floor))

\* The browser's devices change, a track ends, or the provider disconnects.
DeviceEvent ==
  /\ page.radio
  /\ page.session \/ page.token # 0 \/ page.room # "none"
  /\ DeviceLost
  /\ UNCHANGED <<bursts, leave, beat, unsure>>

HeartbeatFailed ==
  /\ beat # 0 /\ beat' = 0
  /\ DeviceLost
  /\ UNCHANGED <<bursts, leave, unsure>>

RecorderStopped ==
  /\ lost.at = "recorder"
  /\ Report(page, op, stop)
  /\ UNCHANGED <<bursts, leave, beat, unsure>>

LossReported(ok) ==
  /\ lost.at = "report"
  /\ bursts' = Released(lost.floor, ok, "suppressed")
  /\ unsure' = GivenUp(lost.floor, ok)
  /\ LossEnds(page, op, stop)
  /\ UNCHANGED <<leave, beat>>

\* leaveRadio, and updateSurface while the radio is in use.
LeaveClicked ==
  /\ page.radio /\ leave = "none"
  /\ op' = Overtaken(op)
  /\ IF CanStop THEN /\ stop' = [NoOp EXCEPT !.at = "stop", !.floor = page.token]
                     /\ page' = [page EXCEPT !.stopping = TRUE, !.timer = FALSE, !.rec = 0]
                     /\ leave' = "stop"
     ELSE /\ stop' = Overtaken(stop)
          /\ IF stop.at # "none" /\ page.token # 0
             THEN leave' = "stop" /\ UNCHANGED page
             ELSE leave' = "request" /\ page' = [page EXCEPT !.rec = 0]
  /\ UNCHANGED <<bursts, lost, beat, unsure, late>>

LeaveStopped ==
  /\ leave = "stop" /\ stop.at = "none"
  /\ leave' = "request"
  /\ page' = [page EXCEPT !.rec = 0]
  /\ UNCHANGED <<bursts, op, stop, lost, beat, unsure, late>>

\* Whatever the answer, the page leaves the surface and forgets the floor.
LeaveReplied ==
  /\ leave = "request"
  /\ leave' = "none"
  /\ unsure' = unsure \cup ({page.token} \ {0})
  /\ op' = Stale(op) /\ stop' = Stale(stop)
  /\ page' = [page EXCEPT !.radio = FALSE, !.session = FALSE, !.token = 0, !.preparing = FALSE,
                          !.stopping = FALSE, !.lost = FALSE, !.room = "none", !.mic = FALSE,
                          !.timer = FALSE]
  /\ UNCHANGED <<bursts, lost, beat, late>>

\* updateSurface while the radio is not in use: nothing is told to the server.
SurfaceLeft ==
  /\ page.radio /\ page.room = "none" /\ page.token = 0 /\ ~page.preparing
  /\ op' = Stale(op) /\ stop' = Stale(stop)
  /\ page' = [page EXCEPT !.radio = FALSE, !.session = FALSE, !.mic = FALSE]
  /\ UNCHANGED <<bursts, leave, lost, beat, unsure, late>>

SurfaceEntered ==
  /\ ~page.radio /\ leave = "none"
  /\ \E s \in BOOLEAN : page' = [page EXCEPT !.radio = TRUE, !.session = s, !.room = "none", !.mic = FALSE]
  /\ op' = Stale(op) /\ stop' = Stale(stop)
  /\ UNCHANGED <<bursts, leave, lost, beat, unsure, late>>

\* External: the lease of a floor expires.
LeaseExpires ==
  /\ \E b \in Bursts : bursts[b] = "talking" /\ bursts' = [bursts EXCEPT ![b] = "expired"]
  /\ UNCHANGED <<page, op, stop, leave, lost, beat, unsure, late>>

Next ==
  \/ JoinClicked \/ OutputChosen \/ RoomReturned
  \/ \E ok \in BOOLEAN :
       \/ JoinReplied(ok) \/ MicAcquired(ok) \/ FloorReturned(ok) \/ GrantReplied(ok)
       \/ JoinConnected(ok) \/ TalkConnected(ok) \/ StopReplied(ok)
       \/ ListenGranted(ok) \/ ListenConnected(ok) \/ LossReported(ok)
  \/ StartClicked \/ \E answer \in {"granted", "refused", "lost"} : FloorReplied(answer)
  \/ StartFailed \/ StartStopped \/ StopClicked
  \/ Heartbeat \/ HeartbeatReplied \/ HeartbeatFailed
  \/ DeviceEvent \/ RecorderStopped
  \/ LeaveClicked \/ LeaveStopped \/ LeaveReplied \/ SurfaceLeft \/ SurfaceEntered
  \/ LeaseExpires

Spec == Init /\ [][Next]_vars

-----------------------------------------------------------------------------
OpStates == Joining \cup {"none", "mic", "floor", "returnFloor", "grantTalk", "connectTalk", "failed", "stopping"}

TypeOK ==
  /\ bursts \in [Bursts -> {"unused", "talking", "released", "finalized", "returned", "suppressed", "expired"}]
  /\ page \in [radio : BOOLEAN, session : BOOLEAN, token : Floors, preparing : BOOLEAN,
               stopping : BOOLEAN, lost : BOOLEAN, room : {"none", "listen", "talk"},
               mic : BOOLEAN, rec : Floors, timer : BOOLEAN]
  /\ op \in [at : OpStates, over : BOOLEAN, stale : BOOLEAN, floor : Floors]
  /\ stop \in [at : {"none", "stop", "grant", "connect"}, over : BOOLEAN, stale : BOOLEAN, floor : Floors]
  /\ leave \in {"none", "stop", "request"}
  /\ lost \in [at : {"none", "recorder", "report"}, floor : Floors]
  /\ beat \in Floors
  /\ unsure \in SUBSET Bursts
  /\ late \in BOOLEAN

\* A floor granted is in somebody's hands until it is given back: the page's, an
\* overtaken attempt's about to return it, or those of a request that does - or the
\* request failed and the floor is left to its lease.  Not so once the reply to a stop,
\* a heartbeat or the report of a lost device has ended a talk newer than its own.
FloorAccounted ==
  ~late => \A b \in Bursts : bursts[b] = "talking" =>
    page.token = b \/ (op.at = "returnFloor" /\ op.floor = b) \/ b \in unsure

\* The recorder runs only for the floor the page holds.
RecordsItsFloor == page.rec # 0 /\ ~late => page.token = page.rec
=============================================================================
