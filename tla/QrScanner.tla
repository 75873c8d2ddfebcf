------------------------------- MODULE QrScanner -------------------------------
(***************************************************************************)
(* Adding a friend by a QR code: the dialog of the assistant page            *)
(* (assistant.js) and its scanner (qr_friend_scanner.js).  The camera, the   *)
(* frames being decoded and the requests that resolve a code all go on after *)
(* the dialog is closed.                                                     *)
(***************************************************************************)
EXTENDS Naturals

CONSTANTS MaxResolves,  \* bounds on the codes resolved,
          MaxFrames,    \* the frames decoded at once
          MaxDialogs    \* and the times the dialog is opened
ScannerAssumption == MaxResolves \in Nat /\ MaxFrames \in Nat /\ MaxDialogs \in Nat

VARIABLES
  dialog,   \* open, how often it was opened, qrProfile (the resolve it is from), the camera button
  cam,      \* startCamera's progress, the stream on, scanning, frames being decoded, the timer
            \* that stop() clears, and those it has lost
  resolves, \* resolveQrValue's requests
  late      \* the stream was granted to a dialog already closed

vars == <<dialog, cam, resolves, late>>
Resolves == 1 .. MaxResolves

Init ==
  /\ dialog = [open |-> FALSE, count |-> 0, profile |-> 0, enabled |-> TRUE, confirming |-> FALSE]
  /\ cam = [start |-> "none", on |-> FALSE, scanning |-> FALSE, frames |-> 0, timer |-> FALSE, strays |-> 0]
  /\ resolves = [r \in Resolves |-> "none"]
  /\ late = FALSE

\* stop: the timer, the stream and the video, the play of which then rejects.
Stop(c) == [c EXCEPT !.on = FALSE, !.scanning = FALSE, !.timer = FALSE,
                     !.start = IF @ = "playing" THEN "failing" ELSE @]

Opened ==
  /\ ~dialog.open /\ dialog.count < MaxDialogs
  /\ dialog' = [dialog EXCEPT !.open = TRUE, !.count = @ + 1, !.profile = 0]
  /\ UNCHANGED <<cam, resolves, late>>

\* Mutant of Close: the dialog goes and the camera stays.
CloseDialogOnly ==
  /\ dialog' = [dialog EXCEPT !.open = FALSE, !.profile = 0]
  /\ UNCHANGED <<cam, late>>
\* closeQrScanner.
Close ==
  /\ dialog' = [dialog EXCEPT !.open = FALSE, !.profile = 0]
  /\ cam' = Stop(cam) /\ late' = FALSE

Closed == dialog.open /\ Close /\ UNCHANGED resolves

\* stopLiveResources.
PageHide == cam' = Stop(cam) /\ late' = FALSE /\ UNCHANGED <<dialog, resolves>>

-----------------------------------------------------------------------------
(* startQrCamera and startCamera *)

CameraClicked ==
  /\ dialog.open /\ dialog.enabled
  /\ dialog' = [dialog EXCEPT !.enabled = FALSE, !.profile = 0]
  /\ cam' = [cam EXCEPT !.start = "preparing"]
  /\ UNCHANGED <<resolves, late>>

\* The detector is ready; an older stream is stopped and the camera asked for.
Prepared ==
  /\ cam.start = "preparing"
  /\ cam' = [Stop(cam) EXCEPT !.start = "asked"]
  /\ late' = FALSE
  /\ UNCHANGED <<dialog, resolves>>

\* Whether the dialog is still open is not looked at.
Granted ==
  /\ cam.start = "asked"
  /\ cam' = [cam EXCEPT !.start = "playing", !.on = TRUE]
  /\ late' = ~dialog.open
  /\ UNCHANGED <<dialog, resolves>>

Playing ==
  /\ cam.start = "playing"
  /\ cam' = [cam EXCEPT !.start = "none", !.scanning = TRUE, !.timer = TRUE]
  /\ dialog' = [dialog EXCEPT !.enabled = TRUE]
  /\ UNCHANGED <<resolves, late>>

CameraFails ==
  /\ cam.start \in {"preparing", "asked", "playing", "failing"}
  /\ cam' = [Stop(cam) EXCEPT !.start = "none"]
  /\ dialog' = [dialog EXCEPT !.enabled = TRUE]
  /\ late' = FALSE
  /\ UNCHANGED resolves

-----------------------------------------------------------------------------
(* scanVideoFrame *)

FrameDue ==
  /\ cam.timer /\ cam.frames + cam.strays < MaxFrames
  /\ cam' = [cam EXCEPT !.timer = FALSE, !.frames = @ + 1]
  /\ UNCHANGED <<dialog, resolves, late>>

\* A timer that was lost fires: a frame more, of whatever camera scans by now.
StrayDue ==
  /\ cam.strays > 0
  /\ cam' = [cam EXCEPT !.strays = @ - 1, !.frames = @ + (IF cam.scanning THEN 1 ELSE 0)]
  /\ UNCHANGED <<dialog, resolves, late>>

\* Mutant of FrameEmpty: a frame is given up twice.
FrameEmptyTwice ==
  /\ cam' = [cam EXCEPT !.frames = @ - 1, !.timer = @ \/ cam.scanning]
  /\ UNCHANGED <<dialog, resolves, late>>
\* No code: the next frame, if a camera scans by now, this one or another, the timer of
\* which is then lost to this one's.
FrameEmpty ==
  /\ cam.frames > 0
  /\ cam' = [cam EXCEPT !.frames = @ - 1, !.timer = @ \/ cam.scanning,
                        !.strays = @ + (IF cam.timer /\ cam.scanning THEN 1 ELSE 0)]
  /\ UNCHANGED <<dialog, resolves, late>>

\* resolveQrValue stops the scanner and asks whose code it is.
Resolve(r) ==
  /\ resolves[r] = "none" /\ \A q \in 1 .. (r - 1) : resolves[q] # "none"
  /\ resolves' = [resolves EXCEPT ![r] = "asked"]

FrameFound(r) ==
  /\ cam.frames > 0
  /\ Resolve(r)
  /\ cam' = [Stop(cam) EXCEPT !.frames = @ - 1]
  /\ late' = FALSE
  /\ UNCHANGED dialog

\* A code typed, or read from a file: the dialog may be closed while it is decoded.
CodeGiven(r) ==
  /\ dialog.count > 0
  /\ Resolve(r)
  /\ cam' = Stop(cam) /\ late' = FALSE
  /\ UNCHANGED dialog

\* The profile is shown whatever was opened, closed or resolved meanwhile.
Resolved(r) ==
  /\ resolves[r] = "asked"
  /\ resolves' = [resolves EXCEPT ![r] = "over"]
  /\ dialog' = [dialog EXCEPT !.profile = r]
  /\ UNCHANGED <<cam, late>>

NotResolved(r) ==
  /\ resolves[r] = "asked"
  /\ resolves' = [resolves EXCEPT ![r] = "over"]
  /\ dialog' = [dialog EXCEPT !.profile = 0]
  /\ UNCHANGED <<cam, late>>

\* confirmQrProfile: the request, then the dialog is closed, even one opened since.
ConfirmClicked ==
  /\ dialog.open /\ dialog.profile # 0 /\ ~dialog.confirming
  /\ dialog' = [dialog EXCEPT !.confirming = TRUE]
  /\ UNCHANGED <<cam, resolves, late>>

Confirmed ==
  /\ dialog.confirming
  /\ dialog' = [dialog EXCEPT !.confirming = FALSE, !.open = FALSE, !.profile = 0]
  /\ cam' = Stop(cam) /\ late' = FALSE
  /\ UNCHANGED resolves

ConfirmFailed ==
  /\ dialog.confirming
  /\ dialog' = [dialog EXCEPT !.confirming = FALSE]
  /\ UNCHANGED <<cam, resolves, late>>

Next ==
  \/ Opened \/ Closed \/ PageHide \/ CameraClicked \/ Prepared \/ Granted \/ Playing \/ CameraFails
  \/ FrameDue \/ StrayDue \/ FrameEmpty \/ ConfirmClicked \/ Confirmed \/ ConfirmFailed
  \/ \E r \in Resolves : FrameFound(r) \/ CodeGiven(r) \/ Resolved(r) \/ NotResolved(r)

Spec == Init /\ [][Next]_vars

-----------------------------------------------------------------------------
TypeOK ==
  /\ dialog \in [open : BOOLEAN, count : 0 .. MaxDialogs, profile : 0 .. MaxResolves, enabled : BOOLEAN, confirming : BOOLEAN]
  /\ cam \in [start : {"none", "preparing", "asked", "playing", "failing"}, on : BOOLEAN, scanning : BOOLEAN,
              frames : 0 .. MaxFrames, timer : BOOLEAN, strays : 0 .. MaxFrames]
  /\ resolves \in [Resolves -> {"none", "asked", "over"}]
  /\ late \in BOOLEAN

\* The camera is on for an open dialog only - but for the one case the page does not
\* look at, a permission given after the dialog was closed - and only a camera that is
\* on is scanned.
CameraOfDialog ==
  /\ cam.on => dialog.open \/ late
  /\ cam.scanning \/ cam.timer => cam.on
=============================================================================
