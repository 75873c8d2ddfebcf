----------------------------- MODULE VoiceNote -----------------------------
(***************************************************************************)
(* The attachments of the message form (messaging_composer_attachments_    *)
(* v2.js): a file, a place, or a voice note.  A recording asks for the     *)
(* microphone, waits, records and is closed, while the user cancels it, a  *)
(* call begins, the permission is given too late or the page goes away.    *)
(*                                                                         *)
(* An attachment is a number; the conversion of the samples is left out.   *)
(***************************************************************************)
EXTENDS Naturals

CONSTANTS
  MaxRecordings,    \* bound on the recordings started
  MaxAttachments    \* bound on the attachments made

VoiceNoteAssumption == MaxRecordings \in Nat \ {0} /\ MaxAttachments \in Nat \ {0}

VARIABLES
  notes,      \* the recordings started, by number
  form,       \* the form's state
  call        \* a call is active: the class of the page's body

vars == <<notes, form, call>>
Recordings == 1 .. MaxRecordings

\* A recording: what its code awaits, phase, whether its microphone is live,
\* cancelled, its interval running.
Unused == [awaits |-> "unused", phase |-> "none", mic |-> FALSE, cancelled |-> FALSE,
           timer |-> FALSE]

\* state.recording (0: null), busy (the class and the disabled buttons), pending
\* (0: null), a locationRequest, destroyed, the picker of a file is open, the
\* number of attachments made.  History: stuck, a recording that was cancelled
\* left the form busy.
Init ==
  /\ notes = [r \in Recordings |-> Unused]
  /\ form = [recording |-> 0, busy |-> FALSE, pending |-> 0, location |-> FALSE,
             destroyed |-> FALSE, picker |-> FALSE, made |-> 0, stuck |-> FALSE]
  /\ call = FALSE

-----------------------------------------------------------------------------
(* Helpers *)

\* clearPending and selectPending.
ClearPending(s) == [s EXCEPT !.pending = 0]
SelectPending(s) == [s EXCEPT !.pending = s.made + 1, !.made = @ + 1]
RoomForOne == form.made < MaxAttachments

\* disposeRecorder up to its await: the microphone stops at once.
Disposed(note, keep) ==
  [note EXCEPT !.phase = "stopping", !.cancelled = ~keep, !.timer = FALSE, !.mic = FALSE]
Dropped(s, r) == [s EXCEPT !.recording = IF @ = r THEN 0 ELSE @]

\* cancelRecording: what the recording awaits goes on without it, and the form
\* stays busy.
CancelRecording(s) ==
  IF s.recording = 0 THEN notes' = notes /\ form' = s
  ELSE /\ notes' = [notes EXCEPT ![s.recording] = Disposed(@, FALSE)]
       /\ form' = Dropped(s, s.recording)

\* A busy form disables the buttons of the menu; a call closes it and keeps it so.
MenuReady == ~form.busy /\ ~call

Stale(r) == form.destroyed \/ form.recording # r \/ notes[r].cancelled \/ call

-----------------------------------------------------------------------------
(* Recording *)

\* The browser has no recorder: the attachment is cleared all the same.
RecordingUnsupported ==
  /\ MenuReady /\ ~form.destroyed /\ form.recording = 0 /\ ~form.location
  /\ form.pending # 0
  /\ form' = ClearPending(form)
  /\ UNCHANGED <<notes, call>>

StartRecording(r) ==
  /\ MenuReady /\ ~form.destroyed /\ form.recording = 0 /\ ~form.location
  /\ notes[r].awaits = "unused" /\ \A q \in Recordings : q < r => notes[q].awaits # "unused"
  /\ notes' = [notes EXCEPT ![r] = [Unused EXCEPT !.awaits = "permission", !.phase = "permission_request"]]
  /\ form' = [ClearPending(form) EXCEPT !.recording = r, !.busy = TRUE]
  /\ call' = call

\* Mutant: the recording is not looked at again after the wait.
PermissionGranted_Unchecked(r) ==
  /\ notes[r].awaits = "permission"
  /\ notes' = [notes EXCEPT ![r] = [@ EXCEPT !.mic = TRUE, !.awaits = "context"]]
  /\ UNCHANGED <<form, call>>

\* getUserMedia answers in time: a recording cancelled since is disposed of.
PermissionGranted(r) ==
  /\ notes[r].awaits = "permission"
  /\ IF Stale(r)
     THEN /\ notes' = [notes EXCEPT ![r] = [Disposed(@, FALSE) EXCEPT !.awaits = "nothing"]]
          /\ form' = [Dropped(form, r) EXCEPT !.stuck = TRUE]
     ELSE /\ notes' = [notes EXCEPT ![r] = [@ EXCEPT !.mic = TRUE, !.awaits = "context"]]
          /\ form' = form
  /\ call' = call

\* startRecording's catch: a recording that is not stale frees the form.
Fails(r, next) ==
  /\ notes' = [notes EXCEPT ![r] = [Disposed(@, FALSE) EXCEPT !.awaits = next]]
  /\ form' = [Dropped(form, r) EXCEPT !.busy = @ /\ Stale(r), !.stuck = @ \/ Stale(r)]
  /\ call' = call

\* The permission is refused, or 15 seconds have passed (late: it may yet come).
PermissionRefused(r, late) ==
  /\ notes[r].awaits = "permission"
  /\ Fails(r, IF late THEN "late" ELSE "nothing")

\* timedGetUserMedia: a stream that comes after the timeout is stopped.
LatePermission(r) ==
  /\ notes[r].awaits = "late"
  /\ notes' = [notes EXCEPT ![r].awaits = "nothing"]
  /\ UNCHANGED <<form, call>>

\* The audio context runs, or a second has passed: nothing is looked at again.
ContextReady(r) ==
  /\ notes[r].awaits = "context"
  /\ notes' = [notes EXCEPT ![r] = [@ EXCEPT !.awaits = "nothing", !.timer = TRUE, !.phase = "recording"]]
  /\ form' = [form EXCEPT !.busy = FALSE]
  /\ call' = call

\* Or the context, closed perhaps by a cancellation, refuses its nodes.
ContextRefuses(r) == notes[r].awaits = "context" /\ Fails(r, "nothing")

PauseRecording ==
  LET r == form.recording IN
  /\ r # 0 /\ notes[r].phase = "recording"
  /\ notes' = [notes EXCEPT ![r].phase = "paused"]
  /\ UNCHANGED <<form, call>>

ResumeRecording ==
  LET r == form.recording IN
  /\ r # 0 /\ notes[r].phase = "paused"
  /\ notes' = [notes EXCEPT ![r].phase = "recording"]
  /\ UNCHANGED <<form, call>>

\* The button, or the 300 seconds.
StopRecording ==
  LET r == form.recording IN
  /\ r # 0 /\ notes[r].phase \in {"recording", "paused"}
  /\ notes' = [notes EXCEPT ![r] = [Disposed(@, TRUE) EXCEPT !.awaits = "close"]]
  /\ form' = Dropped(form, r)
  /\ call' = call

\* stopRecording after its await: the note is attached, unless it is too long.
RecordingClosed(r, short) ==
  /\ notes[r].awaits = "close" /\ RoomForOne
  /\ notes' = [notes EXCEPT ![r].awaits = "nothing"]
  /\ form' = IF notes[r].cancelled \/ form.destroyed \/ ~short THEN form ELSE SelectPending(form)
  /\ call' = call

CancelClicked == form.recording # 0 /\ CancelRecording(form) /\ call' = call

-----------------------------------------------------------------------------
(* Files and places *)

\* The menu opens the browser's picker, of a file or an image.
PickerOpened ==
  /\ MenuReady /\ ~form.picker
  /\ form' = [form EXCEPT !.picker = TRUE]
  /\ UNCHANGED <<notes, call>>

\* Its answer is taken whatever began meanwhile: a recording, a call, the end of the page.
FileChosen ==
  /\ form.picker /\ RoomForOne
  /\ form' = [SelectPending(form) EXCEPT !.picker = FALSE]
  /\ UNCHANGED <<notes, call>>

\* The picker is dismissed, or what it gives is too large or of another type.
FileRefused ==
  /\ form.picker
  /\ form' = [form EXCEPT !.picker = FALSE]
  /\ UNCHANGED <<notes, call>>

\* The button, or clear, the other composers' way to drop the attachment.
RemoveClicked ==
  /\ form.pending # 0
  /\ form' = ClearPending(form)
  /\ UNCHANGED <<notes, call>>

RequestLocation ==
  /\ MenuReady /\ ~form.destroyed /\ ~form.location /\ form.recording = 0
  /\ form' = [form EXCEPT !.location = TRUE, !.busy = TRUE]
  /\ UNCHANGED <<notes, call>>

\* The position is known; or it is not, or is out of bounds.  An answer to a
\* page that is gone is not taken.
LocationAnswered(known) ==
  LET s == [form EXCEPT !.location = FALSE, !.busy = FALSE] IN
  /\ form.location /\ ~form.destroyed /\ (known => RoomForOne)
  /\ form' = IF known THEN SelectPending(s) ELSE s
  /\ UNCHANGED <<notes, call>>

-----------------------------------------------------------------------------
(* The message and the page *)

\* External: the page has sent a message ("message-sent", assistant.js), with this
\* attachment, an earlier one or none: the attachment there is now is cleared.
MessageSent ==
  /\ form.pending # 0
  /\ form' = ClearPending(form)
  /\ UNCHANGED <<notes, call>>

\* The observer of the body's class, and the "call-state" event.
CallStarts == ~call /\ call' = TRUE /\ CancelRecording(form)
CallEnds == call /\ call' = FALSE /\ UNCHANGED <<notes, form>>

\* cleanup, dispose.
PageGone ==
  /\ ~form.destroyed
  /\ CancelRecording([form EXCEPT !.destroyed = TRUE, !.location = FALSE])
  /\ call' = call

-----------------------------------------------------------------------------
Next ==
  \/ \E r \in Recordings :
       \/ StartRecording(r) \/ PermissionGranted(r) \/ LatePermission(r)
       \/ ContextReady(r) \/ ContextRefuses(r)
       \/ \E b \in BOOLEAN : PermissionRefused(r, b) \/ RecordingClosed(r, b)
  \/ PauseRecording \/ ResumeRecording \/ StopRecording \/ CancelClicked
  \/ RecordingUnsupported \/ PickerOpened \/ FileChosen \/ FileRefused \/ RemoveClicked
  \/ RequestLocation \/ MessageSent
  \/ \E known \in BOOLEAN : LocationAnswered(known)
  \/ CallStarts \/ CallEnds \/ PageGone

Spec == Init /\ [][Next]_vars

-----------------------------------------------------------------------------
TypeOK ==
  /\ notes \in [Recordings ->
       [awaits : {"unused", "permission", "late", "context", "close", "nothing"},
        phase : {"none", "permission_request", "recording", "paused", "stopping"},
        mic : BOOLEAN, cancelled : BOOLEAN, timer : BOOLEAN]]
  /\ form \in [recording : Recordings \cup {0}, busy : BOOLEAN, pending : 0 .. MaxAttachments,
               location : BOOLEAN, destroyed : BOOLEAN, picker : BOOLEAN,
               made : 0 .. MaxAttachments, stuck : BOOLEAN]
  /\ call \in BOOLEAN

\* A microphone is live only for the recording the form shows, on a page still
\* there and outside a call, whenever the permission is given.
MicWhileRecording ==
  \A r \in Recordings : notes[r].mic => form.recording = r /\ ~form.destroyed /\ ~call

\* The form does not stay busy for nothing: the buttons are disabled while a
\* position, a permission or a context is awaited - or for good, once the page was
\* left or a recording was cancelled before it began.
BusyHasCause ==
  form.busy =>
    \/ form.location \/ form.destroyed \/ form.stuck
    \/ \E r \in Recordings : notes[r].awaits \in {"permission", "context"}
=============================================================================
