---------------------------- MODULE GroupTranslation ----------------------------
(***************************************************************************)
(* The translation panel of a group call or radio (group_v3_translation.js): *)
(* its history, loaded when an event tells of a change, and the operations   *)
(* that hold it back: a text sent, a recording, a translation tried again.   *)
(* The history is the number of its last change.                             *)
(***************************************************************************)
EXTENDS Naturals

CONSTANTS MaxChanges, MaxLoads,  \* bounds on the changes and the loads at once
          MaxAttempts            \* of the convergence
PanelAssumption == MaxChanges \in Nat /\ MaxLoads \in Nat \ {0} /\ MaxAttempts \in Nat

VARIABLES
  server,  \* external: the changes, those told by an event, the panel's availability
  panel,   \* the history shown, historyLoaded, submitting, recording, refreshIntent, ...
  op,      \* the operation under way
  loads,   \* the history loads under way
  missed   \* what the panel gives up: a load failed, refused or outdated by a recording

vars == <<server, panel, op, loads, missed>>
Loads == 1 .. MaxLoads
NoLoad == [at |-> "none", version |-> 0, fresh |-> FALSE, last |-> FALSE]
\* stateFor: a panel that was just mounted.
NewPanel == [shown |-> 0, loaded |-> FALSE, submitting |-> FALSE, recording |-> FALSE, intent |-> FALSE,
             due |-> FALSE, timer |-> FALSE, attempts |-> 0]
NoOp == [at |-> "none", load |-> 0]

Pending == \E n \in Loads : loads[n].at # "none" /\ loads[n].last
Idle == ~panel.submitting /\ ~panel.recording

-----------------------------------------------------------------------------
(* loadHistory and requestHistoryRefresh *)

\* A load takes the place of the one before: only its reply counts.
Begun(n) == [m \in Loads |-> IF m = n THEN [NoLoad EXCEPT !.at = "asked", !.fresh = TRUE, !.last = TRUE]
                             ELSE [loads[m] EXCEPT !.last = FALSE]]

\* Without the media there is no load.
LoadWith(p, o) ==
  IF ~server.available
  THEN /\ panel' = p /\ missed' = TRUE /\ UNCHANGED loads
       /\ op' = IF o.at = "reload" THEN NoOp ELSE o
  ELSE \E n \in Loads :
         /\ loads[n].at = "none" /\ \A m \in 1 .. (n - 1) : loads[m].at # "none"
         /\ loads' = Begun(n)
         /\ op' = IF o.at = "reload" THEN [o EXCEPT !.load = n] ELSE o
         /\ panel' = p /\ UNCHANGED missed

\* Mutant of Requested: what is asked while the panel is busy is dropped.
RequestedWhenIdle(p) == IF p.submitting \/ p.recording \/ Pending THEN p ELSE [p EXCEPT !.intent = FALSE]
\* requestHistoryRefresh: a busy panel keeps the intent.
Requested(p) == IF p.submitting \/ p.recording \/ Pending THEN [p EXCEPT !.intent = TRUE] ELSE [p EXCEPT !.intent = FALSE]

Refresh(p) ==
  IF p.submitting \/ p.recording \/ Pending
  THEN panel' = Requested(p) /\ UNCHANGED <<op, loads, missed>>
  ELSE LoadWith(Requested(p), op)

\* translation-segment and translation-reconcile events.
EventArrives ==
  /\ server.told < server.version
  /\ server' = [server EXCEPT !.told = server.version]
  /\ Refresh(panel)

Microtask ==
  /\ panel.due
  /\ Refresh([panel EXCEPT !.due = FALSE])
  /\ UNCHANGED server

ConvergenceDue ==
  /\ panel.timer
  /\ Refresh([panel EXCEPT !.timer = FALSE])
  /\ UNCHANGED server

LoadServed(n) ==
  /\ loads[n].at = "asked"
  /\ loads' = [loads EXCEPT ![n].at = "served", ![n].version = server.version]
  /\ UNCHANGED <<server, panel, op, missed>>

\* What follows the load of an operation, and the finally of every load.
After(p, n) ==
  LET over == op.at = "reload" /\ op.load = n
      q == IF over THEN [p EXCEPT !.submitting = FALSE] ELSE p IN
  /\ panel' = [q EXCEPT !.due = @ \/ (q.intent /\ ~q.recording /\ ~q.submitting)]
  /\ op' = IF over THEN NoOp ELSE op
  /\ loads' = [loads EXCEPT ![n] = NoLoad]

\* While segments are processing, another load is due, a few times.
Shown(n, processing) ==
  LET again == processing /\ panel.attempts < MaxAttempts IN
  [panel EXCEPT !.shown = loads[n].version, !.loaded = TRUE, !.timer = again,
                !.attempts = IF again THEN @ + 1 ELSE IF processing THEN @ ELSE 0]

LoadReplied(n, processing) ==
  /\ loads[n].at = "served"
  /\ LET counts == loads[n].fresh /\ loads[n].last IN
     /\ After(IF counts THEN Shown(n, processing) ELSE panel, n)
     /\ missed' = (missed /\ ~counts)
  /\ UNCHANGED server

LoadFailed(n) ==
  /\ loads[n].at # "none"
  /\ After(panel, n)
  /\ missed' = (missed \/ loads[n].last)
  /\ UNCHANGED server

-----------------------------------------------------------------------------
(* The operations: send, record, retry and the controls *)

Busy(at) == panel' = [panel EXCEPT !.submitting = TRUE] /\ op' = [NoOp EXCEPT !.at = at]

SendClicked == Idle /\ Busy("text") /\ UNCHANGED <<server, loads, missed>>
RetryClicked == Idle /\ Busy("text") /\ UNCHANGED <<server, loads, missed>>
RecordClicked == Idle /\ Busy("profile") /\ UNCHANGED <<server, loads, missed>>

\* saveProfile, then startRecording: a new generation, that outdates the loads under way.
RecordingStarts ==
  /\ op.at = "profile"
  /\ panel' = [panel EXCEPT !.recording = TRUE]
  /\ op' = [op EXCEPT !.at = "recording"]
  /\ loads' = [n \in Loads |-> [loads[n] EXCEPT !.fresh = FALSE]]
  /\ UNCHANGED <<server, missed>>

\* stopRecording and the stop event; the audio is uploaded.
RecordingStops ==
  /\ op.at = "recording"
  /\ panel' = [panel EXCEPT !.recording = FALSE]
  /\ op' = [op EXCEPT !.at = "upload"]
  /\ UNCHANGED <<server, loads, missed>>

\* recordingFailure and a profile not saved: what waited for the recording is not asked.
RecordingFails ==
  /\ op.at \in {"profile", "recording"}
  /\ panel' = [panel EXCEPT !.recording = FALSE, !.submitting = FALSE]
  /\ op' = NoOp /\ missed' = TRUE
  /\ UNCHANGED <<server, loads>>

\* The text or the audio makes a segment, of which an event will tell as well.
OpServed ==
  /\ op.at \in {"text", "upload"} /\ server.version < MaxChanges
  /\ server' = [server EXCEPT !.version = @ + 1]
  /\ op' = [op EXCEPT !.at = "served"]
  /\ UNCHANGED <<panel, loads, missed>>

\* completeSegment, and the history again before the panel is free.
OpReplied ==
  /\ op.at = "served"
  /\ IF server.available THEN LoadWith(panel, [op EXCEPT !.at = "reload"])
     ELSE LoadWith([panel EXCEPT !.submitting = FALSE, !.due = @ \/ panel.intent], [op EXCEPT !.at = "reload"])
  /\ UNCHANGED server

OpFails ==
  /\ op.at \in {"text", "upload", "served"}
  /\ panel' = [panel EXCEPT !.submitting = FALSE, !.due = @ \/ panel.intent]
  /\ op' = NoOp
  /\ missed' = (missed \/ op.at = "upload" \/ op.at = "served")
  /\ UNCHANGED <<server, loads>>

\* A control is changed, or the history asked for: a load whatever else is under way.
ControlChanged ==
  /\ LoadWith(panel, op)
  /\ UNCHANGED server

-----------------------------------------------------------------------------
(* bind and disposeState *)

Disposed == loads' = [n \in Loads |-> NoLoad] /\ op' = NoOp

\* The media come back or go: a panel that works is thrown away with its requests; one
\* that has no history loads it when it can.
Rendered(available) ==
  LET s == [server EXCEPT !.available = available] IN
  /\ server' = s
  /\ IF ~available /\ panel.submitting
     THEN Disposed /\ panel' = NewPanel /\ missed' = TRUE
     ELSE IF available /\ ~panel.loaded /\ ~Pending
     THEN /\ \E n \in Loads : /\ loads[n].at = "none" /\ \A m \in 1 .. (n - 1) : loads[m].at # "none"
                              /\ loads' = Begun(n)
          /\ UNCHANGED <<panel, op, missed>>
     ELSE UNCHANGED <<panel, op, loads, missed>>

\* Another runtime, or media-disconnected: the panel is new and loads at once.
Remounted ==
  /\ server.available
  /\ panel' = NewPanel /\ op' = NoOp /\ missed' = FALSE
  /\ loads' = [[n \in Loads |-> NoLoad] EXCEPT ![1] = [NoLoad EXCEPT !.at = "asked", !.fresh = TRUE, !.last = TRUE]]
  /\ UNCHANGED server

Change ==
  /\ server.version < MaxChanges
  /\ server' = [server EXCEPT !.version = @ + 1]
  /\ UNCHANGED <<panel, op, loads, missed>>

Init ==
  /\ server = [version |-> 0, told |-> 0, available |-> TRUE]
  /\ panel = NewPanel /\ op = NoOp /\ missed = FALSE
  /\ loads = [[n \in Loads |-> NoLoad] EXCEPT ![1] = [NoLoad EXCEPT !.at = "asked", !.fresh = TRUE, !.last = TRUE]]

Next ==
  \/ EventArrives \/ Microtask \/ ConvergenceDue \/ Change \/ Remounted \/ ControlChanged
  \/ SendClicked \/ RetryClicked \/ RecordClicked \/ RecordingStarts \/ RecordingStops \/ RecordingFails
  \/ OpServed \/ OpReplied \/ OpFails
  \/ \E n \in Loads : LoadServed(n) \/ LoadFailed(n) \/ \E processing \in BOOLEAN : LoadReplied(n, processing)
  \/ \E available \in BOOLEAN : Rendered(available)

Spec == Init /\ [][Next]_vars

-----------------------------------------------------------------------------
TypeOK ==
  /\ server \in [version : 0 .. MaxChanges, told : 0 .. MaxChanges, available : BOOLEAN]
  /\ panel \in [shown : 0 .. MaxChanges, loaded : BOOLEAN, submitting : BOOLEAN, recording : BOOLEAN, intent : BOOLEAN,
                due : BOOLEAN, timer : BOOLEAN, attempts : 0 .. MaxAttempts]
  /\ op \in [at : {"none", "text", "profile", "recording", "upload", "served", "reload"}, load : 0 .. MaxLoads]
  /\ loads \in [Loads -> [at : {"none", "asked", "served"}, version : 0 .. MaxChanges, fresh : BOOLEAN, last : BOOLEAN]]
  /\ missed \in BOOLEAN

\* What the events have told is shown once the panel is idle: an event that came while
\* a load, a text or a recording was under way is made up for.  Left out is what the
\* panel gives up: a load that failed, one refused without the media, and a recording
\* that failed, after which the refresh that waited for it is not asked.
ToldIsShown ==
  Idle /\ ~Pending /\ ~panel.due /\ ~missed => panel.shown >= server.told
=============================================================================
