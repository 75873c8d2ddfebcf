-------------------------- MODULE CallTranslation --------------------------
(***************************************************************************)
(* The translation segments of a call (call-v1/translation_plugin.js): a   *)
(* text, or a recording of the call's microphone, which is translated      *)
(* either while it is spoken, over a provider's realtime channel, and then *)
(* finalized, or from the recorded audio when the realtime path fails.     *)
(*                                                                         *)
(* One call, from its connection to its end; the panel may be closed and   *)
(* opened again meanwhile.  What runs from one await, timer or callback to *)
(* the next is one action.  The spoken translation is CallVoice's.         *)
(***************************************************************************)
EXTENDS Naturals

CONSTANTS Segments,    \* this user's segments
          PeerResults, \* translation.result events of the other person
          None,
          MaxGen,      \* bound: generations of the plugin
          MaxShown     \* bound on the displays counted for a result

TranslationAssumption ==
  /\ None \notin Segments \cup PeerResults
  /\ Segments \cap PeerResults = {}
  /\ MaxGen \in Nat \ {0}
  /\ MaxShown \in Nat \ {0, 1}

VARIABLES
  live,    \* external: the call is connected
  plug,    \* pluginGeneration, _recording, lastResult, _seenRequestIds
  seg,     \* segment -> its recording, realtime context and request
  shows    \* history: how often each result was shown

vars == <<live, plug, seg, shows>>

Results == Segments \cup PeerResults
Final == {"FINALIZING", "RETRY_FINALIZE", "COMPLETED"}

\* at: the recorder; rt: realtime.state ("none" without a realtime context);
\* start: what _startRealtimeFastPath awaits; chan: the data channel; text: both
\* transcripts have come; closed: providerClosed; drain, cap: the timers; stop:
\* stopRequested; blob: the recorded audio; done: completionStarted; job: the
\* request under way, "wait" before a retry; sent (history): the paths asked.
Fresh == [at |-> "free", gen |-> 0, rt |-> "none", start |-> "none", chan |-> "none",
          text |-> FALSE, closed |-> FALSE, drain |-> FALSE, cap |-> FALSE, stop |-> FALSE,
          blob |-> FALSE, done |-> FALSE, job |-> "none", attempt |-> 0, sent |-> {}]

Init ==
  /\ live = TRUE
  /\ plug = [gen |-> 1, recording |-> None, shown |-> None, seen |-> {}]
  /\ seg = [s \in Segments |-> Fresh]
  /\ shows = [r \in Results |-> 0]

Current(x) == live /\ x.gen = plug.gen

Put(s, x) == seg' = [seg EXCEPT ![s] = x]
Only(s, x) == Put(s, x) /\ UNCHANGED <<live, plug, shows>>

-----------------------------------------------------------------------------
(* The realtime context *)

\* _cleanupRealtimeContext.  Aborting the provider's answer ends the start.
Cleanup(x) == [x EXCEPT !.cap = FALSE, !.drain = FALSE, !.chan = "none",
                        !.start = IF @ = "sdp" THEN "over" ELSE @]

TranslateAudio(x) ==
  [x EXCEPT !.done = TRUE, !.job = "audio", !.sent = @ \cup {"audio"}]

\* _completeVoiceRecording.
Complete(x) ==
  IF ~x.blob \/ x.done \/ ~Current(x) THEN x
  ELSE IF x.rt = "none" THEN TranslateAudio(x)
  ELSE IF x.rt = "FALLBACK" THEN TranslateAudio(Cleanup(x))
  ELSE IF x.rt = "FINALIZING"
       THEN [x EXCEPT !.done = TRUE, !.job = "finalize", !.sent = @ \cup {"finalize"}]
  ELSE x

\* _fallbackRealtime.
Fallback(x) ==
  IF x.rt = "none" \/ x.rt \in Final THEN x
  ELSE Complete([Cleanup(x) EXCEPT !.rt = "FALLBACK"])

\* Mutant: no drain timer.
RequestCloseOnce(x) ==
  IF x.rt = "none" \/ ~Current(x) THEN x
  ELSE [x EXCEPT !.cap = FALSE, !.rt = IF @ = "FALLBACK" THEN @ ELSE "CLOSING"]

\* _requestRealtimeClose.  The drain timer is armed once.
RequestClose(x) ==
  IF x.rt = "none" \/ ~Current(x) THEN x
  ELSE [x EXCEPT !.cap = FALSE, !.drain = TRUE,
                 !.rt = IF @ = "FALLBACK" THEN @ ELSE "CLOSING"]

\* The provider is ready.
Streaming(x) == [x EXCEPT !.rt = IF @ = "STARTING" THEN "STREAMING" ELSE @]

ClosedIfStopped(x) == IF x.stop THEN RequestClose(x) ELSE x

\* The realtime session's request is answered, or fails.
SessionReplied(s, ok) ==
  LET x == [seg[s] EXCEPT !.start = "over"] IN
  /\ seg[s].start = "session"
  /\ Only(s, IF ~Current(x) THEN x
             ELSE IF ~ok THEN Fallback(x)
             ELSE IF x.stop THEN Complete([Cleanup(x) EXCEPT !.rt = "FALLBACK"])
             ELSE [x EXCEPT !.start = "sdp", !.chan = "connecting"])

\* The provider answers the offer, or an await on the way to it fails.
SdpReplied(s, ok) ==
  LET x == [seg[s] EXCEPT !.start = "over"] IN
  /\ seg[s].start = "sdp"
  /\ Only(s, IF ~Current(x) THEN x
             ELSE IF ~ok THEN Fallback(x)
             ELSE ClosedIfStopped([Streaming(x) EXCEPT !.cap = TRUE]))

ChannelOpened(s) ==
  /\ seg[s].chan = "connecting" /\ seg[s].start = "over"
  /\ Only(s, ClosedIfStopped([Streaming(seg[s]) EXCEPT !.chan = "open"]))

\* onerror, onclose, a failed connection or the provider's error event.
ChannelFailed(s) ==
  /\ seg[s].chan # "none"
  /\ Only(s, Fallback(seg[s]))

TranscriptArrived(s) ==
  /\ seg[s].chan = "open" /\ ~seg[s].text
  /\ Only(s, [Streaming(seg[s]) EXCEPT !.text = TRUE])

\* session.closed, after a close request or by the provider itself.
ProviderClosed(s) ==
  /\ seg[s].chan = "open"
  /\ Only(s, Complete([Cleanup(seg[s]) EXCEPT !.closed = TRUE,
                         !.rt = IF seg[s].text THEN "FINALIZING" ELSE "FALLBACK"]))

DrainExpired(s) ==
  LET x == [seg[s] EXCEPT !.drain = FALSE] IN
  /\ seg[s].drain
  /\ Only(s, IF x.closed THEN x ELSE Fallback(x))

-----------------------------------------------------------------------------
(* Recording *)

StartRecording(s, realtime) ==
  /\ live /\ plug.recording = None /\ seg[s].at = "free"
  /\ plug' = [plug EXCEPT !.recording = s]
  /\ Put(s, [Fresh EXCEPT !.at = "recording", !.gen = plug.gen,
                          !.rt = IF realtime THEN "STARTING" ELSE "none",
                          !.start = IF realtime THEN "session" ELSE "none"])
  /\ UNCHANGED <<live, shows>>

Unrecorded(s) == IF plug.recording = s THEN [plug EXCEPT !.recording = None] ELSE plug

\* stopRecording, from the button or the timer of the longest duration.
StopRecording(s) ==
  /\ plug.recording = s
  /\ plug' = Unrecorded(s)
  /\ Put(s, RequestClose([seg[s] EXCEPT !.stop = TRUE, !.at = "stopping"]))
  /\ UNCHANGED <<live, shows>>

CapExpired(s) ==
  /\ seg[s].cap
  /\ IF plug.recording = s THEN StopRecording(s)
     ELSE Only(s, [seg[s] EXCEPT !.cap = FALSE])

\* recorder.onstop, on request or because the track has ended.
RecorderStopped(s, heard) ==
  LET x == [seg[s] EXCEPT !.at = "stopped"] IN
  /\ seg[s].at \in {"recording", "stopping"}
  /\ plug' = Unrecorded(s)
  /\ Put(s, IF heard THEN Complete([x EXCEPT !.blob = TRUE])
            ELSE [Cleanup(x) EXCEPT !.at = "over"])
  /\ UNCHANGED <<live, shows>>

RecorderFailed(s) ==
  /\ seg[s].at \in {"recording", "stopping"}
  /\ plug' = Unrecorded(s)
  /\ Put(s, [Cleanup(seg[s]) EXCEPT !.at = "over"])
  /\ UNCHANGED <<live, shows>>

-----------------------------------------------------------------------------
(* Requests *)

Counted(r) == [shows EXCEPT ![r] = IF @ < MaxShown THEN @ + 1 ELSE @]
Seen(r) == [plug EXCEPT !.seen = @ \cup {r}, !.shown = r]

\* A result of this user is shown.
Show(s, x) ==
  /\ plug' = Seen(s)
  /\ shows' = Counted(s)
  /\ Put(s, x)
  /\ UNCHANGED live

\* translateText.
TextSubmitted(s) ==
  /\ live /\ seg[s].at = "free"
  /\ Only(s, [Fresh EXCEPT !.at = "stopped", !.gen = plug.gen, !.done = TRUE, !.job = "text"])

\* The reply to translateText or _translateRecordedAudio.
TranslationReplied(s, ok) ==
  LET x == [seg[s] EXCEPT !.job = "none"] IN
  /\ seg[s].job \in {"text", "audio"}
  /\ IF ok THEN Show(s, x) ELSE Only(s, x)

\* Mutant: a finalization given up falls back to the audio.
FinalizeFallsBack(s, outcome) ==
  LET x == [seg[s] EXCEPT !.job = "none", !.rt = "RETRY_FINALIZE"] IN
  /\ seg[s].job = "finalize"
  /\ IF outcome \in {"synced", "unsynced"} THEN Show(s, [x EXCEPT !.rt = "COMPLETED"])
     ELSE Only(s, TranslateAudio(x))

\* The reply to _finalizeRealtimeFastPath: delivered to the other person, kept
\* but not delivered, an error to retry, another error.
FinalizeReplied(s, outcome) ==
  LET again == seg[s].attempt < 2
      x == [seg[s] EXCEPT !.job = "none", !.rt = "RETRY_FINALIZE"]
  IN
  /\ seg[s].job = "finalize"
  /\ IF outcome \in {"unsynced", "retry"} /\ again THEN Only(s, [x EXCEPT !.job = "wait"])
     ELSE IF outcome \in {"synced", "unsynced"}
          THEN Show(s, [Cleanup(x) EXCEPT !.rt = "COMPLETED", !.blob = FALSE])
     ELSE Only(s, x)

RetryDue(s) ==
  /\ seg[s].job = "wait"
  /\ Only(s, [seg[s] EXCEPT !.job = "finalize", !.attempt = @ + 1])

\* Mutant: the segments of this user only are remembered.
PeerResultRepeated(r) ==
  /\ live
  /\ plug' = [plug EXCEPT !.shown = r]
  /\ shows' = Counted(r)
  /\ UNCHANGED <<live, seg>>

\* handleRealtimeEvent: a result of the other person, delivered again or not.
PeerResult(r) ==
  /\ live /\ r \notin plug.seen
  /\ plug' = Seen(r)
  /\ shows' = Counted(r)
  /\ UNCHANGED <<live, seg>>

-----------------------------------------------------------------------------
(* The end of the panel and of the call *)

\* _teardown: the recorders, requests, timers and channels of every segment.
Gone(x) == IF x.at = "free" THEN x
           ELSE [Fresh EXCEPT !.at = "over", !.gen = x.gen, !.sent = x.sent]

Teardown ==
  /\ plug' = [plug EXCEPT !.gen = @ + 1, !.recording = None, !.shown = None]
  /\ seg' = [s \in Segments |-> Gone(seg[s])]
  /\ UNCHANGED shows

ClosePanel ==
  /\ live /\ plug.gen < MaxGen
  /\ Teardown
  /\ UNCHANGED live

CallEnds ==
  /\ live
  /\ live' = FALSE
  /\ Teardown

-----------------------------------------------------------------------------
Outcomes == {"synced", "unsynced", "retry", "refused"}

Settling(s) ==
  \/ \E ok \in BOOLEAN : SessionReplied(s, ok) \/ SdpReplied(s, ok) \/ TranslationReplied(s, ok)
  \/ \E o \in Outcomes : FinalizeReplied(s, o)
Timers(s) == DrainExpired(s) \/ CapExpired(s) \/ RetryDue(s)
Stopping(s) == seg[s].at = "stopping" /\ \E heard \in BOOLEAN : RecorderStopped(s, heard)

Next ==
  \/ \E s \in Segments :
       \/ \E realtime \in BOOLEAN : StartRecording(s, realtime)
       \/ StopRecording(s) \/ CapExpired(s)
       \/ \E heard \in BOOLEAN : RecorderStopped(s, heard)
       \/ RecorderFailed(s)
       \/ \E ok \in BOOLEAN : SessionReplied(s, ok)
       \/ \E ok \in BOOLEAN : SdpReplied(s, ok)
       \/ \E ok \in BOOLEAN : TranslationReplied(s, ok)
       \/ \E o \in Outcomes : FinalizeReplied(s, o)
       \/ ChannelOpened(s) \/ ChannelFailed(s) \/ TranscriptArrived(s) \/ ProviderClosed(s)
       \/ DrainExpired(s) \/ RetryDue(s) \/ TextSubmitted(s)
  \/ \E r \in PeerResults : PeerResult(r)
  \/ ClosePanel \/ CallEnds

\* Requests are answered or fail, timers fire, a recorder asked to stop stops.
Fairness == \A s \in Segments : WF_vars(Settling(s)) /\ WF_vars(Timers(s)) /\ WF_vars(Stopping(s))

Spec == Init /\ [][Next]_vars
FairSpec == Spec /\ Fairness

-----------------------------------------------------------------------------
TypeOK ==
  /\ live \in BOOLEAN
  /\ plug \in [gen : 1 .. MaxGen + 1, recording : Segments \cup {None},
               shown : Results \cup {None}, seen : SUBSET Results]
  /\ seg \in [Segments ->
       [at : {"free", "recording", "stopping", "stopped", "over"}, gen : 0 .. MaxGen + 1,
        rt : {"none", "STARTING", "STREAMING", "CLOSING", "FALLBACK"} \cup Final,
        start : {"none", "session", "sdp", "over"}, chan : {"none", "connecting", "open"},
        text : BOOLEAN, closed : BOOLEAN, drain : BOOLEAN, cap : BOOLEAN, stop : BOOLEAN,
        blob : BOOLEAN, done : BOOLEAN, job : {"none", "text", "audio", "finalize", "wait"},
        attempt : 0 .. 2, sent : SUBSET {"audio", "finalize"}]]
  /\ shows \in [Results -> 0 .. MaxShown]

\* A segment whose finalization was asked is never translated again from its
\* audio, nor the other way round: the other person would hear it twice.
OnePath == \A s \in Segments : ~({"audio", "finalize"} \subseteq seg[s].sent)

\* No result is shown twice: not after retries, a late reply, an event
\* delivered again or a panel closed and opened.
ShownOnce == \A r \in Results : shows[r] <= 1

\* The provider closed by itself before the recording was stopped, with both
\* transcripts: stopping moves the context back to CLOSING and nothing completes it.
LostByEarlyClose(s) == seg[s].closed /\ seg[s].rt = "CLOSING"

\* A recording the user stopped is translated, refused or given up, unless the
\* provider had closed its session first.
StoppedSegmentEnds ==
  \A s \in Segments :
    seg[s].stop ~> (seg[s].at = "over" \/ (seg[s].done /\ seg[s].job = "none")
                    \/ LostByEarlyClose(s))
=============================================================================
