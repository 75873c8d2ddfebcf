----------------------------- MODULE LiveTranslate -----------------------------
(***************************************************************************)
(* The live translator of the assistant page (live_translate.js with the     *)
(* wrappers of live_translate_history.js): text and voice intents, each the  *)
(* owner of a generation, the microphone, the request, and the playback that *)
(* the translation and the history share.  An intent is its generation.      *)
(***************************************************************************)
EXTENDS Naturals

CONSTANTS MaxGens, MaxVoices  \* bounds on the generations and the playbacks
TranslateAssumption == MaxGens \in Nat /\ MaxVoices \in Nat

VARIABLES
  ui,      \* generation, phase, the generation of the result shown, lastIntent
  ctl,     \* the owners of state.recorder, stream, translationAbort, ttsAbort, ttsAudio
  intents, \* what became of each intent
  voices,  \* the playbacks
  ids      \* currentRequestId, reuseRequestIdOnce

vars == <<ui, ctl, intents, voices, ids>>
Gens == 1 .. MaxGens
Voices == 1 .. MaxVoices
TtsPhases == {"TTS_LOADING", "TTS_PLAYING"}
NoIntent == [kind |-> "none", at |-> "none", live |-> FALSE, id |-> 0]
NoVoice == [at |-> "none", gen |-> 0, history |-> FALSE]

Init ==
  /\ ui = [gen |-> 0, phase |-> "IDLE", result |-> 0, last |-> "none"]
  /\ ctl = [recorder |-> 0, stream |-> 0, request |-> 0, abort |-> 0, audio |-> 0]
  /\ intents = [g \in Gens |-> NoIntent]
  /\ voices = [v \in Voices |-> NoVoice]
  /\ ids = [current |-> 0, reuse |-> FALSE]

-----------------------------------------------------------------------------
(* What an intent releases *)

\* cleanupMicrophone: the recorder is stopped, its stop event still to come, and the
\* stream's tracks; a recorder whose tracks end stops by itself.
MicOff(t) ==
  [g \in Gens |->
     IF g = ctl.stream \/ g = ctl.recorder
     THEN [t[g] EXCEPT !.live = FALSE, !.at = IF @ = "recording" THEN "stopping" ELSE @] ELSE t[g]]
Microphone(c) == [c EXCEPT !.recorder = 0, !.stream = 0]

\* abortTranslationRequest: the request that waits rejects as aborted.
RequestOff(t) ==
  [g \in Gens |-> IF g = ctl.request /\ t[g].at \in {"sent", "served"} THEN [t[g] EXCEPT !.at = "over"] ELSE t[g]]

\* stopTts: the fetch is aborted, the audio paused and its handlers taken off; what was
\* awaited, the fetch or the play, settles later.
Halted(at) == CASE at = "asked" -> "aborted" [] at = "starting" -> "cut" [] OTHER -> "over"
Silent ==
  [v \in Voices |-> IF v \in {ctl.abort, ctl.audio} THEN [voices[v] EXCEPT !.at = Halted(@)] ELSE voices[v]]
SpeechOff(c) == [c EXCEPT !.abort = 0, !.audio = 0]
AfterSpeech == IF ui.phase \notin TtsPhases THEN ui.phase ELSE IF ui.result # 0 THEN "RESULT_READY" ELSE "IDLE"

\* beginUserIntent, as the history wraps it: the request id is new unless a retry of a
\* text keeps it.
FreshId == IF ids.reuse /\ ids.current # 0 THEN ids.current ELSE ids.current + 1
Release == /\ voices' = Silent
           /\ ctl' = [SpeechOff(Microphone(ctl)) EXCEPT !.request = 0]
Released == RequestOff(MicOff(intents))
Begin(kind, at) ==
  /\ ui.gen < MaxGens
  /\ intents' = [Released EXCEPT ![ui.gen + 1] = [kind |-> kind, at |-> at, live |-> FALSE, id |-> FreshId]]
  /\ ids' = [current |-> FreshId, reuse |-> FALSE]

-----------------------------------------------------------------------------
(* The intents *)

\* translateText.
TextClicked ==
  /\ Begin("text", "sent")
  /\ ui' = [ui EXCEPT !.gen = @ + 1, !.phase = "PROCESSING", !.last = "text"]
  /\ voices' = Silent
  /\ ctl' = [SpeechOff(Microphone(ctl)) EXCEPT !.request = ui.gen + 1]

\* The languages are the same, or there is no text: nothing is begun, and a retry has
\* already asked for the request id to be kept.
Refused(retry) ==
  /\ ui' = [ui EXCEPT !.phase = "ERROR"]
  /\ ids' = [ids EXCEPT !.reuse = @ \/ (retry /\ ui.last = "text" /\ ids.current # 0)]
  /\ UNCHANGED <<ctl, intents, voices>>

RetryText ==
  /\ ui.phase = "ERROR" /\ ui.last = "text" /\ ui.gen < MaxGens
  /\ LET id == IF ids.current # 0 THEN ids.current ELSE 1 IN
     /\ intents' = [Released EXCEPT ![ui.gen + 1] = [kind |-> "text", at |-> "sent", live |-> FALSE, id |-> id]]
     /\ ids' = [current |-> id, reuse |-> FALSE]
  /\ ui' = [ui EXCEPT !.gen = @ + 1, !.phase = "PROCESSING"]
  /\ voices' = Silent
  /\ ctl' = [SpeechOff(Microphone(ctl)) EXCEPT !.request = ui.gen + 1]

\* toggleVoice: while the page records, it stops - unless the recorder is gone.
VoiceClicked ==
  IF ui.phase = "RECORDING"
  THEN /\ ctl.recorder # 0 /\ intents[ctl.recorder].at = "recording"
       /\ intents' = [intents EXCEPT ![ctl.recorder].at = "stopping"]
       /\ ui' = [ui EXCEPT !.phase = "PROCESSING"]
       /\ UNCHANGED <<ctl, voices, ids>>
  ELSE /\ Begin("voice", "asked") /\ Release
       /\ ui' = [ui EXCEPT !.gen = @ + 1, !.last = "voice"]

\* Mutant of Current: a stream is taken whenever it comes.
Whenever(g) == TRUE
Current(g) == ui.gen = g

\* startRecording, after the permission: a stream nobody waits for is stopped at once.
Permitted(g) ==
  /\ intents[g].at = "asked"
  /\ IF Current(g)
     THEN /\ intents' = [intents EXCEPT ![g].at = "recording", ![g].live = TRUE]
          /\ ctl' = [ctl EXCEPT !.recorder = g, !.stream = g]
          /\ ui' = [ui EXCEPT !.phase = "RECORDING"]
     ELSE /\ intents' = [intents EXCEPT ![g].at = "over"]
          /\ UNCHANGED <<ctl, ui>>
  /\ UNCHANGED <<voices, ids>>

\* Refused, or no recorder for it.
Denied(g) ==
  /\ intents[g].at = "asked"
  /\ LET over == [intents EXCEPT ![g].at = "over"] IN
     IF ui.gen = g
     THEN /\ intents' = MicOff(over)
          /\ ctl' = Microphone(ctl)
          /\ ui' = [ui EXCEPT !.phase = "ERROR"]
     ELSE intents' = over /\ UNCHANGED <<ctl, ui>>
  /\ UNCHANGED <<voices, ids>>

\* completeRecording, at the stop event: whatever microphone the page holds is released,
\* the intent's or not; the audio of the current intent is sent.
Stopped(g, empty) ==
  /\ intents[g].at = "stopping"
  /\ LET off == MicOff(intents) IN
     IF ui.gen # g
     THEN /\ intents' = [off EXCEPT ![g].at = "over"]
          /\ ctl' = Microphone(ctl) /\ UNCHANGED ui
     ELSE IF empty
     THEN /\ intents' = [off EXCEPT ![g].at = "over"]
          /\ ctl' = Microphone(ctl) /\ ui' = [ui EXCEPT !.phase = "ERROR"]
     ELSE /\ intents' = [off EXCEPT ![g].at = "sent"]
          /\ ctl' = [Microphone(ctl) EXCEPT !.request = g]
          /\ ui' = [ui EXCEPT !.phase = "PROCESSING"]
  /\ UNCHANGED <<voices, ids>>

\* failRecording: the intent of a recorder that fails is given up, the stop event comes.
RecorderFails(g) ==
  /\ intents[g].at = "recording"
  /\ intents' = [MicOff(RequestOff(intents)) EXCEPT ![g].at = "stopping"]
  /\ IF ui.gen = g
     THEN /\ ui.gen < MaxGens
          /\ ui' = [ui EXCEPT !.gen = @ + 1, !.phase = "ERROR"]
          /\ ctl' = [Microphone(ctl) EXCEPT !.request = 0]
     ELSE ctl' = Microphone(ctl) /\ UNCHANGED ui
  /\ UNCHANGED <<voices, ids>>

\* requestJson and renderResult.
Served(g) ==
  /\ intents[g].at = "sent"
  /\ intents' = [intents EXCEPT ![g].at = "served"]
  /\ UNCHANGED <<ui, ctl, voices, ids>>

RequestOver(g) == [ctl EXCEPT !.request = IF @ = g THEN 0 ELSE @]

Replied(g) ==
  /\ intents[g].at = "served"
  /\ intents' = [intents EXCEPT ![g].at = "over"]
  /\ ui' = IF ui.gen = g THEN [ui EXCEPT !.phase = "RESULT_READY", !.result = g] ELSE ui
  /\ ctl' = RequestOver(g)
  /\ UNCHANGED <<voices, ids>>

Failed(g) ==
  /\ intents[g].at \in {"sent", "served"}
  /\ intents' = [intents EXCEPT ![g].at = "over"]
  /\ ui' = IF ui.gen = g THEN [ui EXCEPT !.phase = "ERROR"] ELSE ui
  /\ ctl' = RequestOver(g)
  /\ UNCHANGED <<voices, ids>>

\* cancelSupersededIntent: another language or a reset, which clear the result; the
\* panel hidden, the page left, or an item of the history used again, which keep it.
Cancelled(keep) ==
  /\ ui.gen < MaxGens
  /\ intents' = Released /\ Release
  /\ LET result == IF keep THEN ui.result ELSE 0 IN
     ui' = [ui EXCEPT !.gen = @ + 1, !.result = result, !.phase = IF result # 0 THEN "RESULT_READY" ELSE "IDLE"]
  /\ UNCHANGED ids

-----------------------------------------------------------------------------
(* startTts and listenHistory *)

\* What plays or loads is stopped by a click on its button.
StopListening ==
  /\ ctl.abort # 0 \/ ctl.audio # 0 \/ ui.phase \in TtsPhases
  /\ voices' = Silent /\ ctl' = SpeechOff(ctl)
  /\ ui' = [ui EXCEPT !.phase = AfterSpeech]
  /\ UNCHANGED <<intents, ids>>

\* Mutant of Listen: what is heard is not stopped first.
ListenOver(v, history) ==
  /\ voices' = [voices EXCEPT ![v] = [at |-> "asked", gen |-> ui.gen, history |-> history]]
  /\ ctl' = [ctl EXCEPT !.abort = v]
Listen(v, history) ==
  /\ voices' = [Silent EXCEPT ![v] = [at |-> "asked", gen |-> ui.gen, history |-> history]]
  /\ ctl' = [SpeechOff(ctl) EXCEPT !.abort = v]

\* The translation is read when nothing is; an item of the history, instead of it.
ListenClicked(v, history) ==
  /\ voices[v] = NoVoice /\ \A w \in 1 .. (v - 1) : voices[w] # NoVoice
  /\ history \/ (ui.result # 0 /\ ctl.abort = 0 /\ ctl.audio = 0 /\ ui.phase \notin TtsPhases)
  /\ Listen(v, history)
  /\ ui' = [ui EXCEPT !.phase = "TTS_LOADING"]
  /\ UNCHANGED <<intents, ids>>

\* The finally of startTts, which listenHistory has not: a request that came to nothing.
Dropped(v) == [ctl EXCEPT !.abort = IF @ = v /\ ctl.audio = 0 /\ ~voices[v].history THEN 0 ELSE @]
Over(s, v) == [s EXCEPT ![v].at = "over"]

SpeechReplied(v) ==
  /\ voices[v].at = "asked"
  /\ IF ui.gen = voices[v].gen /\ ctl.abort = v
     THEN voices' = [voices EXCEPT ![v].at = "starting"] /\ ctl' = [ctl EXCEPT !.audio = v]
     ELSE voices' = Over(voices, v) /\ ctl' = Dropped(v)
  /\ UNCHANGED <<ui, intents, ids>>

\* audio.play resolves: for an intent or an audio that is no longer the page's, all that
\* is heard is stopped.
SpeechPlays(v) ==
  /\ voices[v].at \in {"starting", "cut"}
  /\ IF ui.gen = voices[v].gen /\ ctl.audio = v
     THEN /\ voices' = [voices EXCEPT ![v].at = "playing"]
          /\ ui' = [ui EXCEPT !.phase = "TTS_PLAYING"] /\ UNCHANGED ctl
     ELSE /\ voices' = Over(Silent, v) /\ ctl' = SpeechOff(ctl)
          /\ ui' = [ui EXCEPT !.phase = AfterSpeech]
  /\ UNCHANGED <<intents, ids>>

\* What was stopped rejects as aborted, which is ignored.
SpeechAborted(v) ==
  /\ voices[v].at \in {"aborted", "cut"}
  /\ voices' = Over(voices, v)
  /\ UNCHANGED <<ui, ctl, intents, ids>>

\* Not fetched or not played, though it may have been stopped since: the translation's
\* failure counts for its own generation, that of the history always, and the history
\* leaves the phase as it is.
SpeechFails(v) ==
  /\ voices[v].at \in {"asked", "aborted", "starting", "cut"}
  /\ IF ui.gen = voices[v].gen \/ voices[v].history
     THEN /\ voices' = Over(Silent, v) /\ ctl' = SpeechOff(ctl)
          /\ ui' = IF voices[v].history THEN ui ELSE [ui EXCEPT !.phase = "ERROR"]
     ELSE voices' = Over(voices, v) /\ ctl' = Dropped(v) /\ UNCHANGED ui
  /\ UNCHANGED <<intents, ids>>

\* onended and onerror: those of the translation look at the generation.
SpeechEnds(v, ok) ==
  /\ ctl.audio = v /\ voices[v].at \in (IF ok THEN {"playing"} ELSE {"starting", "playing"})
  /\ IF ui.gen = voices[v].gen \/ voices[v].history
     THEN /\ voices' = Silent /\ ctl' = SpeechOff(ctl)
          /\ ui' = [ui EXCEPT !.phase = IF ok \/ voices[v].history THEN AfterSpeech ELSE "ERROR"]
     ELSE /\ voices' = [voices EXCEPT ![v].at = IF @ = "playing" THEN "over" ELSE @]
          /\ UNCHANGED <<ctl, ui>>
  /\ UNCHANGED <<intents, ids>>

Next ==
  \/ TextClicked \/ RetryText \/ VoiceClicked \/ StopListening
  \/ \E b \in BOOLEAN : Refused(b) \/ Cancelled(b)
  \/ \E g \in Gens : \/ Permitted(g) \/ Denied(g) \/ RecorderFails(g) \/ Served(g) \/ Replied(g) \/ Failed(g)
                     \/ \E empty \in BOOLEAN : Stopped(g, empty)
  \/ \E v \in Voices : \/ SpeechReplied(v) \/ SpeechPlays(v) \/ SpeechAborted(v) \/ SpeechFails(v)
                       \/ \E b \in BOOLEAN : ListenClicked(v, b) \/ SpeechEnds(v, b)

Spec == Init /\ [][Next]_vars

-----------------------------------------------------------------------------
TypeOK ==
  /\ ui \in [gen : 0 .. MaxGens, phase : {"IDLE", "RECORDING", "PROCESSING", "RESULT_READY", "ERROR"} \cup TtsPhases,
             result : 0 .. MaxGens, last : {"none", "text", "voice"}]
  /\ ctl \in [recorder : 0 .. MaxGens, stream : 0 .. MaxGens, request : 0 .. MaxGens, abort : 0 .. MaxVoices, audio : 0 .. MaxVoices]
  /\ intents \in [Gens -> [kind : {"none", "text", "voice"}, live : BOOLEAN, id : 0 .. MaxGens,
                           at : {"none", "asked", "recording", "stopping", "sent", "served", "over"}]]
  /\ voices \in [Voices -> [at : {"none", "asked", "aborted", "starting", "cut", "playing", "over"}, gen : 0 .. MaxGens, history : BOOLEAN]]
  /\ ids \in [current : 0 .. MaxGens, reuse : BOOLEAN]

\* No microphone is left on: a live stream is that of the current intent, and the page
\* holds it, though late stop and error events release whatever the page holds.
MicrophoneOfIntent == \A g \in Gens : intents[g].live => g = ui.gen /\ ctl.stream = g

\* What the page says it works on is being worked on by the current intent: a
\* recording, one that stops, a request - or the permission of a microphone, which is
\* awaited under the phase of what it replaced.
WaitHasCause ==
  LET at == IF ui.gen = 0 THEN "none" ELSE intents[ui.gen].at IN
  /\ ui.phase = "PROCESSING" => at \in {"asked", "stopping", "sent", "served"}
  /\ ui.phase = "RECORDING" => at \in {"recording", "stopping"}

\* One voice is heard, and the page can stop it.
OneVoice == \A v \in Voices : voices[v].at \in {"starting", "playing"} => ctl.audio = v
=============================================================================
