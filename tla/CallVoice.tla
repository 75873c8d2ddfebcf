----------------------------- MODULE CallVoice -----------------------------
(***************************************************************************)
(* The spoken translation of a call (call-v1/translation_plugin.js): the   *)
(* mixer that replaces the microphone on the call's audio sender           *)
(* (_installMixer, _releaseMixer), the Auto Read control, muting, and the  *)
(* speech sent to the other person (sendToOpponent).                       *)
(*                                                                         *)
(* One call, from its connection to its end.  Everything the page awaits   *)
(* (the resumption of an audio context, replaceTrack, a request, a         *)
(* decoding) is a step of its own; what runs from one await to the next is *)
(* one action, the continuations of a settled promise included.            *)
(***************************************************************************)
EXTENDS Naturals, Sequences, FiniteSets

\* Bounds: mixers, speeches under way, generations of the plugin, and
\* replaceTrack operations under way when a handler adds one.
CONSTANTS MaxMixers, MaxSends, MaxGen, MaxOps

BoundsAssumption == {MaxMixers, MaxSends, MaxGen, MaxOps} \subseteq Nat \ {0}

VARIABLES
  live,      \* external: the call is connected
  muted,     \* the microphone's track is disabled
  plug,      \* the plugin
  mixers,    \* the mixers made, by number
  sends,     \* the runs of sendToOpponent, by number
  sender,    \* track on the call's audio sender: 0 the microphone, or a mixer's
  chain      \* replaceTrack operations under way, settled in order

vars == <<live, muted, plug, mixers, sends, sender, chain>>

Mixers == 1 .. MaxMixers
Gens == 0 .. MaxGen + MaxOps + 1   \* each closing under way when the bound is met adds one
Sends == 1 .. MaxSends

\* pluginGeneration, the Auto Read control, _autoReadReady (a generation, 0 for
\* null), mutedAutoReadSnapshot, _mixer and _mixerPromise (0 for null); the
\* mixers awaited by runs of _handleAutoReadChange with their generation, by
\* runs of _sendAutoRead (through the preparation) and of _releaseMixer.
Idle == [gen |-> 1, checked |-> FALSE, disabled |-> FALSE, ready |-> 0, snap |-> "null",
         mixer |-> 0, promise |-> 0, preparing |-> {}, waiting |-> {}, releasing |-> {}]

NoMixer == [at |-> "free", gen |-> 0, ready |-> FALSE, disposed |-> FALSE]
NoSend == [at |-> "free", auto |-> FALSE, mixer |-> 0, gen |-> 0]

Init ==
  /\ live = TRUE
  /\ muted = FALSE
  /\ plug = Idle
  /\ mixers = [m \in Mixers |-> NoMixer]
  /\ sends = [s \in Sends |-> NoSend]
  /\ sender = 0
  /\ chain = <<>>

\* What a handler changes, as one value.
World == [muted |-> muted, plug |-> plug, mixers |-> mixers, sends |-> sends,
          sender |-> sender, chain |-> chain]

Become(w) ==
  /\ muted' = w.muted
  /\ plug' = w.plug
  /\ mixers' = w.mixers
  /\ sends' = w.sends
  /\ sender' = w.sender
  /\ chain' = w.chain

Active(w, gen) == live /\ gen = w.plug.gen

-----------------------------------------------------------------------------
(* Speech *)

Stop(w, Which(_)) ==
  [w EXCEPT !.sends = [s \in Sends |-> IF Which(w.sends[s]) THEN NoSend ELSE w.sends[s]]]

\* _stopOutboundTts.
StopOutboundTts(w) == Stop(w, LAMBDA s : s.at = "playing")

\* Also the requests of _owned.ttsAbortControllers: a request whose response
\* has begun has left that set.
SilenceAll(w) == Stop(w, LAMBDA s : s.at \in {"speech", "playing"})

\* _abortAutoReadWork.
AbortAutoReadWork(w) == Stop(w, LAMBDA s : s.auto /\ s.at \in {"speech", "playing"})

FreeSends(w) == {s \in Sends : w.sends[s].at = "free"}
Least(S) == CHOOSE x \in S : \A y \in S : x <= y

\* sendToOpponent from _sendAutoRead: the prepared mixer, whose context resumes.
AutoSpeak(w) ==
  LET quiet == AbortAutoReadWork(w) IN
  IF ~w.plug.checked \/ w.plug.ready = 0 \/ ~Active(w, w.plug.ready) THEN w
  ELSE IF w.muted \/ w.plug.mixer = 0 \/ FreeSends(quiet) = {} THEN quiet
  ELSE IF ~w.mixers[w.plug.mixer].ready THEN quiet
  ELSE [quiet EXCEPT !.sends[Least(FreeSends(quiet))] =
          [at |-> "resume", auto |-> TRUE, mixer |-> w.plug.mixer, gen |-> 0]]

-----------------------------------------------------------------------------
(* The mixer *)

Unused(w) == {m \in Mixers : w.mixers[m].at = "free"}
Usable(w) == w.plug.mixer # 0 /\ w.mixers[w.plug.mixer].ready
             /\ w.mixers[w.plug.mixer].gen = w.plug.gen
MayInstall(w) == Usable(w) \/ w.plug.promise # 0 \/ Unused(w) # {}

\* _installMixer up to its first await.
Install(w) ==
  IF Usable(w) \/ w.plug.promise # 0 THEN w
  ELSE LET m == Least(Unused(w)) IN
       [w EXCEPT !.mixers[m] = [NoMixer EXCEPT !.at = "resume", !.gen = w.plug.gen],
                 !.plug.mixer = m, !.plug.promise = m]

\* _disposeMixer.
Dispose(w, m) ==
  IF m = 0 THEN w
  ELSE [w EXCEPT !.mixers[m].disposed = TRUE, !.mixers[m].ready = FALSE,
                 !.plug.mixer = IF @ = m THEN 0 ELSE @]

ReplaceTrack(w, track, m, after) ==
  [w EXCEPT !.chain = Append(@, [track |-> track, mixer |-> m, after |-> after])]

\* _releaseMixer of m up to replaceTrack: a disposed mixer is not restored again.
Restore(w, m) == IF w.mixers[m].disposed THEN w ELSE ReplaceTrack(w, 0, m, "dispose")

Release(w) ==
  IF w.plug.mixer # 0 THEN Restore(w, w.plug.mixer)
  ELSE IF w.plug.promise # 0 THEN [w EXCEPT !.plug.releasing = @ \cup {w.plug.promise}]
  ELSE w

\* Mutant: a failed preparation leaves the control disabled.
PreparedHeld(w, gen, ok) ==
  LET fine == ok /\ w.plug.checked /\ Active(w, gen) IN
  [w EXCEPT !.plug.ready = IF fine THEN gen ELSE 0, !.plug.checked = fine,
            !.plug.disabled = @ /\ ~fine]

\* What _handleAutoReadChange does once its mixer is there, or not.
Prepared(w, gen, ok) ==
  LET fine == ok /\ w.plug.checked /\ Active(w, gen) IN
  [w EXCEPT !.plug.ready = IF fine THEN gen ELSE 0,
            !.plug.checked = fine,
            !.plug.disabled = @ /\ ~(Active(w, gen) /\ ~w.muted)]

\* _handleAutoReadChange on a checked control.
BeginAutoRead(w) ==
  LET started == Install([w EXCEPT !.plug.disabled = TRUE]) IN
  IF Usable(started) THEN Prepared(started, w.plug.gen, TRUE)
  ELSE [started EXCEPT !.plug.preparing = @ \cup {<<started.plug.promise, w.plug.gen>>}]

\* The installation of m settles, and those that await it go on.
Settle(w, m, ok) ==
  LET gens == {p[2] : p \in {q \in w.plug.preparing : q[1] = m}}
      base == [w EXCEPT
        !.plug.promise = IF @ = m THEN 0 ELSE @,
        !.plug.preparing = {p \in @ : p[1] # m},
        !.plug.waiting = @ \ {m},
        !.plug.releasing = @ \ {m},
        !.sends = [s \in Sends |->
          CASE w.sends[s].at # "mixer" \/ w.sends[s].mixer # m -> w.sends[s]
            [] ok -> [w.sends[s] EXCEPT !.at = "speech", !.gen = w.plug.gen]
            [] OTHER -> NoSend]]
      prepared == IF gens = {} THEN base ELSE Prepared(base, Least(gens), ok)
      spoken == IF m \in w.plug.waiting THEN AutoSpeak(prepared) ELSE prepared
  IN IF m \in w.plug.releasing /\ ok THEN Restore(spoken, m) ELSE spoken

Failed(w, m) ==
  Settle([Dispose(w, m) EXCEPT !.mixers[m].at = "failed"], m, FALSE)

\* The audio context of an installation resumes, or does not.
ContextResumed(m) ==
  /\ mixers[m].at = "resume"
  /\ Become(IF Active(World, mixers[m].gen)
            THEN ReplaceTrack([World EXCEPT !.mixers[m].at = "replace"], m, m, "ready")
            ELSE Failed(World, m))
  /\ UNCHANGED live

ContextRefused(m) ==
  /\ mixers[m].at = "resume"
  /\ Become(Failed(World, m))
  /\ UNCHANGED live

-----------------------------------------------------------------------------
(* The end of the panel and of the call *)

\* _teardown.
Teardown(w) ==
  LET quiet == Dispose(SilenceAll(w), w.plug.mixer) IN
  [quiet EXCEPT !.plug = [quiet.plug EXCEPT !.gen = @ + 1, !.checked = FALSE, !.disabled = FALSE,
                                            !.ready = 0, !.snap = "null", !.mixer = 0, !.promise = 0]]

\* closePanel up to its await.
ClosePanel ==
  /\ live /\ plug.gen < MaxGen /\ Len(chain) < MaxOps
  /\ Become(IF plug.mixer = 0 THEN Teardown(World)
            ELSE ReplaceTrack(World, 0, plug.mixer, "close"))
  /\ UNCHANGED live

\* beforeCallTerminate, then the connection's close: its operations never settle.
CallEnds ==
  /\ live
  /\ live' = FALSE
  /\ Become([Teardown(World) EXCEPT !.chain = <<>>])

\* The first replaceTrack under way settles.
TrackReplaced ==
  LET op == Head(chain)
      w == [World EXCEPT !.sender = op.track, !.chain = Tail(@)]
  IN
  /\ chain # <<>>
  /\ Become(CASE op.after = "ready" ->
                   Settle([w EXCEPT !.mixers[op.mixer].at = "done",
                                    !.mixers[op.mixer].ready = TRUE], op.mixer, TRUE)
              [] op.after = "dispose" -> Dispose(w, op.mixer)
              [] OTHER -> Teardown(w))
  /\ UNCHANGED live

TrackRefused ==
  LET op == Head(chain)
      w == [World EXCEPT !.chain = Tail(@)]
  IN
  /\ chain # <<>>
  /\ Become(IF op.after = "ready" THEN Failed(w, op.mixer) ELSE w)
  /\ UNCHANGED live

-----------------------------------------------------------------------------
(* Controls *)

\* syncMuteState on an enabled microphone.
SyncUnmuted(w) ==
  LET back == [w EXCEPT !.plug.checked = IF w.plug.snap = "null" THEN @ ELSE w.plug.snap = "on",
                        !.plug.snap = "null", !.plug.disabled = FALSE]
  IN IF w.plug.snap = "on" /\ live THEN BeginAutoRead(back) ELSE back

\* syncMuteState on a disabled microphone.
SyncMuted(w) ==
  Release(SilenceAll([w EXCEPT
    !.plug.snap = IF @ = "null" THEN (IF w.plug.checked THEN "on" ELSE "off") ELSE @,
    !.plug.checked = FALSE, !.plug.disabled = TRUE, !.plug.ready = 0]))

Mute ==
  /\ live /\ ~muted /\ Len(chain) < MaxOps
  /\ Become(SyncMuted([World EXCEPT !.muted = TRUE]))
  /\ UNCHANGED live

Unmute ==
  /\ live /\ muted /\ MayInstall(World)
  /\ Become(SyncUnmuted([World EXCEPT !.muted = FALSE]))
  /\ UNCHANGED live

Check ==
  /\ live /\ ~muted /\ ~plug.disabled /\ ~plug.checked /\ MayInstall(World)
  /\ Become(BeginAutoRead([World EXCEPT !.plug.checked = TRUE]))
  /\ UNCHANGED live

Uncheck ==
  /\ live /\ ~plug.disabled /\ plug.checked /\ Len(chain) < MaxOps
  /\ Become(Release(StopOutboundTts(AbortAutoReadWork(
       [World EXCEPT !.plug.checked = FALSE, !.plug.ready = 0]))))
  /\ UNCHANGED live

-----------------------------------------------------------------------------
(* Translations spoken *)

\* A translation of this user is shown: _showResult, then _sendAutoRead up to
\* its await.
Translated ==
  LET w == IF muted THEN SyncMuted(World) ELSE SyncUnmuted(World)
      awaited == {p[1] : p \in w.plug.preparing}
  IN
  /\ live /\ FreeSends(World) # {} /\ Len(chain) < MaxOps
  /\ Become(IF ~w.plug.checked THEN w
            ELSE IF awaited # {} THEN [w EXCEPT !.plug.waiting = @ \cup awaited]
            ELSE AutoSpeak(w))
  /\ UNCHANGED live

\* The send button.
SendClicked ==
  LET w == Install(World)
      s == Least(FreeSends(World))
  IN
  /\ live /\ ~muted /\ FreeSends(World) # {} /\ MayInstall(World)
  /\ Become([w EXCEPT !.sends[s] =
       IF Usable(w) THEN [at |-> "speech", auto |-> FALSE, mixer |-> w.plug.mixer, gen |-> w.plug.gen]
       ELSE [at |-> "mixer", auto |-> FALSE, mixer |-> w.plug.promise, gen |-> 0]])
  /\ UNCHANGED live

Sent(s, next) ==
  /\ sends' = [sends EXCEPT ![s] = next]
  /\ UNCHANGED <<live, muted, plug, mixers, sender, chain>>

\* The prepared context is there: _speech asks under the generation of now.
SpeechAsked(s) ==
  /\ sends[s].at = "resume"
  /\ Sent(s, [sends[s] EXCEPT !.at = "speech", !.gen = plug.gen])

SpeechArrives(s) ==
  /\ sends[s].at = "speech"
  /\ Sent(s, IF Active(World, sends[s].gen) THEN [sends[s] EXCEPT !.at = "decode"] ELSE NoSend)

\* Mutant: the microphone is looked at before the decoding only.
SpeechPlaysMuted(s) ==
  /\ sends[s].at = "decode"
  /\ Sent(s, IF Active(World, sends[s].gen) THEN [sends[s] EXCEPT !.at = "playing"] ELSE NoSend)

SpeechPlays(s) ==
  /\ sends[s].at = "decode"
  /\ Sent(s, IF Active(World, sends[s].gen) /\ ~muted
             THEN [sends[s] EXCEPT !.at = "playing"] ELSE NoSend)

\* A speech ends, or a request or a decoding fails.
SpeechOver(s) ==
  /\ sends[s].at \in {"resume", "speech", "decode", "playing"}
  /\ Sent(s, NoSend)

-----------------------------------------------------------------------------
Next ==
  \/ \E m \in Mixers : ContextResumed(m) \/ ContextRefused(m)
  \/ TrackReplaced \/ TrackRefused
  \/ ClosePanel \/ CallEnds
  \/ Mute \/ Unmute \/ Check \/ Uncheck
  \/ Translated \/ SendClicked
  \/ \E s \in Sends : SpeechAsked(s) \/ SpeechArrives(s) \/ SpeechPlays(s) \/ SpeechOver(s)

\* Promises settle: contexts resume or refuse, replaceTrack operations settle.
Fairness ==
  /\ \A m \in Mixers : WF_vars(ContextResumed(m) \/ ContextRefused(m))
  /\ WF_vars(TrackReplaced \/ TrackRefused)

Spec == Init /\ [][Next]_vars
FairSpec == Spec /\ Fairness

-----------------------------------------------------------------------------
TypeOK ==
  /\ live \in BOOLEAN /\ muted \in BOOLEAN
  /\ plug \in [gen : Gens, checked : BOOLEAN, disabled : BOOLEAN,
               ready : Gens, snap : {"null", "on", "off"},
               mixer : 0 .. MaxMixers, promise : 0 .. MaxMixers,
               preparing : SUBSET (Mixers \X Gens),
               waiting : SUBSET Mixers, releasing : SUBSET Mixers]
  /\ mixers \in [Mixers -> [at : {"free", "resume", "replace", "done", "failed"},
                            gen : Gens, ready : BOOLEAN, disposed : BOOLEAN]]
  /\ sends \in [Sends -> [at : {"free", "mixer", "resume", "speech", "decode", "playing"},
                          auto : BOOLEAN, mixer : 0 .. MaxMixers, gen : Gens]]
  /\ sender \in 0 .. MaxMixers
  /\ chain \in Seq([track : 0 .. MaxMixers, mixer : Mixers, after : {"ready", "dispose", "close"}])

\* Nothing is spoken into the call while the microphone is muted or after its
\* end, whatever request or decoding was under way.
MutedSpeaksNothing == (muted \/ ~live) => \A s \in Sends : sends[s].at # "playing"

\* The Auto Read control, disabled while its mixer is prepared, is given back
\* to an unmuted call, whatever closes, mutes or fails meanwhile.
ControlFreed == (live /\ ~muted) ~> (~live \/ muted \/ ~plug.disabled)
=============================================================================
