---------------------------- MODULE MCCallsProofs ----------------------------
(***************************************************************************)
(* The theorems of the union of call parts that MCCalls's runs check.      *)
(* Only the part chosen at the start takes steps, so the invariant of the  *)
(* union is one implication a part, which the other parts' steps keep      *)
(* vacuously: XPart says that the part's own invariant holds while it      *)
(* runs.  The call client's is CallClientProofs'; those of the voice, of   *)
(* the event stream, of the tabs and of the segments are proved here,      *)
(* inductive for any number of mixers and speeches, a log of any length    *)
(* and any number of tabs and of segments.  The last theorem, that every     *)
(* part keeps its types, also bounds the generations of the plugin by the  *)
(* closings of its panel that are still under way.                         *)
(***************************************************************************)
EXTENDS MCCalls, WellFoundedInduction, FiniteSetTheorems, TLAPS

(* The call client *)

CallPart == which = "call" => Call!IInv

LEMMA CallStart == Init => CallPart
  BY CallsConstants, Call!InitEstablishes DEF Init, CallPart

LEMMA CallStep == CallPart /\ [Next]_vars => CallPart'
<1> SUFFICES ASSUME CallPart, [Next]_vars PROVE CallPart'
  OBVIOUS
<1>1. CASE which = "call"
  <2>1. [Call!Next]_Call!vars  BY <1>1 DEF Next, vars, Step, Call!vars
  <2>2. which' = "call"        BY <1>1 DEF Next, vars, Step
  <2> QED  BY <1>1, <2>1, <2>2, CallsConstants, Call!StepKeeps DEF CallPart
<1>2. CASE which # "call"  BY <1>2 DEF Next, vars, Step, CallPart
<1> QED  BY <1>1, <1>2

-----------------------------------------------------------------------------
(* The voice of the call.  v1 says that the call is connected, v2 that the microphone is  *)
(* muted; v3 is the plugin, v4 its mixers, v5 the speeches, v6 the sender, v7 its chain.   *)
(* Handlers are functions of this world: all but two neither start a speech nor touch the  *)
(* microphone, those of muting and of the call's end silence every speech.                 *)

\* A world whose parts are there, whatever they hold, with a place for each speech.
IsWorld(w) ==
  /\ DOMAIN w.sends = Voice!Sends
  /\ w = [muted |-> w.muted, plug |-> w.plug, mixers |-> w.mixers, sends |-> w.sends,
          sender |-> w.sender, chain |-> w.chain]

Speaks(w, s) == w.sends[s].at = "playing"

\* v comes of w by a handler that starts no speech and leaves the microphone.
Quiet(w, v) ==
  IsWorld(v) /\ v.muted = w.muted /\ \A s \in Voice!Sends : Speaks(v, s) => Speaks(w, s)

LEMMA QuietTwice ==
    ASSUME NEW u, NEW v, NEW w, Quiet(u, v), Quiet(v, w) PROVE Quiet(u, w)
  BY DEF Quiet

\* Speeches replaced by idle ones.
LEMMA SendsQuiet ==
    ASSUME NEW w, IsWorld(w), NEW new, DOMAIN new = Voice!Sends,
           \A s \in Voice!Sends : new[s].at = "playing" => Speaks(w, s)
    PROVE  Quiet(w, [w EXCEPT !.sends = new])
  <1> DEFINE v == [w EXCEPT !.sends = new]
  <1>1. IsWorld(v) /\ v.muted = w.muted /\ v.sends = new
    BY DEF IsWorld
  <1> HIDE DEF v
  <1>2. Quiet(w, v)
    BY <1>1 DEF Quiet, Speaks
  <1> QED BY <1>2 DEF v

LEMMA SameQuiet == ASSUME NEW w, IsWorld(w) PROVE Quiet(w, w)
  BY DEF Quiet

\* Other parts replaced.
LEMMA PlugQuiet == ASSUME NEW w, IsWorld(w), NEW x PROVE Quiet(w, [w EXCEPT !.plug = x])
  BY DEF Quiet, Speaks, IsWorld

LEMMA MixersQuiet == ASSUME NEW w, IsWorld(w), NEW x PROVE Quiet(w, [w EXCEPT !.mixers = x])
  BY DEF Quiet, Speaks, IsWorld

LEMMA ChainQuiet == ASSUME NEW w, IsWorld(w), NEW x PROVE Quiet(w, [w EXCEPT !.chain = x])
  BY DEF Quiet, Speaks, IsWorld

LEMMA SenderQuiet == ASSUME NEW w, IsWorld(w), NEW x PROVE Quiet(w, [w EXCEPT !.sender = x])
  BY DEF Quiet, Speaks, IsWorld

LEMMA MutedIsWorld ==
    ASSUME NEW w, IsWorld(w), NEW x
    PROVE  IsWorld([w EXCEPT !.muted = x]) /\ [w EXCEPT !.muted = x].sends = w.sends
  BY DEF IsWorld

LEMMA StopOutboundTtsQuiet ==
    ASSUME NEW w, IsWorld(w) PROVE Quiet(w, Voice!StopOutboundTts(w))
  <1> DEFINE new == [s \in Voice!Sends |-> IF w.sends[s].at = "playing" THEN Voice!NoSend ELSE w.sends[s]]
  <1>1. Voice!StopOutboundTts(w) = [w EXCEPT !.sends = new]
    BY DEF Voice!StopOutboundTts, Voice!Stop
  <1>2. \A s \in Voice!Sends : new[s].at = "playing" => Speaks(w, s)
    BY DEF Speaks, Voice!NoSend
  <1>3. DOMAIN new = Voice!Sends
    OBVIOUS
  <1> HIDE DEF new
  <1> QED BY <1>1, <1>2, <1>3, SendsQuiet

LEMMA AbortAutoReadWorkQuiet ==
    ASSUME NEW w, IsWorld(w) PROVE Quiet(w, Voice!AbortAutoReadWork(w))
  <1> DEFINE new == [s \in Voice!Sends |-> IF w.sends[s].auto /\ w.sends[s].at \in {"speech", "playing"}
                                     THEN Voice!NoSend ELSE w.sends[s]]
  <1>1. Voice!AbortAutoReadWork(w) = [w EXCEPT !.sends = new]
    BY DEF Voice!AbortAutoReadWork, Voice!Stop
  <1>2. \A s \in Voice!Sends : new[s].at = "playing" => Speaks(w, s)
    BY DEF Speaks, Voice!NoSend
  <1>3. DOMAIN new = Voice!Sends
    OBVIOUS
  <1> HIDE DEF new
  <1> QED BY <1>1, <1>2, <1>3, SendsQuiet

LEMMA SilenceAllQuiet ==
    ASSUME NEW w, IsWorld(w)
    PROVE  Quiet(w, Voice!SilenceAll(w)) /\ \A s \in Voice!Sends : ~Speaks(Voice!SilenceAll(w), s)
  <1> DEFINE new == [s \in Voice!Sends |-> IF w.sends[s].at \in {"speech", "playing"}
                                     THEN Voice!NoSend ELSE w.sends[s]]
  <1>1. Voice!SilenceAll(w) = [w EXCEPT !.sends = new]
    BY DEF Voice!SilenceAll, Voice!Stop
  <1>2. \A s \in Voice!Sends : new[s].at # "playing"
    BY DEF Voice!NoSend
  <1>3. Voice!SilenceAll(w).sends = new
    BY <1>1 DEF IsWorld
  <1>4. DOMAIN new = Voice!Sends
    OBVIOUS
  <1> HIDE DEF new
  <1>5. Quiet(w, [w EXCEPT !.sends = new])
    BY <1>2, <1>4, SendsQuiet
  <1> QED BY <1>1, <1>2, <1>3, <1>5 DEF Speaks

LEMMA InstallQuiet == ASSUME NEW w, IsWorld(w) PROVE Quiet(w, Voice!Install(w))
  <1>1. CASE Voice!Usable(w) \/ w.plug.promise # 0
    BY <1>1, SameQuiet DEF Voice!Install
  <1>2. CASE ~(Voice!Usable(w) \/ w.plug.promise # 0)
    <2> DEFINE m == Voice!Least(Voice!Unused(w))
    <2>1. Voice!Install(w) = [w EXCEPT !.mixers[m] = [Voice!NoMixer EXCEPT !.at = "resume", !.gen = w.plug.gen],
                                 !.plug.mixer = m, !.plug.promise = m]
      BY <1>2 DEF Voice!Install
    <2> HIDE DEF m
    <2> QED BY <2>1 DEF Quiet, IsWorld, Speaks
  <1> QED BY <1>1, <1>2

LEMMA DisposeQuiet == ASSUME NEW w, IsWorld(w), NEW m PROVE Quiet(w, Voice!Dispose(w, m))
  BY DEF Voice!Dispose, Quiet, IsWorld, Speaks

LEMMA ReplaceTrackQuiet ==
    ASSUME NEW w, IsWorld(w), NEW track, NEW m, NEW after
    PROVE  Quiet(w, Voice!ReplaceTrack(w, track, m, after))
  <1> DEFINE c == Append(w.chain, [track |-> track, mixer |-> m, after |-> after])
  <1>1. Voice!ReplaceTrack(w, track, m, after) = [w EXCEPT !.chain = c]
    BY DEF Voice!ReplaceTrack
  <1> HIDE DEF c
  <1>2. Quiet(w, [w EXCEPT !.chain = c])
    BY ChainQuiet
  <1> QED BY <1>1, <1>2

LEMMA RestoreQuiet == ASSUME NEW w, IsWorld(w), NEW m PROVE Quiet(w, Voice!Restore(w, m))
  BY ReplaceTrackQuiet, SameQuiet DEF Voice!Restore

LEMMA ReleaseQuiet == ASSUME NEW w, IsWorld(w) PROVE Quiet(w, Voice!Release(w))
  <1>1. Quiet(w, [w EXCEPT !.plug.releasing = @ \cup {w.plug.promise}])
    BY PlugQuiet
  <1> QED BY <1>1, RestoreQuiet, SameQuiet DEF Voice!Release

LEMMA PreparedQuiet ==
    ASSUME NEW w, IsWorld(w), NEW gen, NEW ok PROVE Quiet(w, Voice!Prepared(w, gen, ok))
  <1> DEFINE fine == ok /\ w.plug.checked /\ Voice!Active(w, gen)
             p == [w.plug EXCEPT !.ready = IF fine THEN gen ELSE 0,
                                 !.checked = fine,
                                 !.disabled = @ /\ ~(Voice!Active(w, gen) /\ ~w.muted)]
  <1>1. Voice!Prepared(w, gen, ok) = [w EXCEPT !.plug = p]
    BY DEF Voice!Prepared, IsWorld
  <1> HIDE DEF p
  <1>2. Quiet(w, [w EXCEPT !.plug = p])
    BY PlugQuiet
  <1> QED BY <1>1, <1>2

LEMMA BeginAutoReadQuiet == ASSUME NEW w, IsWorld(w) PROVE Quiet(w, Voice!BeginAutoRead(w))
  <1> DEFINE d == [w EXCEPT !.plug.disabled = TRUE]
             started == Voice!Install(d)
  <1>1. Quiet(w, d) /\ IsWorld(d)
    BY PlugQuiet DEF Quiet
  <1>2. Quiet(w, started) /\ IsWorld(started)
    BY <1>1, InstallQuiet, QuietTwice DEF Quiet
  <1>3. Voice!BeginAutoRead(w) = IF Voice!Usable(started) THEN Voice!Prepared(started, w.plug.gen, TRUE)
          ELSE [started EXCEPT !.plug.preparing = @ \cup {<<started.plug.promise, w.plug.gen>>}]
    BY DEF Voice!BeginAutoRead
  <1> HIDE DEF started
  <1>4. /\ Quiet(started, Voice!Prepared(started, w.plug.gen, TRUE))
        /\ Quiet(started, [started EXCEPT !.plug.preparing = @ \cup {<<started.plug.promise, w.plug.gen>>}])
    BY <1>2, PreparedQuiet, PlugQuiet
  <1> QED BY <1>2, <1>3, <1>4, QuietTwice

LEMMA AutoSpeakQuiet == ASSUME NEW w, IsWorld(w) PROVE Quiet(w, Voice!AutoSpeak(w))
  <1> DEFINE quiet == Voice!AbortAutoReadWork(w)
             s == Voice!Least(Voice!FreeSends(quiet))
             r == [at |-> "resume", auto |-> TRUE, mixer |-> w.plug.mixer, gen |-> 0]
             new == [quiet.sends EXCEPT ![s] = r]
             spoken == [quiet EXCEPT !.sends = new]
  <1>1. Quiet(w, w) /\ Quiet(w, quiet) /\ IsWorld(quiet)
    BY SameQuiet, AbortAutoReadWorkQuiet DEF Quiet
  <1>2. Voice!AutoSpeak(w) \in {w, quiet, spoken}
    BY DEF Voice!AutoSpeak
  <1> HIDE DEF quiet, s
  <1>3. DOMAIN new = Voice!Sends /\ \A t \in Voice!Sends : new[t].at = "playing" => Speaks(quiet, t)
    BY <1>1 DEF IsWorld, Speaks
  <1> HIDE DEF new
  <1>4. Quiet(quiet, spoken)
    BY <1>1, <1>3, SendsQuiet
  <1> QED BY <1>1, <1>2, <1>4, QuietTwice

LEMMA SettleQuiet ==
    ASSUME NEW w, IsWorld(w), NEW m, NEW ok \in BOOLEAN PROVE Quiet(w, Voice!Settle(w, m, ok))
  <1> DEFINE gens == {p[2] : p \in {q \in w.plug.preparing : q[1] = m}}
             new == [s \in Voice!Sends |->
                      CASE w.sends[s].at # "mixer" \/ w.sends[s].mixer # m -> w.sends[s]
                        [] ok -> [w.sends[s] EXCEPT !.at = "speech", !.gen = w.plug.gen]
                        [] OTHER -> Voice!NoSend]
             plg == [w.plug EXCEPT !.promise = IF @ = m THEN 0 ELSE @,
                                   !.preparing = {p \in @ : p[1] # m},
                                   !.waiting = @ \ {m},
                                   !.releasing = @ \ {m}]
             base == [[w EXCEPT !.plug = plg] EXCEPT !.sends = new]
             prepared == IF gens = {} THEN base ELSE Voice!Prepared(base, Voice!Least(gens), ok)
             spoken == IF m \in w.plug.waiting THEN Voice!AutoSpeak(prepared) ELSE prepared
  <1>1. Voice!Settle(w, m, ok) = IF m \in w.plug.releasing /\ ok THEN Voice!Restore(spoken, m) ELSE spoken
    BY ZenonT(40) DEF Voice!Settle, IsWorld
  <1>2. Quiet(w, base)
    <2>1. DOMAIN new = Voice!Sends
      OBVIOUS
    <2>2. ASSUME NEW s \in Voice!Sends, new[s].at = "playing" PROVE Speaks(w, s)
      <3>1. CASE w.sends[s].at # "mixer" \/ w.sends[s].mixer # m
        BY <2>2, <3>1 DEF Speaks
      <3>2. CASE ~(w.sends[s].at # "mixer" \/ w.sends[s].mixer # m)
        <4>1. new[s] = IF ok THEN [w.sends[s] EXCEPT !.at = "speech", !.gen = w.plug.gen] ELSE Voice!NoSend
          BY <3>2
        <4> HIDE DEF new
        <4> QED BY <2>2, <3>2, <4>1 DEF Voice!NoSend
      <3> QED BY <3>1, <3>2
    <2> DEFINE v == [w EXCEPT !.plug = plg]
    <2> HIDE DEF new, plg
    <2>3. Quiet(w, v) /\ IsWorld(v) /\ v.sends = w.sends
      <3>1. Quiet(w, v)
        BY PlugQuiet
      <3>2. v.sends = w.sends
        BY DEF IsWorld
      <3> QED BY <3>1, <3>2 DEF Quiet
    <2> HIDE DEF v
    <2>4. Quiet(v, [v EXCEPT !.sends = new])
      BY <2>1, <2>2, <2>3, SendsQuiet DEF Speaks
    <2> QED BY <2>3, <2>4, QuietTwice DEF v
  <1> HIDE DEF base, gens
  <1>3. Quiet(w, prepared)
    BY <1>2, PreparedQuiet, QuietTwice DEF Quiet
  <1> HIDE DEF prepared
  <1>4. Quiet(w, spoken)
    BY <1>3, AutoSpeakQuiet, QuietTwice DEF Quiet
  <1> HIDE DEF spoken
  <1> QED BY <1>1, <1>4, RestoreQuiet, QuietTwice DEF Quiet

LEMMA FailedQuiet == ASSUME NEW w, IsWorld(w), NEW m PROVE Quiet(w, Voice!Failed(w, m))
  <1> DEFINE d == Voice!Dispose(w, m)
             e == [d EXCEPT !.mixers[m].at = "failed"]
  <1>1. Quiet(w, d) /\ IsWorld(d)
    BY DisposeQuiet DEF Quiet
  <1>2. Voice!Failed(w, m) = Voice!Settle(e, m, FALSE)
    BY DEF Voice!Failed
  <1> HIDE DEF d
  <1>3. Quiet(d, e) /\ IsWorld(e)
    BY <1>1, MixersQuiet DEF Quiet
  <1> HIDE DEF e
  <1> QED BY <1>1, <1>2, <1>3, SettleQuiet, QuietTwice

\* The end of the panel or of the call silences everything.
LEMMA TeardownSilent ==
    ASSUME NEW w, IsWorld(w)
    PROVE  Quiet(w, Voice!Teardown(w)) /\ \A s \in Voice!Sends : ~Speaks(Voice!Teardown(w), s)
  <1> DEFINE a == Voice!SilenceAll(w)
             d == Voice!Dispose(a, w.plug.mixer)
             p == [d.plug EXCEPT !.gen = @ + 1, !.checked = FALSE, !.disabled = FALSE,
                                 !.ready = 0, !.snap = "null", !.mixer = 0, !.promise = 0]
  <1>1. Quiet(w, a) /\ IsWorld(a) /\ \A s \in Voice!Sends : ~Speaks(a, s)
    BY SilenceAllQuiet DEF Quiet
  <1>2. Quiet(a, d) /\ IsWorld(d)
    BY <1>1, DisposeQuiet DEF Quiet
  <1>3. Voice!Teardown(w) = [d EXCEPT !.plug = p]
    BY DEF Voice!Teardown
  <1> HIDE DEF a, d, p
  <1>4. Quiet(d, [d EXCEPT !.plug = p])
    BY <1>2, PlugQuiet
  <1> QED BY <1>1, <1>2, <1>3, <1>4, QuietTwice DEF Quiet

-----------------------------------------------------------------------------
(* The steps *)

\* What is true of every state: the speeches' places, and the silence.
VoiceInv == DOMAIN v5 = Voice!Sends /\ Voice!MutedSpeaksNothing

LEMMA WorldIsWorld == ASSUME VoiceInv PROVE IsWorld(Voice!World) /\ Voice!World.muted = v2 /\ Voice!World.sends = v5
  BY DEF VoiceInv, Voice!World, IsWorld

\* A step to a world that speaks no more than this one.
LEMMA QuietStep ==
    ASSUME VoiceInv, NEW w, Quiet(Voice!World, w), Voice!Become(w), UNCHANGED v1 PROVE VoiceInv'
  <1>1. IsWorld(w) /\ w.muted = v2 /\ \A s \in Voice!Sends : w.sends[s].at = "playing" => v5[s].at = "playing"
    BY WorldIsWorld DEF Quiet, Speaks
  <1>2. v2' = v2 /\ v5' = w.sends /\ DOMAIN v5' = Voice!Sends
    BY <1>1 DEF Voice!Become, IsWorld
  <1> QED BY <1>1, <1>2 DEF VoiceInv, Voice!MutedSpeaksNothing

\* A step to a silent world.
LEMMA SilentStep ==
    ASSUME NEW w, IsWorld(w), \A s \in Voice!Sends : ~Speaks(w, s), Voice!Become(w) PROVE VoiceInv'
  BY DEF VoiceInv, Voice!MutedSpeaksNothing, Voice!Become, IsWorld, Speaks

LEMMA SyncMutedSilent ==
    ASSUME NEW w, IsWorld(w)
    PROVE  Quiet(w, Voice!SyncMuted(w)) /\ \A s \in Voice!Sends : ~Speaks(Voice!SyncMuted(w), s)
  <1> DEFINE p == [w.plug EXCEPT
                     !.snap = IF @ = "null" THEN (IF w.plug.checked THEN "on" ELSE "off") ELSE @,
                     !.checked = FALSE, !.disabled = TRUE, !.ready = 0]
             a == [w EXCEPT !.plug = p]
             q == Voice!SilenceAll(a)
  <1>1. Voice!SyncMuted(w) = Voice!Release(q)
    <2>1. a = [w EXCEPT
                !.plug.snap = IF @ = "null" THEN (IF w.plug.checked THEN "on" ELSE "off") ELSE @,
                !.plug.checked = FALSE, !.plug.disabled = TRUE, !.plug.ready = 0]
      BY DEF IsWorld
    <2> HIDE DEF a
    <2> QED BY <2>1 DEF Voice!SyncMuted
  <1> HIDE DEF p
  <1>2. Quiet(w, a) /\ IsWorld(a)
    BY PlugQuiet DEF Quiet
  <1> HIDE DEF a
  <1>3. Quiet(a, q) /\ IsWorld(q) /\ \A s \in Voice!Sends : ~Speaks(q, s)
    BY <1>2, SilenceAllQuiet DEF Quiet
  <1> HIDE DEF q
  <1>4. Quiet(q, Voice!Release(q))
    BY <1>3, ReleaseQuiet
  <1> QED BY <1>1, <1>2, <1>3, <1>4, QuietTwice DEF Quiet

LEMMA SyncUnmutedQuiet == ASSUME NEW w, IsWorld(w) PROVE Quiet(w, Voice!SyncUnmuted(w))
  <1> DEFINE p == [w.plug EXCEPT !.checked = IF w.plug.snap = "null" THEN @ ELSE w.plug.snap = "on",
                                 !.snap = "null", !.disabled = FALSE]
             back == [w EXCEPT !.plug = p]
  <1>1. Voice!SyncUnmuted(w) \in {Voice!BeginAutoRead(back), back}
    <2>1. back = [w EXCEPT !.plug.checked = IF w.plug.snap = "null" THEN @ ELSE w.plug.snap = "on",
                           !.plug.snap = "null", !.plug.disabled = FALSE]
      BY DEF IsWorld
    <2> HIDE DEF back
    <2> QED BY <2>1 DEF Voice!SyncUnmuted
  <1> HIDE DEF p
  <1>2. Quiet(w, back) /\ IsWorld(back)
    BY PlugQuiet DEF Quiet
  <1> HIDE DEF back
  <1>3. Quiet(back, Voice!BeginAutoRead(back))
    BY <1>2, BeginAutoReadQuiet
  <1> QED BY <1>1, <1>2, <1>3, QuietTwice

LEMMA MixerSteps ==
    ASSUME VoiceInv, NEW m \in Voice!Mixers, Voice!ContextResumed(m) \/ Voice!ContextRefused(m) PROVE VoiceInv'
  <1> DEFINE a == [Voice!World EXCEPT !.mixers[m].at = "replace"]
             r == Voice!ReplaceTrack(a, m, m, "ready")
  <1>0. IsWorld(Voice!World)
    BY WorldIsWorld
  <1>1. Quiet(Voice!World, a) /\ IsWorld(a)
    BY <1>0, MixersQuiet DEF Quiet
  <1>2. Voice!Become(Voice!Failed(Voice!World, m)) \/ Voice!Become(r)
    BY DEF Voice!ContextResumed, Voice!ContextRefused
  <1> HIDE DEF a
  <1>3. Quiet(Voice!World, r) /\ Quiet(Voice!World, Voice!Failed(Voice!World, m)) /\ UNCHANGED v1
    BY <1>0, <1>1, ReplaceTrackQuiet, FailedQuiet, QuietTwice DEF Voice!ContextResumed, Voice!ContextRefused
  <1> HIDE DEF r
  <1> QED BY <1>2, <1>3, QuietStep

LEMMA TrackSteps == ASSUME VoiceInv, Voice!TrackReplaced \/ Voice!TrackRefused PROVE VoiceInv'
  <1> DEFINE op == Head(v7)
             w == [[Voice!World EXCEPT !.sender = op.track] EXCEPT !.chain = Tail(v7)]
             v == [Voice!World EXCEPT !.chain = Tail(v7)]
             x == [[w EXCEPT !.mixers[op.mixer].at = "done"] EXCEPT !.mixers[op.mixer].ready = TRUE]
  <1>0. IsWorld(Voice!World) /\ Voice!World.chain = v7
    BY WorldIsWorld DEF Voice!World
  <1>1. Quiet(Voice!World, w) /\ IsWorld(w) /\ Quiet(Voice!World, v) /\ IsWorld(v)
    <2> DEFINE u == [Voice!World EXCEPT !.sender = op.track]
    <2>1. Quiet(Voice!World, u) /\ IsWorld(u)
      BY <1>0, SenderQuiet DEF Quiet
    <2> HIDE DEF u
    <2>2. Quiet(u, [u EXCEPT !.chain = Tail(v7)]) /\ Quiet(Voice!World, v)
      BY <1>0, <2>1, ChainQuiet
    <2> QED BY <2>1, <2>2, QuietTwice DEF u, Quiet
  <1>2. \/ Voice!Become(Voice!Settle(x, op.mixer, TRUE)) \/ Voice!Become(Voice!Dispose(w, op.mixer)) \/ Voice!Become(Voice!Teardown(w))
        \/ Voice!Become(Voice!Failed(v, op.mixer)) \/ Voice!Become(v)
    BY <1>0 DEF Voice!TrackReplaced, Voice!TrackRefused
  <1> HIDE DEF w, v, op
  <1>3. Quiet(w, x) /\ IsWorld(x)
    <2> DEFINE d == [w EXCEPT !.mixers[op.mixer].at = "done"]
    <2>1. Quiet(w, d) /\ IsWorld(d)
      BY <1>1, MixersQuiet DEF Quiet
    <2> HIDE DEF d
    <2>2. Quiet(d, [d EXCEPT !.mixers[op.mixer].ready = TRUE])
      BY <2>1, MixersQuiet
    <2> QED BY <2>1, <2>2, QuietTwice DEF d, Quiet
  <1> HIDE DEF x
  <1>4. /\ Quiet(Voice!World, Voice!Settle(x, op.mixer, TRUE)) /\ Quiet(Voice!World, Voice!Dispose(w, op.mixer))
        /\ Quiet(Voice!World, Voice!Teardown(w)) /\ Quiet(Voice!World, Voice!Failed(v, op.mixer))
    <2>1. Quiet(x, Voice!Settle(x, op.mixer, TRUE))
      BY <1>3, SettleQuiet
    <2>2. Quiet(w, Voice!Dispose(w, op.mixer)) /\ Quiet(w, Voice!Teardown(w)) /\ Quiet(v, Voice!Failed(v, op.mixer))
      BY <1>1, DisposeQuiet, TeardownSilent, FailedQuiet
    <2> QED BY <1>1, <1>3, <2>1, <2>2, QuietTwice
  <1>5. UNCHANGED v1
    BY DEF Voice!TrackReplaced, Voice!TrackRefused
  <1> QED BY <1>1, <1>2, <1>4, <1>5, QuietStep

LEMMA EndSteps == ASSUME VoiceInv, Voice!ClosePanel \/ Voice!CallEnds PROVE VoiceInv'
  <1>0. IsWorld(Voice!World)
    BY WorldIsWorld
  <1>1. CASE Voice!ClosePanel
    <2>1. Voice!Become(Voice!Teardown(Voice!World)) \/ Voice!Become(Voice!ReplaceTrack(Voice!World, 0, v3.mixer, "close"))
      BY <1>1 DEF Voice!ClosePanel
    <2>2. UNCHANGED v1
      BY <1>1 DEF Voice!ClosePanel
    <2> QED BY <1>0, <2>1, <2>2, TeardownSilent, ReplaceTrackQuiet, QuietStep
  <1>2. CASE Voice!CallEnds
    <2> DEFINE t == Voice!Teardown(Voice!World)
               v == [t EXCEPT !.chain = <<>>]
    <2>1. IsWorld(t) /\ \A s \in Voice!Sends : ~Speaks(t, s)
      BY <1>0, TeardownSilent DEF Quiet
    <2>2. Voice!Become(v)
      BY <1>2 DEF Voice!CallEnds
    <2> HIDE DEF t
    <2>3. IsWorld(v) /\ \A s \in Voice!Sends : ~Speaks(v, s)
      BY <2>1, ChainQuiet DEF Quiet
    <2> HIDE DEF v
    <2> QED BY <2>2, <2>3, SilentStep
  <1> QED BY <1>1, <1>2

LEMMA MuteSteps == ASSUME VoiceInv, Voice!Mute \/ Voice!Unmute PROVE VoiceInv'
  <1>0. IsWorld(Voice!World) /\ Voice!World.sends = v5
    BY WorldIsWorld
  <1>1. CASE Voice!Mute
    <2> DEFINE w == [Voice!World EXCEPT !.muted = TRUE]
    <2>1. IsWorld(w)
      BY <1>0, MutedIsWorld
    <2>2. Voice!Become(Voice!SyncMuted(w))
      BY <1>1 DEF Voice!Mute
    <2> HIDE DEF w
    <2> QED BY <2>1, <2>2, SyncMutedSilent, SilentStep DEF Quiet
  \* An unmuted call was silent, and stays so for the step.
  <1>2. CASE Voice!Unmute
    <2> DEFINE w == [Voice!World EXCEPT !.muted = FALSE]
    <2>1. IsWorld(w) /\ w.sends = v5
      BY <1>0, MutedIsWorld
    <2>2. Voice!Become(Voice!SyncUnmuted(w)) /\ v2
      BY <1>2 DEF Voice!Unmute
    <2>3. \A s \in Voice!Sends : ~Speaks(w, s)
      BY <2>1, <2>2 DEF VoiceInv, Voice!MutedSpeaksNothing, Speaks
    <2> HIDE DEF w
    <2>4. IsWorld(Voice!SyncUnmuted(w)) /\ \A s \in Voice!Sends : ~Speaks(Voice!SyncUnmuted(w), s)
      BY <2>1, <2>3, SyncUnmutedQuiet DEF Quiet
    <2> QED BY <2>2, <2>4, SilentStep
  <1> QED BY <1>1, <1>2

LEMMA ControlSteps == ASSUME VoiceInv, Voice!Check \/ Voice!Uncheck PROVE VoiceInv'
  <1>0. IsWorld(Voice!World)
    BY WorldIsWorld
  <1>1. CASE Voice!Check
    <2> DEFINE c == [Voice!World EXCEPT !.plug.checked = TRUE]
    <2>1. Quiet(Voice!World, c) /\ IsWorld(c)
      BY <1>0, PlugQuiet DEF Quiet
    <2>2. Voice!Become(Voice!BeginAutoRead(c)) /\ UNCHANGED v1
      BY <1>1 DEF Voice!Check
    <2> HIDE DEF c
    <2> QED BY <2>1, <2>2, BeginAutoReadQuiet, QuietTwice, QuietStep
  <1>2. CASE Voice!Uncheck
    <2> DEFINE p == [v3 EXCEPT !.checked = FALSE, !.ready = 0]
               c == [Voice!World EXCEPT !.plug = p]
               a == Voice!AbortAutoReadWork(c)
               o == Voice!StopOutboundTts(a)
    <2>1. Quiet(Voice!World, c) /\ IsWorld(c)
      BY <1>0, PlugQuiet DEF Quiet
    <2>2. Voice!Become(Voice!Release(o)) /\ UNCHANGED v1
      <3>1. c = [Voice!World EXCEPT !.plug.checked = FALSE, !.plug.ready = 0]
        BY DEF Voice!World
      <3> HIDE DEF c
      <3> QED BY <1>2, <3>1 DEF Voice!Uncheck
    <2> HIDE DEF c
    <2>3. Quiet(Voice!World, a) /\ IsWorld(a)
      BY <2>1, AbortAutoReadWorkQuiet, QuietTwice DEF Quiet
    <2> HIDE DEF a
    <2>4. Quiet(Voice!World, o) /\ IsWorld(o)
      BY <2>3, StopOutboundTtsQuiet, QuietTwice DEF Quiet
    <2> HIDE DEF o
    <2> QED BY <2>2, <2>4, ReleaseQuiet, QuietTwice, QuietStep
  <1> QED BY <1>1, <1>2

LEMMA SendSteps == ASSUME VoiceInv, Voice!Translated \/ Voice!SendClicked PROVE VoiceInv'
  <1>0. IsWorld(Voice!World)
    BY WorldIsWorld
  <1>1. CASE Voice!Translated
    <2> DEFINE w == IF v2 THEN Voice!SyncMuted(Voice!World) ELSE Voice!SyncUnmuted(Voice!World)
               awaited == {p[1] : p \in w.plug.preparing}
               y == [w EXCEPT !.plug.waiting = @ \cup awaited]
    <2>1. Quiet(Voice!World, w) /\ IsWorld(w)
      BY <1>0, SyncMutedSilent, SyncUnmutedQuiet DEF Quiet
    <2>2. Voice!Become(w) \/ Voice!Become(y) \/ Voice!Become(Voice!AutoSpeak(w))
      BY <1>1 DEF Voice!Translated
    <2> HIDE DEF w, awaited
    <2>3. Quiet(w, y) /\ Quiet(w, Voice!AutoSpeak(w))
      BY <2>1, PlugQuiet, AutoSpeakQuiet
    <2>4. UNCHANGED v1
      BY <1>1 DEF Voice!Translated
    <2> HIDE DEF y
    <2> QED BY <2>1, <2>2, <2>3, <2>4, QuietTwice, QuietStep
  <1>2. CASE Voice!SendClicked
    <2> DEFINE w == Voice!Install(Voice!World)
               s == Voice!Least(Voice!FreeSends(Voice!World))
               r == IF Voice!Usable(w) THEN [at |-> "speech", auto |-> FALSE, mixer |-> w.plug.mixer, gen |-> w.plug.gen]
                    ELSE [at |-> "mixer", auto |-> FALSE, mixer |-> w.plug.promise, gen |-> 0]
               new == [w.sends EXCEPT ![s] = r]
    <2>1. Quiet(Voice!World, w) /\ IsWorld(w)
      BY <1>0, InstallQuiet DEF Quiet
    <2>2. Voice!Become([w EXCEPT !.sends = new]) /\ UNCHANGED v1
      BY <1>2 DEF Voice!SendClicked
    <2> HIDE DEF w, s
    <2>3. r.at # "playing"
      OBVIOUS
    <2> HIDE DEF r
    <2>4. DOMAIN new = Voice!Sends /\ \A t \in Voice!Sends : new[t].at = "playing" => Speaks(w, t)
      BY <2>1, <2>3 DEF IsWorld, Speaks
    <2> HIDE DEF new
    <2>5. Quiet(w, [w EXCEPT !.sends = new])
      BY <2>1, <2>4, SendsQuiet
    <2> QED BY <2>1, <2>2, <2>5, QuietTwice, QuietStep
  <1> QED BY <1>1, <1>2

LEMMA SpeechSteps ==
    ASSUME VoiceInv, NEW s \in Voice!Sends,
           Voice!SpeechAsked(s) \/ Voice!SpeechArrives(s) \/ Voice!SpeechPlays(s) \/ Voice!SpeechOver(s)
    PROVE  VoiceInv'
  <1>1. PICK next : Voice!Sent(s, next) /\ (next.at = "playing" => v1 /\ ~v2)
    <2>1. Voice!NoSend.at # "playing"
      BY DEF Voice!NoSend
    <2>2. CASE Voice!SpeechAsked(s)
      <3> DEFINE next == [v5[s] EXCEPT !.at = "speech", !.gen = v3.gen]
      <3>1. Voice!Sent(s, next) /\ (next.at = "playing" => v5[s].at = "playing") /\ v5[s].at = "resume"
        BY <2>2 DEF Voice!SpeechAsked
      <3> HIDE DEF next
      <3> QED BY <3>1
    <2>3. CASE Voice!SpeechArrives(s)
      <3> DEFINE next == [v5[s] EXCEPT !.at = "decode"]
      <3>1. Voice!Sent(s, next) \/ Voice!Sent(s, Voice!NoSend)
        BY <2>3 DEF Voice!SpeechArrives
      <3>2. v5[s].at = "speech" /\ (next.at = "playing" => v5[s].at = "playing")
        BY <2>3 DEF Voice!SpeechArrives
      <3> HIDE DEF next
      <3> QED BY <2>1, <3>1, <3>2
    <2>4. CASE Voice!SpeechPlays(s)
      BY <2>1, <2>4 DEF Voice!SpeechPlays, Voice!Active
    <2>5. CASE Voice!SpeechOver(s)
      BY <2>1, <2>5 DEF Voice!SpeechOver
    <2> QED BY <2>2, <2>3, <2>4, <2>5
  <1>2. v5' = [v5 EXCEPT ![s] = next] /\ UNCHANGED <<v1, v2>>
    BY <1>1 DEF Voice!Sent
  <1> QED BY <1>1, <1>2 DEF VoiceInv, Voice!MutedSpeaksNothing

LEMMA VoiceInitEstablishes == Voice!Init => VoiceInv
  BY DEF Voice!Init, VoiceInv, Voice!MutedSpeaksNothing

LEMMA VoiceStepKeeps == ASSUME VoiceInv, [Voice!Next]_Voice!vars PROVE VoiceInv'
  <1>1. CASE UNCHANGED Voice!vars
    BY <1>1 DEF Voice!vars, VoiceInv, Voice!MutedSpeaksNothing
  <1> QED BY <1>1, MixerSteps, TrackSteps, EndSteps, MuteSteps, ControlSteps, SendSteps, SpeechSteps
          DEF Voice!Next

VoicePart == which = "voice" => VoiceInv

LEMMA VoiceStart == Init => VoicePart
  BY CallsConstants, VoiceInitEstablishes DEF Init, VoicePart

LEMMA VoiceStep == VoicePart /\ [Next]_vars => VoicePart'
<1> SUFFICES ASSUME VoicePart, [Next]_vars PROVE VoicePart'
  OBVIOUS
<1>1. CASE which = "voice"
  <2>1. [Voice!Next]_Voice!vars  BY <1>1 DEF Next, vars, Step, Voice!vars
  <2>2. which' = "voice"         BY <1>1 DEF Next, vars, Step
  <2> QED  BY <1>1, <2>1, <2>2, VoiceStepKeeps DEF VoicePart
<1>2. CASE which # "voice"  BY <1>2 DEF Next, vars, Step, VoicePart
<1> QED  BY <1>1, <1>2

-----------------------------------------------------------------------------
(* The types of the voice.  A closing under way at the bound of the generations still adds *)
(* one when it settles: the generations to come are counted in the chain.                  *)

Plugs ==
  [gen : Voice!Gens, checked : BOOLEAN, disabled : BOOLEAN, ready : Voice!Gens, snap : {"null", "on", "off"},
   mixer : 0 .. VoiceMixers, promise : 0 .. VoiceMixers, preparing : SUBSET (Voice!Mixers \X Voice!Gens),
   waiting : SUBSET Voice!Mixers, releasing : SUBSET Voice!Mixers]
MixerStates ==
  [at : {"free", "resume", "replace", "done", "failed"}, gen : Voice!Gens, ready : BOOLEAN, disposed : BOOLEAN]
Speeches ==
  [at : {"free", "mixer", "resume", "speech", "decode", "playing"}, auto : BOOLEAN, mixer : 0 .. VoiceMixers,
   gen : Voice!Gens]
TrackOps == [track : 0 .. VoiceMixers, mixer : Voice!Mixers, after : {"ready", "dispose", "close"}]
Worlds ==
  [muted : BOOLEAN, plug : Plugs, mixers : [Voice!Mixers -> MixerStates], sends : [Voice!Sends -> Speeches],
   sender : 0 .. VoiceMixers, chain : Seq(TrackOps)]

\* The closings under way.
Closings(c) == {i \in 1 .. Len(c) : c[i].after = "close"}

VoiceTyped ==
  /\ v1 \in BOOLEAN /\ Voice!World \in Worlds
  /\ ~v2 => v3.snap = "null"
  /\ v3.gen + Cardinality(Closings(v7)) + (IF v1 THEN 1 ELSE 0) <= VoiceGens + VoiceOps

\* What most handlers leave: the generation, the closings, the choice held while muted.
Kept(w, v) ==
  /\ v \in Worlds /\ v.muted = w.muted /\ v.plug.gen = w.plug.gen /\ v.plug.snap = w.plug.snap
  /\ Closings(v.chain) = Closings(w.chain)

LEMMA KeptTwice == ASSUME NEW u, NEW v, NEW w, Kept(u, v), Kept(v, w) PROVE Kept(u, w)
  BY DEF Kept

LEMMA VoiceBounds ==
  /\ VoiceMixers \in Nat \ {0} /\ VoiceSends \in Nat \ {0} /\ VoiceGens \in Nat \ {0} /\ VoiceOps \in Nat \ {0}
  /\ Voice!Gens \subseteq Nat /\ {0, 1} \subseteq Voice!Gens /\ Voice!NoMixer \in MixerStates
  /\ Voice!NoSend \in Speeches /\ Voice!Idle \in Plugs
<1>1. VoiceMixers \in Nat \ {0} /\ VoiceSends \in Nat \ {0} /\ VoiceGens \in Nat \ {0} /\ VoiceOps \in Nat \ {0}
  BY CallsConstants DEF Voice!BoundsAssumption
<1>2. Voice!Gens \subseteq Nat /\ {0, 1} \subseteq Voice!Gens  BY <1>1 DEF Voice!Gens
<1> QED
  BY <1>1, <1>2 DEF Voice!NoMixer, Voice!NoSend, Voice!Idle, MixerStates, Speeches, Plugs

\* One part of the world is replaced.
LEMMA PlugKept ==
  ASSUME NEW w \in Worlds, NEW p \in Plugs, p.gen = w.plug.gen, p.snap = w.plug.snap, NEW v, v = [w EXCEPT !.plug = p]
  PROVE  /\ Kept(w, v) /\ v.plug = p /\ v.mixers = w.mixers /\ v.sends = w.sends /\ v.sender = w.sender
         /\ v.chain = w.chain
BY DEF Worlds, Kept

LEMMA MixersKept ==
  ASSUME NEW w \in Worlds, NEW ms \in [Voice!Mixers -> MixerStates], NEW v, v = [w EXCEPT !.mixers = ms]
  PROVE  /\ Kept(w, v) /\ v.plug = w.plug /\ v.mixers = ms /\ v.sends = w.sends /\ v.sender = w.sender
         /\ v.chain = w.chain
BY DEF Worlds, Kept

LEMMA SendsKept ==
  ASSUME NEW w \in Worlds, NEW ss \in [Voice!Sends -> Speeches], NEW v, v = [w EXCEPT !.sends = ss]
  PROVE  /\ Kept(w, v) /\ v.plug = w.plug /\ v.mixers = w.mixers /\ v.sends = ss /\ v.sender = w.sender
         /\ v.chain = w.chain
BY DEF Worlds, Kept

\* The chain
LEMMA ClosingsAppended ==
  ASSUME NEW c \in Seq(TrackOps), NEW op \in TrackOps
  PROVE  /\ Append(c, op) \in Seq(TrackOps)
         /\ op.after # "close" => Closings(Append(c, op)) = Closings(c)
         /\ op.after = "close" => Closings(Append(c, op)) = Closings(c) \cup {Len(c) + 1}
BY DEF Closings

LEMMA ClosingsCounted ==
  ASSUME NEW c \in Seq(TrackOps)
  PROVE  IsFiniteSet(Closings(c)) /\ Cardinality(Closings(c)) \in Nat /\ Cardinality(Closings(c)) <= Len(c)
<1>1. Closings(c) \in SUBSET (1 .. Len(c)) /\ Len(c) \in Nat  BY DEF Closings
<1>2. IsFiniteSet(1 .. Len(c)) /\ Cardinality(1 .. Len(c)) = Len(c)
  <2> DEFINE n == Len(c)
  <2>1. n \in Nat  BY <1>1
  <2> HIDE DEF n
  <2>2. IsFiniteSet(1 .. n) /\ Cardinality(1 .. n) = IF 1 > n THEN 0 ELSE n - 1 + 1  BY <2>1, FS_Interval
  <2>3. IsFiniteSet(1 .. n) /\ Cardinality(1 .. n) = n  BY <2>1, <2>2
  <2> QED  BY <2>3 DEF n
<1>3. IsFiniteSet(Closings(c)) /\ Cardinality(Closings(c)) <= Len(c)  BY <1>1, <1>2, FS_Subset
<1> QED  BY <1>3, FS_CardinalityType

LEMMA ClosingsSettled ==
  ASSUME NEW c \in Seq(TrackOps), c # <<>>
  PROVE  /\ Head(c) \in TrackOps /\ Tail(c) \in Seq(TrackOps)
         /\ Cardinality(Closings(Tail(c))) <= Cardinality(Closings(c))
         /\ Head(c).after = "close" => Cardinality(Closings(Tail(c))) + 1 <= Cardinality(Closings(c))
<1> DEFINE S == Closings(c) \ {1}
           T == Closings(Tail(c))
           f == [i \in S |-> i - 1]
<1>1. /\ Head(c) = c[1] /\ Head(c) \in TrackOps /\ Tail(c) \in Seq(TrackOps) /\ Len(c) \in Nat \ {0}
      /\ Len(Tail(c)) = Len(c) - 1 /\ \A i \in 1 .. Len(c) - 1 : Tail(c)[i] = c[i + 1]
  OBVIOUS
<1>2. IsFiniteSet(Closings(c)) /\ Cardinality(Closings(c)) \in Nat  BY ClosingsCounted
<1>3. /\ IsFiniteSet(S)
      /\ Cardinality(S) = IF 1 \in Closings(c) THEN Cardinality(Closings(c)) - 1 ELSE Cardinality(Closings(c))
  BY <1>2, FS_RemoveElement
<1>4. f \in Surjection(S, T)
  <2>1. ASSUME NEW i \in S PROVE i - 1 \in T
    <3>1. i \in 2 .. Len(c) /\ c[i].after = "close"  BY DEF Closings
    <3>2. i - 1 \in 1 .. Len(c) - 1 /\ (i - 1) + 1 = i  BY <1>1, <3>1
    <3>3. Tail(c)[i - 1] = c[i]  BY <1>1, <3>2
    <3> QED  BY <1>1, <3>1, <3>2, <3>3 DEF Closings
  <2>2. ASSUME NEW j \in T PROVE j + 1 \in S /\ f[j + 1] = j
    <3>1. j \in 1 .. Len(c) - 1 /\ Tail(c)[j].after = "close"  BY <1>1 DEF Closings
    <3>2. j + 1 \in S  BY <1>1, <3>1 DEF Closings
    <3> QED  BY <3>1, <3>2
  <2> HIDE DEF S, T
  <2>3. f \in [S -> T]  BY <2>1
  <2>4. \A j \in T : \E i \in S : f[i] = j  BY <2>2
  <2> QED  BY <2>3, <2>4 DEF Surjection
<1>5. Cardinality(T) <= Cardinality(S)  BY <1>3, <1>4, FS_Surjection DEF ExistsSurjection
<1>6. Head(c).after = "close" => 1 \in Closings(c)  BY <1>1 DEF Closings
<1>7. Cardinality(S) \in Nat /\ Cardinality(T) \in Nat  BY <1>1, <1>3, FS_CardinalityType, ClosingsCounted
<1>8. /\ Cardinality(T) <= Cardinality(Closings(c))
      /\ 1 \in Closings(c) => Cardinality(T) + 1 <= Cardinality(Closings(c))
  <2> HIDE DEF S, T
  <2> QED  BY <1>2, <1>3, <1>5, <1>7
<1> HIDE DEF f, S
<1> QED  BY <1>1, <1>6, <1>8

LEMMA ReplaceTrackKept ==
  ASSUME NEW w \in Worlds, NEW track \in 0 .. VoiceMixers, NEW m \in Voice!Mixers, NEW after \in {"ready", "dispose"}
  PROVE  Kept(w, Voice!ReplaceTrack(w, track, m, after))
<1> DEFINE op == [track |-> track, mixer |-> m, after |-> after]
           c == Append(w.chain, op)
<1>1. Voice!ReplaceTrack(w, track, m, after) = [w EXCEPT !.chain = c]  BY DEF Voice!ReplaceTrack, Worlds
<1>2. op \in TrackOps /\ op.after # "close" /\ w.chain \in Seq(TrackOps)  BY DEF TrackOps, Worlds
<1> HIDE DEF op
<1>3. c \in Seq(TrackOps) /\ Closings(c) = Closings(w.chain)  BY <1>2, ClosingsAppended
<1> HIDE DEF c
<1> QED  BY <1>1, <1>3 DEF Worlds, Kept

\* Speeches replaced by idle ones.
LEMMA StoppedKept ==
  ASSUME NEW w \in Worlds
  PROVE  /\ Kept(w, Voice!StopOutboundTts(w)) /\ Kept(w, Voice!AbortAutoReadWork(w)) /\ Kept(w, Voice!SilenceAll(w))
         /\ Voice!AbortAutoReadWork(w).plug = w.plug /\ Voice!SilenceAll(w).plug = w.plug
         /\ Voice!AbortAutoReadWork(w).chain = w.chain /\ Voice!SilenceAll(w).chain = w.chain
<1> DEFINE out == [s \in Voice!Sends |-> IF w.sends[s].at = "playing" THEN Voice!NoSend ELSE w.sends[s]]
           auto == [s \in Voice!Sends |-> IF w.sends[s].auto /\ w.sends[s].at \in {"speech", "playing"}
                                          THEN Voice!NoSend ELSE w.sends[s]]
           all == [s \in Voice!Sends |-> IF w.sends[s].at \in {"speech", "playing"}
                                         THEN Voice!NoSend ELSE w.sends[s]]
<1>1. /\ Voice!StopOutboundTts(w) = [w EXCEPT !.sends = out]
      /\ Voice!AbortAutoReadWork(w) = [w EXCEPT !.sends = auto]
      /\ Voice!SilenceAll(w) = [w EXCEPT !.sends = all]
  BY DEF Voice!StopOutboundTts, Voice!AbortAutoReadWork, Voice!SilenceAll, Voice!Stop
<1>2. w.sends \in [Voice!Sends -> Speeches] /\ Voice!NoSend \in Speeches  BY VoiceBounds DEF Worlds
<1>3. /\ out \in [Voice!Sends -> Speeches] /\ auto \in [Voice!Sends -> Speeches]
      /\ all \in [Voice!Sends -> Speeches]
  BY <1>2
<1> HIDE DEF out, auto, all
<1>4. Kept(w, Voice!StopOutboundTts(w))  BY <1>1, <1>3, SendsKept
<1>5. Kept(w, Voice!AbortAutoReadWork(w)) /\ Voice!AbortAutoReadWork(w).plug = w.plug
      /\ Voice!AbortAutoReadWork(w).chain = w.chain
  BY <1>1, <1>3, SendsKept
<1>6. Kept(w, Voice!SilenceAll(w)) /\ Voice!SilenceAll(w).plug = w.plug /\ Voice!SilenceAll(w).chain = w.chain
  BY <1>1, <1>3, SendsKept
<1> QED  BY <1>4, <1>5, <1>6

LEMMA LeastIs == ASSUME NEW S, S \subseteq Nat, S # {} PROVE Voice!Least(S) \in S
<1>1. PICK x \in S : \A y \in S : <<y, x>> \notin OpToRel(<, Nat)
  BY NatLessThanWellFounded, WFMin, Zenon
<1>2. \A y \in S : ~(y < x)  BY <1>1, Zenon DEF OpToRel
<1>3. ASSUME NEW y \in S PROVE x <= y  BY <1>2
<1> QED  BY <1>3 DEF Voice!Least

LEMMA AutoSpeakKept == ASSUME NEW w \in Worlds PROVE Kept(w, Voice!AutoSpeak(w))
<1> DEFINE quiet == Voice!AbortAutoReadWork(w)
           k == Voice!Least(Voice!FreeSends(quiet))
           r == [at |-> "resume", auto |-> TRUE, mixer |-> w.plug.mixer, gen |-> 0]
           speaking == [quiet EXCEPT !.sends[k] = r]
<1>1. Kept(w, w)  BY DEF Kept
<1>2. Kept(w, quiet)  BY StoppedKept
<1>3. Voice!AutoSpeak(w) \in {w, quiet, speaking}  BY DEF Voice!AutoSpeak
<1>4. Kept(w, speaking)
  <2>1. r \in Speeches  BY VoiceBounds DEF Speeches, Worlds, Plugs
  <2> HIDE DEF r, k, quiet
  <2> DEFINE ss == [quiet.sends EXCEPT ![k] = r]
  <2>2. quiet \in Worlds  BY <1>2 DEF Kept
  <2>3. speaking = [quiet EXCEPT !.sends = ss]  BY <2>2 DEF Worlds
  <2>4. ss \in [Voice!Sends -> Speeches]  BY <2>1, <2>2 DEF Worlds
  <2> HIDE DEF ss, speaking
  <2>5. Kept(quiet, speaking)  BY <2>2, <2>3, <2>4, SendsKept
  <2> QED  BY <1>2, <2>5, KeptTwice
<1> QED  BY <1>1, <1>2, <1>3, <1>4

\* An installation has its mixer, or awaits the one under way.
LEMMA InstallKept ==
  ASSUME NEW w \in Worlds, Voice!MayInstall(w)
  PROVE  Kept(w, Voice!Install(w)) /\ (Voice!Usable(Voice!Install(w)) \/ Voice!Install(w).plug.promise \in Voice!Mixers)
<1>1. CASE Voice!Usable(w) \/ w.plug.promise # 0
  <2>1. Voice!Install(w) = w  BY <1>1 DEF Voice!Install
  <2>2. Kept(w, w)  BY DEF Kept
  <2>3. w.plug.promise \in 0 .. VoiceMixers  BY DEF Worlds, Plugs
  <2> QED  BY <1>1, <2>1, <2>2, <2>3, VoiceBounds DEF Voice!Mixers
<1>2. CASE ~(Voice!Usable(w) \/ w.plug.promise # 0)
  <2> DEFINE m == Voice!Least(Voice!Unused(w))
             n == Voice!NoMixer
             gen == w.plug.gen
             x == [n EXCEPT !.at = "resume", !.gen = gen]
             ms == [w.mixers EXCEPT ![m] = x]
             plug == w.plug
             p == [plug EXCEPT !.mixer = m, !.promise = m]
             u == [w EXCEPT !.mixers = ms]
             v == [u EXCEPT !.plug = p]
  <2>1. Voice!Unused(w) # {} /\ Voice!Unused(w) \subseteq Voice!Mixers  BY <1>2 DEF Voice!MayInstall, Voice!Unused
  <2>2. m \in Voice!Mixers  BY <2>1, LeastIs, VoiceBounds DEF Voice!Mixers
  <2>3. Voice!Install(w) = v  BY <1>2 DEF Voice!Install, Worlds
  <2>4. w.plug \in Plugs /\ gen \in Voice!Gens /\ n \in MixerStates /\ w.mixers \in [Voice!Mixers -> MixerStates]
    BY VoiceBounds DEF Worlds, Plugs
  <2>5. m \in 0 .. VoiceMixers  BY <2>2, VoiceBounds DEF Voice!Mixers
  <2> HIDE DEF m, n
  <2>6. x \in MixerStates
    <3> HIDE DEF gen
    <3> QED  BY <2>4 DEF MixerStates
  <2> HIDE DEF x
  <2>7. ms \in [Voice!Mixers -> MixerStates]  BY <2>4, <2>6
  <2>8. p \in Plugs /\ p.gen = plug.gen /\ p.snap = plug.snap /\ p.promise = m
    <3> HIDE DEF plug
    <3>1. plug \in Plugs  BY <2>4 DEF plug
    <3> QED  BY <2>5, <3>1 DEF Plugs
  <2> HIDE DEF ms, p
  <2>9. Kept(w, u) /\ u.plug = w.plug /\ u \in Worlds  BY <2>7, MixersKept DEF Kept
  <2> HIDE DEF u
  <2>10. Kept(u, v) /\ v.plug = p  BY <2>8, <2>9, PlugKept
  <2> HIDE DEF v
  <2>11. Kept(w, v)  BY <2>9, <2>10, KeptTwice
  <2> QED  BY <2>2, <2>3, <2>8, <2>10, <2>11
<1> QED  BY <1>1, <1>2

LEMMA DisposeKept == ASSUME NEW w \in Worlds, NEW m \in 0 .. VoiceMixers PROVE Kept(w, Voice!Dispose(w, m))
<1>1. CASE m = 0  BY <1>1 DEF Voice!Dispose, Kept
<1>2. CASE m # 0
  <2> DEFINE old == w.mixers[m]
             x == [old EXCEPT !.disposed = TRUE, !.ready = FALSE]
             ms == [w.mixers EXCEPT ![m] = x]
             plug == w.plug
             mixer == IF plug.mixer = m THEN 0 ELSE plug.mixer
             p == [plug EXCEPT !.mixer = mixer]
             u == [w EXCEPT !.mixers = ms]
             v == [u EXCEPT !.plug = p]
  <2>1. m \in Voice!Mixers  BY <1>2, VoiceBounds DEF Voice!Mixers
  <2>2. Voice!Dispose(w, m) = v  BY <1>2, <2>1 DEF Voice!Dispose, Worlds
  <2>3. plug \in Plugs /\ mixer \in 0 .. VoiceMixers /\ old \in MixerStates /\ w.mixers \in [Voice!Mixers -> MixerStates]
    BY <2>1, VoiceBounds DEF Worlds, Plugs
  <2> HIDE DEF mixer
  <2>4. x \in MixerStates
    <3> HIDE DEF old
    <3> QED  BY <2>3 DEF MixerStates
  <2> HIDE DEF x
  <2>5. ms \in [Voice!Mixers -> MixerStates]  BY <2>3, <2>4
  <2>6. p \in Plugs /\ p.gen = plug.gen /\ p.snap = plug.snap
    <3> HIDE DEF plug
    <3> QED  BY <2>3 DEF Plugs
  <2> HIDE DEF ms, p
  <2>7. Kept(w, u) /\ u.plug = w.plug /\ u \in Worlds  BY <2>5, MixersKept DEF Kept
  <2> HIDE DEF u
  <2>8. Kept(u, v)  BY <2>6, <2>7, PlugKept
  <2> HIDE DEF v
  <2> QED  BY <2>2, <2>7, <2>8, KeptTwice
<1> QED  BY <1>1, <1>2

LEMMA RestoreKept == ASSUME NEW w \in Worlds, NEW m \in Voice!Mixers PROVE Kept(w, Voice!Restore(w, m))
<1>1. Kept(w, w) /\ 0 \in 0 .. VoiceMixers  BY VoiceBounds DEF Kept
<1>2. Kept(w, Voice!ReplaceTrack(w, 0, m, "dispose"))  BY <1>1, ReplaceTrackKept
<1> QED  BY <1>1, <1>2 DEF Voice!Restore

LEMMA ReleaseKept == ASSUME NEW w \in Worlds PROVE Kept(w, Voice!Release(w))
<1> DEFINE plug == w.plug
           releasing == plug.releasing \cup {plug.promise}
           p == [plug EXCEPT !.releasing = releasing]
<1>1. plug \in Plugs /\ plug.mixer \in 0 .. VoiceMixers /\ plug.promise \in 0 .. VoiceMixers
      /\ plug.releasing \subseteq Voice!Mixers
  BY DEF Worlds, Plugs
<1>2. CASE plug.mixer # 0
  <2>1. plug.mixer \in Voice!Mixers  BY <1>1, <1>2, VoiceBounds DEF Voice!Mixers
  <2> QED  BY <1>2, <2>1, RestoreKept DEF Voice!Release
<1>3. CASE plug.mixer = 0 /\ plug.promise # 0
  <2>1. Voice!Release(w) = [w EXCEPT !.plug = p]  BY <1>3 DEF Voice!Release, Worlds
  <2>2. releasing \in SUBSET Voice!Mixers  BY <1>1, <1>3, VoiceBounds DEF Voice!Mixers
  <2> HIDE DEF releasing
  <2>3. p \in Plugs /\ p.gen = plug.gen /\ p.snap = plug.snap
    <3> HIDE DEF plug
    <3> QED  BY <1>1, <2>2 DEF Plugs
  <2> HIDE DEF p
  <2> QED  BY <2>1, <2>3, PlugKept
<1>4. CASE plug.mixer = 0 /\ plug.promise = 0  BY <1>4 DEF Voice!Release, Kept
<1> QED  BY <1>2, <1>3, <1>4

LEMMA PreparedKept ==
  ASSUME NEW w \in Worlds, NEW gen, NEW ok \in BOOLEAN
  PROVE  Kept(w, Voice!Prepared(w, gen, ok))
<1> DEFINE plug == w.plug
           active == Voice!Active(w, gen)
           fine == ok /\ plug.checked /\ active
           ready == IF fine THEN gen ELSE 0
           disabled == plug.disabled /\ ~(active /\ ~w.muted)
           p == [plug EXCEPT !.ready = ready, !.checked = fine, !.disabled = disabled]
<1>1. plug \in Plugs /\ plug.gen \in Voice!Gens /\ plug.checked \in BOOLEAN /\ plug.disabled \in BOOLEAN
  BY DEF Worlds, Plugs
<1>2. active => gen = plug.gen  BY DEF Voice!Active
<1>3. Voice!Prepared(w, gen, ok) = [w EXCEPT !.plug = p]  BY DEF Voice!Prepared, Worlds
<1> HIDE DEF active
<1>4. fine \in BOOLEAN /\ disabled \in BOOLEAN  OBVIOUS
<1>5. ready \in Voice!Gens  BY <1>1, <1>2, VoiceBounds
<1> HIDE DEF fine, ready, disabled
<1>6. p \in Plugs /\ p.gen = plug.gen /\ p.snap = plug.snap
  <2> HIDE DEF plug
  <2> QED  BY <1>1, <1>4, <1>5 DEF Plugs
<1> HIDE DEF p
<1> QED  BY <1>3, <1>6, PlugKept

LEMMA BeginAutoReadKept ==
  ASSUME NEW w \in Worlds, Voice!MayInstall(w)
  PROVE  Kept(w, Voice!BeginAutoRead(w))
<1> DEFINE plug == w.plug
           p == [plug EXCEPT !.disabled = TRUE]
           u == [w EXCEPT !.plug = p]
           started == Voice!Install(u)
<1>1. plug \in Plugs /\ plug.gen \in Voice!Gens  BY DEF Worlds, Plugs
<1>2. p \in Plugs /\ p.gen = plug.gen /\ p.snap = plug.snap /\ p.mixer = plug.mixer /\ p.promise = plug.promise
  <2> HIDE DEF plug
  <2> QED  BY <1>1 DEF Plugs
<1>3. u = [w EXCEPT !.plug.disabled = TRUE]  BY DEF Worlds
<1> HIDE DEF p
<1>4. Kept(w, u) /\ u.plug = p /\ u.mixers = w.mixers  BY <1>2, PlugKept
<1> HIDE DEF u
<1>5. u \in Worlds /\ Voice!MayInstall(u)
  BY <1>2, <1>4 DEF Kept, Voice!MayInstall, Voice!Usable, Voice!Unused
<1>6. Kept(u, started) /\ (Voice!Usable(started) \/ started.plug.promise \in Voice!Mixers)  BY <1>5, InstallKept
<1>7. Kept(w, started) /\ started \in Worlds  BY <1>4, <1>6, KeptTwice DEF Kept
<1>8. CASE Voice!Usable(started)
  <2>1. Voice!BeginAutoRead(w) = Voice!Prepared(started, w.plug.gen, TRUE)  BY <1>3, <1>8 DEF Voice!BeginAutoRead
  <2> HIDE DEF started
  <2>2. Kept(started, Voice!Prepared(started, w.plug.gen, TRUE))  BY <1>7, PreparedKept
  <2> QED  BY <1>7, <2>1, <2>2, KeptTwice
<1>9. CASE ~Voice!Usable(started)
  <2> DEFINE sp == started.plug
             pair == <<started.plug.promise, w.plug.gen>>
             preparing == sp.preparing \cup {pair}
             q == [sp EXCEPT !.preparing = preparing]
             v == [started EXCEPT !.plug = q]
  <2>1. Voice!BeginAutoRead(w) = [started EXCEPT !.plug.preparing = @ \cup {pair}]
    BY <1>3, <1>9 DEF Voice!BeginAutoRead
  <2> HIDE DEF started
  <2>2. Voice!BeginAutoRead(w) = v  BY <1>7, <2>1 DEF Worlds
  <2>3. sp \in Plugs /\ pair \in Voice!Mixers \X Voice!Gens  BY <1>1, <1>6, <1>7, <1>9 DEF Worlds
  <2> HIDE DEF pair
  <2>4. preparing \in SUBSET (Voice!Mixers \X Voice!Gens)  BY <2>3 DEF Plugs
  <2> HIDE DEF preparing
  <2>5. q \in Plugs /\ q.gen = sp.gen /\ q.snap = sp.snap
    <3> HIDE DEF sp
    <3> QED  BY <2>3, <2>4 DEF Plugs
  <2> HIDE DEF q
  <2>6. Kept(started, v)  BY <1>7, <2>5, PlugKept
  <2> HIDE DEF v
  <2> QED  BY <1>7, <2>2, <2>6, KeptTwice
<1> QED  BY <1>8, <1>9

LEMMA SettleKept ==
  ASSUME NEW w \in Worlds, NEW m \in Voice!Mixers, NEW ok \in BOOLEAN
  PROVE  Kept(w, Voice!Settle(w, m, ok))
<1> DEFINE gens == {p[2] : p \in {q \in w.plug.preparing : q[1] = m}}
           plug == w.plug
           promise == IF plug.promise = m THEN 0 ELSE plug.promise
           preparing == {p \in plug.preparing : p[1] # m}
           waiting == plug.waiting \ {m}
           releasing == plug.releasing \ {m}
           pl == [plug EXCEPT !.promise = promise, !.preparing = preparing, !.waiting = waiting,
                              !.releasing = releasing]
           gen == plug.gen
           asked == [s \in Voice!Sends |-> [w.sends[s] EXCEPT !.at = "speech", !.gen = gen]]
           ss == [s \in Voice!Sends |->
                    CASE w.sends[s].at # "mixer" \/ w.sends[s].mixer # m -> w.sends[s]
                      [] ok -> [w.sends[s] EXCEPT !.at = "speech", !.gen = gen]
                      [] OTHER -> Voice!NoSend]
           u == [w EXCEPT !.plug = pl]
           base == [u EXCEPT !.sends = ss]
           prepared == IF gens = {} THEN base ELSE Voice!Prepared(base, Voice!Least(gens), ok)
           spoken == IF m \in w.plug.waiting THEN Voice!AutoSpeak(prepared) ELSE prepared
<1>1. plug \in Plugs /\ w.sends \in [Voice!Sends -> Speeches] /\ gen \in Voice!Gens  BY DEF Worlds, Plugs
<1>2. /\ promise \in 0 .. VoiceMixers /\ preparing \in SUBSET (Voice!Mixers \X Voice!Gens)
      /\ waiting \in SUBSET Voice!Mixers /\ releasing \in SUBSET Voice!Mixers
  BY <1>1, VoiceBounds DEF Plugs
<1>3. Voice!Settle(w, m, ok) = IF m \in w.plug.releasing /\ ok THEN Voice!Restore(spoken, m) ELSE spoken
  <2> DEFINE b == [w EXCEPT !.plug.promise = promise, !.plug.preparing = preparing, !.plug.waiting = waiting,
                            !.plug.releasing = releasing, !.sends = ss]
  <2>1. b = base  BY DEF Worlds
  <2> HIDE DEF base, promise, preparing, waiting, releasing, ss
  <2>2. b = [w EXCEPT !.plug.promise = IF @ = m THEN 0 ELSE @,
                      !.plug.preparing = {p \in @ : p[1] # m},
                      !.plug.waiting = @ \ {m},
                      !.plug.releasing = @ \ {m},
                      !.sends = ss]
    BY DEF Worlds, promise, preparing, waiting, releasing
  <2> HIDE DEF b
  <2> QED  BY <2>1, <2>2 DEF Voice!Settle, ss
<1>4. pl \in Plugs /\ pl.gen = plug.gen /\ pl.snap = plug.snap
  <2> HIDE DEF plug, promise, preparing, waiting, releasing
  <2> QED  BY <1>1, <1>2 DEF Plugs
<1>5. ss \in [Voice!Sends -> Speeches]
  <2>1. ASSUME NEW s \in Voice!Sends PROVE [w.sends[s] EXCEPT !.at = "speech", !.gen = gen] \in Speeches
    <3> DEFINE old == w.sends[s]
    <3>1. old \in Speeches  BY <1>1
    <3> HIDE DEF old, gen
    <3>2. [old EXCEPT !.at = "speech", !.gen = gen] \in Speeches  BY <1>1, <3>1 DEF Speeches
    <3> QED  BY <3>2 DEF old
  <2>2. \A s \in Voice!Sends : w.sends[s] \in Speeches  BY <1>1
  <2> QED  BY <2>1, <2>2, VoiceBounds
<1> HIDE DEF pl, ss, gens
<1>6. Kept(w, u) /\ u \in Worlds  BY <1>4, PlugKept DEF Kept
<1> HIDE DEF u
<1>7. Kept(w, base) /\ base \in Worlds  BY <1>5, <1>6, SendsKept, KeptTwice DEF Kept
<1> HIDE DEF base
<1>8. Kept(w, prepared) /\ prepared \in Worlds  BY <1>7, PreparedKept, KeptTwice DEF Kept
<1> HIDE DEF prepared
<1>9. Kept(w, spoken) /\ spoken \in Worlds  BY <1>8, AutoSpeakKept, KeptTwice DEF Kept
<1> HIDE DEF spoken
<1>10. Kept(w, Voice!Restore(spoken, m))  BY <1>9, RestoreKept, KeptTwice
<1> QED  BY <1>3, <1>9, <1>10

LEMMA MixerMoves ==
  ASSUME NEW w \in Worlds, NEW m \in Voice!Mixers, NEW at \in {"replace", "failed"}
  PROVE  /\ Kept(w, [w EXCEPT !.mixers[m].at = at])
         /\ Kept(w, [w EXCEPT !.mixers[m].at = "done", !.mixers[m].ready = TRUE])
<1> DEFINE old == w.mixers[m]
           x == [old EXCEPT !.at = at]
           y == [old EXCEPT !.at = "done", !.ready = TRUE]
           ms == [w.mixers EXCEPT ![m] = x]
           ns == [w.mixers EXCEPT ![m] = y]
<1>1. old \in MixerStates /\ w.mixers \in [Voice!Mixers -> MixerStates]  BY DEF Worlds
<1>2. /\ [w EXCEPT !.mixers[m].at = at] = [w EXCEPT !.mixers = ms]
      /\ [w EXCEPT !.mixers[m].at = "done", !.mixers[m].ready = TRUE] = [w EXCEPT !.mixers = ns]
  BY DEF Worlds
<1>3. x \in MixerStates /\ y \in MixerStates
  <2> HIDE DEF old
  <2> QED  BY <1>1 DEF MixerStates
<1> HIDE DEF x, y
<1>4. ms \in [Voice!Mixers -> MixerStates] /\ ns \in [Voice!Mixers -> MixerStates]  BY <1>1, <1>3
<1> HIDE DEF ms, ns
<1>5. Kept(w, [w EXCEPT !.mixers = ms])  BY <1>4, MixersKept
<1>6. Kept(w, [w EXCEPT !.mixers = ns])  BY <1>4, MixersKept
<1> QED  BY <1>2, <1>5, <1>6

LEMMA FailedKept == ASSUME NEW w \in Worlds, NEW m \in Voice!Mixers PROVE Kept(w, Voice!Failed(w, m))
<1> DEFINE d == Voice!Dispose(w, m)
           f == [d EXCEPT !.mixers[m].at = "failed"]
<1>1. m \in 0 .. VoiceMixers  BY VoiceBounds DEF Voice!Mixers
<1>2. Kept(w, d) /\ d \in Worlds  BY <1>1, DisposeKept DEF Kept
<1>3. Voice!Failed(w, m) = Voice!Settle(f, m, FALSE)  BY DEF Voice!Failed
<1> HIDE DEF d
<1>4. Kept(d, f) /\ f \in Worlds  BY <1>2, MixerMoves DEF Kept
<1> HIDE DEF f
<1>5. Kept(f, Voice!Settle(f, m, FALSE))  BY <1>4, SettleKept
<1> QED  BY <1>2, <1>3, <1>4, <1>5, KeptTwice

LEMMA TeardownIs ==
  ASSUME NEW w \in Worlds, w.plug.gen + 1 \in Voice!Gens
  PROVE  LET t == Voice!Teardown(w) IN
         t \in Worlds /\ t.muted = w.muted /\ t.plug.gen = w.plug.gen + 1 /\ t.plug.snap = "null"
         /\ Closings(t.chain) = Closings(w.chain)
<1> DEFINE silent == Voice!SilenceAll(w)
           mixer == w.plug.mixer
           quiet == Voice!Dispose(silent, mixer)
           plug == quiet.plug
           gen == plug.gen + 1
           p == [plug EXCEPT !.gen = gen, !.checked = FALSE, !.disabled = FALSE, !.ready = 0, !.snap = "null",
                             !.mixer = 0, !.promise = 0]
           t == [quiet EXCEPT !.plug = p]
<1>1. Kept(w, silent) /\ silent \in Worlds /\ mixer \in 0 .. VoiceMixers  BY StoppedKept DEF Kept, Worlds, Plugs
<1>2. Voice!Teardown(w) = t  BY DEF Voice!Teardown
<1> HIDE DEF silent, mixer
<1>3. Kept(w, quiet) /\ quiet \in Worlds  BY <1>1, DisposeKept, KeptTwice DEF Kept
<1> HIDE DEF quiet
<1>4. plug \in Plugs /\ plug.gen = w.plug.gen /\ gen \in Voice!Gens  BY <1>3 DEF Kept, Worlds
<1>5. gen = w.plug.gen + 1  BY <1>4
<1> HIDE DEF gen
<1>6. p \in Plugs /\ p.gen = gen /\ p.snap = "null"
  <2>1. 0 \in Voice!Gens /\ 0 \in 0 .. VoiceMixers  BY VoiceBounds
  <2> HIDE DEF plug
  <2> QED  BY <1>4, <2>1 DEF Plugs
<1> HIDE DEF p
<1>7. t \in Worlds /\ t.muted = quiet.muted /\ t.plug = p /\ t.chain = quiet.chain  BY <1>3, <1>6 DEF Worlds
<1> HIDE DEF t
<1> QED  BY <1>2, <1>3, <1>5, <1>6, <1>7 DEF Kept

\* Muting holds the choice of the control, and unmuting gives it back.
LEMMA SyncMutedIs ==
  ASSUME NEW w \in Worlds
  PROVE  LET t == Voice!SyncMuted(w) IN
         t \in Worlds /\ t.muted = w.muted /\ t.plug.gen = w.plug.gen /\ Closings(t.chain) = Closings(w.chain)
<1> DEFINE plug == w.plug
           snap == IF plug.snap = "null" THEN (IF plug.checked THEN "on" ELSE "off") ELSE plug.snap
           p == [plug EXCEPT !.snap = snap, !.checked = FALSE, !.disabled = TRUE, !.ready = 0]
           u == [w EXCEPT !.plug = p]
           s == Voice!SilenceAll(u)
<1>1. plug \in Plugs /\ snap \in {"null", "on", "off"}  BY DEF Worlds, Plugs
<1>2. u = [w EXCEPT !.plug.snap = IF @ = "null" THEN (IF w.plug.checked THEN "on" ELSE "off") ELSE @,
                    !.plug.checked = FALSE, !.plug.disabled = TRUE, !.plug.ready = 0]
  BY DEF Worlds
<1>3. Voice!SyncMuted(w) = Voice!Release(s)  BY <1>2 DEF Voice!SyncMuted
<1> HIDE DEF snap
<1>4. p \in Plugs /\ p.gen = plug.gen
  <2> HIDE DEF plug
  <2> QED  BY <1>1, VoiceBounds DEF Plugs
<1> HIDE DEF p
<1>5. u \in Worlds /\ u.muted = w.muted /\ u.plug.gen = w.plug.gen /\ u.chain = w.chain  BY <1>4 DEF Worlds
<1> HIDE DEF u
<1>6. Kept(u, s) /\ s \in Worlds  BY <1>5, StoppedKept DEF Kept
<1> HIDE DEF s
<1>7. Kept(u, Voice!Release(s))  BY <1>6, ReleaseKept, KeptTwice
<1> QED  BY <1>3, <1>5, <1>7 DEF Kept

LEMMA SyncUnmutedIs ==
  ASSUME NEW w \in Worlds, w.plug.snap # "null" => Voice!MayInstall(w)
  PROVE  LET t == Voice!SyncUnmuted(w) IN
         t \in Worlds /\ t.muted = w.muted /\ t.plug.gen = w.plug.gen /\ t.plug.snap = "null"
         /\ Closings(t.chain) = Closings(w.chain)
<1> DEFINE plug == w.plug
           checked == IF plug.snap = "null" THEN plug.checked ELSE plug.snap = "on"
           p == [plug EXCEPT !.checked = checked, !.snap = "null", !.disabled = FALSE]
           u == [w EXCEPT !.plug = p]
<1>1. plug \in Plugs /\ checked \in BOOLEAN  BY DEF Worlds, Plugs
<1>2. u = [w EXCEPT !.plug.checked = IF w.plug.snap = "null" THEN @ ELSE w.plug.snap = "on",
                    !.plug.snap = "null", !.plug.disabled = FALSE]
  BY DEF Worlds
<1>3. Voice!SyncUnmuted(w) = (IF plug.snap = "on" /\ v1 THEN Voice!BeginAutoRead(u) ELSE u)
  BY <1>2 DEF Voice!SyncUnmuted
<1> HIDE DEF checked
<1>4. p \in Plugs /\ p.gen = plug.gen /\ p.snap = "null" /\ p.mixer = plug.mixer /\ p.promise = plug.promise
  <2> HIDE DEF plug
  <2> QED  BY <1>1 DEF Plugs
<1> HIDE DEF p
<1>5. u \in Worlds /\ u.muted = w.muted /\ u.plug = p /\ u.mixers = w.mixers /\ u.chain = w.chain
  BY <1>4 DEF Worlds
<1> HIDE DEF u
<1>6. CASE plug.snap = "on" /\ v1
  <2>1. Voice!MayInstall(u)  BY <1>4, <1>5, <1>6 DEF Voice!MayInstall, Voice!Usable, Voice!Unused
  <2>2. Kept(u, Voice!BeginAutoRead(u))  BY <1>5, <2>1, BeginAutoReadKept
  <2> QED  BY <1>3, <1>4, <1>5, <1>6, <2>2 DEF Kept
<1>7. CASE ~(plug.snap = "on" /\ v1)  BY <1>3, <1>4, <1>5, <1>7
<1> QED  BY <1>6, <1>7

\* What a step must leave for the types to hold after it.
LEMMA VoiceBecomes ==
  ASSUME NEW w \in Worlds, Voice!Become(w), v1' \in BOOLEAN, ~w.muted => w.plug.snap = "null",
         w.plug.gen + Cardinality(Closings(w.chain)) + (IF v1' THEN 1 ELSE 0) <= VoiceGens + VoiceOps
  PROVE  VoiceTyped'
<1>1. /\ v2' = w.muted /\ v3' = w.plug /\ v4' = w.mixers /\ v5' = w.sends /\ v6' = w.sender /\ v7' = w.chain
  BY DEF Voice!Become
<1>2. w = [muted |-> w.muted, plug |-> w.plug, mixers |-> w.mixers, sends |-> w.sends, sender |-> w.sender,
           chain |-> w.chain]
  BY DEF Worlds
<1>3. (Voice!World)' = w  BY <1>1, <1>2 DEF Voice!World
<1>4. Closings(v7') = Closings(w.chain)  BY <1>1
<1> QED  BY <1>1, <1>3, <1>4 DEF VoiceTyped

LEMMA VoiceWorldIs ==
  ASSUME VoiceTyped
  PROVE  LET w == Voice!World IN
         /\ w \in Worlds /\ w.muted = v2 /\ w.plug = v3 /\ w.mixers = v4 /\ w.sends = v5 /\ w.sender = v6
         /\ w.chain = v7 /\ v7 \in Seq(TrackOps) /\ v3 \in Plugs /\ v3.gen \in Nat
         /\ (~w.muted => w.plug.snap = "null")
         /\ w.plug.gen + Cardinality(Closings(w.chain)) + (IF v1 THEN 1 ELSE 0) <= VoiceGens + VoiceOps
<1>1. /\ Voice!World.muted = v2 /\ Voice!World.plug = v3 /\ Voice!World.mixers = v4 /\ Voice!World.sends = v5
      /\ Voice!World.sender = v6 /\ Voice!World.chain = v7
  BY DEF Voice!World
<1>2. Voice!World \in Worlds  BY DEF VoiceTyped
<1>3. v7 \in Seq(TrackOps) /\ v3 \in Plugs  BY <1>1, <1>2 DEF Worlds
<1>4. v3.gen \in Nat  BY <1>3, VoiceBounds DEF Plugs
<1> QED  BY <1>1, <1>2, <1>3, <1>4 DEF VoiceTyped

LEMMA KeptStep ==
  ASSUME VoiceTyped, NEW w, Kept(Voice!World, w), Voice!Become(w), v1' = v1
  PROVE  VoiceTyped'
<1> DEFINE old == Voice!World
<1>1. /\ old.muted = v2 /\ old.plug = v3 /\ old.chain = v7 /\ v1 \in BOOLEAN
      /\ (~old.muted => old.plug.snap = "null")
      /\ old.plug.gen + Cardinality(Closings(old.chain)) + (IF v1 THEN 1 ELSE 0) <= VoiceGens + VoiceOps
  BY VoiceWorldIs DEF VoiceTyped
<1>2. w \in Worlds /\ w.muted = old.muted /\ w.plug.gen = old.plug.gen /\ w.plug.snap = old.plug.snap
      /\ Closings(w.chain) = Closings(old.chain)
  BY DEF Kept
<1> HIDE DEF old
<1> QED  BY <1>1, <1>2, VoiceBecomes

LEMMA ContextTypes ==
  ASSUME VoiceTyped, NEW m \in Voice!Mixers, Voice!ContextResumed(m) \/ Voice!ContextRefused(m)
  PROVE  VoiceTyped'
<1> DEFINE old == Voice!World
           r == [old EXCEPT !.mixers[m].at = "replace"]
           t == Voice!ReplaceTrack(r, m, m, "ready")
<1>1. old \in Worlds  BY VoiceWorldIs
<1>2. Voice!Become(t) \/ Voice!Become(Voice!Failed(old, m))
  BY DEF Voice!ContextResumed, Voice!ContextRefused
<1>3. v1' = v1  BY DEF Voice!ContextResumed, Voice!ContextRefused
<1>4. Kept(old, Voice!Failed(old, m))
  <2> HIDE DEF old
  <2> QED  BY <1>1, FailedKept
<1>5. Kept(old, t)
  <2> HIDE DEF old
  <2>1. Kept(old, r) /\ r \in Worlds  BY <1>1, MixerMoves DEF Kept
  <2> HIDE DEF r
  <2>2. m \in 0 .. VoiceMixers  BY VoiceBounds DEF Voice!Mixers
  <2>3. Kept(r, t)  BY <2>1, <2>2, ReplaceTrackKept
  <2> QED  BY <2>1, <2>3, KeptTwice
<1> HIDE DEF t
<1> QED  BY <1>2, <1>3, <1>4, <1>5, KeptStep

LEMMA TrackTypes == ASSUME VoiceTyped, Voice!TrackReplaced \/ Voice!TrackRefused PROVE VoiceTyped'
<1> DEFINE old == Voice!World
           op == Head(v7)
           rest == Tail(v7)
           count == Cardinality(Closings(v7))
           left == Cardinality(Closings(rest))
           on == IF v1 THEN 1 ELSE 0
<1>1. /\ v7 # <<>> /\ v1' = v1 /\ v1 \in BOOLEAN
  BY DEF Voice!TrackReplaced, Voice!TrackRefused, VoiceTyped
<1>2. /\ old \in Worlds /\ old.muted = v2 /\ old.plug = v3 /\ old.chain = v7 /\ v7 \in Seq(TrackOps) /\ v3.gen \in Nat
      /\ (~v2 => v3.snap = "null") /\ v3.gen + count + on <= VoiceGens + VoiceOps
  BY VoiceWorldIs
<1>3. /\ op \in TrackOps /\ rest \in Seq(TrackOps) /\ left <= count /\ (op.after = "close" => left + 1 <= count)
  BY <1>1, <1>2, ClosingsSettled
<1>4. left \in Nat /\ count \in Nat /\ on \in {0, 1}  BY <1>2, <1>3, ClosingsCounted
<1>5. op.mixer \in Voice!Mixers /\ op.mixer \in 0 .. VoiceMixers /\ op.track \in 0 .. VoiceMixers
      /\ op.after \in {"ready", "dispose", "close"}
  BY <1>3, VoiceBounds DEF TrackOps, Voice!Mixers
<1>6. ASSUME NEW w \in Worlds, w.muted = v2, w.plug = v3, w.chain = rest, NEW t, Kept(w, t), Voice!Become(t)
      PROVE  VoiceTyped'
  <2>1. t \in Worlds /\ t.muted = v2 /\ t.plug.gen = v3.gen /\ t.plug.snap = v3.snap
        /\ Cardinality(Closings(t.chain)) = left
    BY <1>6 DEF Kept
  <2> HIDE DEF count, left, on
  <2>2. t.plug.gen + Cardinality(Closings(t.chain)) + on <= VoiceGens + VoiceOps
    BY <1>2, <1>3, <1>4, <2>1, VoiceBounds
  <2> QED  BY <1>1, <1>2, <1>6, <2>1, <2>2, VoiceBecomes DEF on
<1>7. CASE Voice!TrackReplaced
  <2> DEFINE track == op.track
             w == [old EXCEPT !.sender = track, !.chain = rest]
             d == [w EXCEPT !.mixers[op.mixer].at = "done", !.mixers[op.mixer].ready = TRUE]
  <2>1. w \in Worlds /\ w.muted = v2 /\ w.plug = v3 /\ w.chain = rest
    <3> HIDE DEF old, rest, op
    <3> QED  BY <1>2, <1>3, <1>5 DEF Worlds
  <2>2. w = [old EXCEPT !.sender = op.track, !.chain = Tail(@)]
    <3> HIDE DEF old, op
    <3> QED  BY <1>2 DEF Worlds
  <2>3. /\ op.after = "ready" => Voice!Become(Voice!Settle(d, op.mixer, TRUE))
        /\ op.after = "dispose" => Voice!Become(Voice!Dispose(w, op.mixer))
        /\ op.after = "close" => Voice!Become(Voice!Teardown(w))
    <3> HIDE DEF w
    <3> QED  BY <1>5, <1>7, <2>2 DEF Voice!TrackReplaced
  <2> HIDE DEF w
  <2>4. CASE op.after = "ready"
    <3> HIDE DEF op
    <3>1. Kept(w, d) /\ d \in Worlds  BY <1>5, <2>1, MixerMoves DEF Kept
    <3> HIDE DEF d
    <3>2. Kept(w, Voice!Settle(d, op.mixer, TRUE))  BY <1>5, <3>1, SettleKept, KeptTwice
    <3> QED  BY <1>6, <2>1, <2>3, <2>4, <3>2
  <2>5. CASE op.after = "dispose"
    <3>1. Kept(w, Voice!Dispose(w, op.mixer))  BY <1>5, <2>1, DisposeKept
    <3> QED  BY <1>6, <2>1, <2>3, <2>5, <3>1
  <2>6. CASE op.after = "close"
    <3> DEFINE t == Voice!Teardown(w)
    <3>1. left + 1 <= count  BY <1>3, <2>6
    <3> HIDE DEF count, left, on
    <3>2. v3.gen + 1 + left + on <= VoiceGens + VoiceOps  BY <1>2, <1>4, <3>1, VoiceBounds
    <3>3. v3.gen + 1 \in Voice!Gens  BY SMTT(30), <1>2, <1>4, <3>2, VoiceBounds DEF Voice!Gens
    <3>4. t \in Worlds /\ t.muted = v2 /\ t.plug.gen = v3.gen + 1 /\ t.plug.snap = "null"
          /\ Closings(t.chain) = Closings(rest)
      BY <2>1, <3>3, TeardownIs
    <3>5. Voice!Become(t)  BY <2>3, <2>6
    <3> HIDE DEF t
    <3>6. t.plug.gen + Cardinality(Closings(t.chain)) + on <= VoiceGens + VoiceOps  BY <3>2, <3>4 DEF left
    <3> QED  BY <1>1, <3>4, <3>5, <3>6, VoiceBecomes DEF on
  <2> QED  BY <1>5, <2>4, <2>5, <2>6
<1>8. CASE Voice!TrackRefused
  <2> DEFINE w == [old EXCEPT !.chain = rest]
  <2>1. w \in Worlds /\ w.muted = v2 /\ w.plug = v3 /\ w.chain = rest
    <3> HIDE DEF old, rest, op
    <3> QED  BY <1>2, <1>3, <1>5 DEF Worlds
  <2>2. w = [old EXCEPT !.chain = Tail(@)]
    <3> HIDE DEF old
    <3> QED  BY <1>2 DEF Worlds
  <2>3. Voice!Become(Voice!Failed(w, op.mixer)) \/ Voice!Become(w)
    <3> HIDE DEF w
    <3> QED  BY <1>8, <2>2 DEF Voice!TrackRefused
  <2> HIDE DEF w
  <2>4. Kept(w, w)  BY <2>1 DEF Kept
  <2>5. Kept(w, Voice!Failed(w, op.mixer))  BY <1>5, <2>1, FailedKept
  <2> QED  BY <1>6, <2>1, <2>3, <2>4, <2>5
<1> QED  BY <1>7, <1>8

LEMMA EndTypes == ASSUME VoiceTyped, Voice!ClosePanel \/ Voice!CallEnds PROVE VoiceTyped'
<1> DEFINE old == Voice!World
           count == Cardinality(Closings(v7))
           t == Voice!Teardown(old)
<1>1. /\ old \in Worlds /\ old.muted = v2 /\ old.plug = v3 /\ old.chain = v7 /\ v7 \in Seq(TrackOps) /\ v3.gen \in Nat
      /\ (~v2 => v3.snap = "null") /\ v3.gen + count + (IF v1 THEN 1 ELSE 0) <= VoiceGens + VoiceOps
      /\ v3 \in Plugs
  BY VoiceWorldIs
<1>2. v1 /\ count \in Nat /\ count <= Len(v7) /\ IsFiniteSet(Closings(v7)) /\ Len(v7) \in Nat
  BY <1>1, ClosingsCounted DEF Voice!ClosePanel, Voice!CallEnds
<1>3. v3.gen + count + 1 <= VoiceGens + VoiceOps  BY <1>1, <1>2
<1>4. v3.gen + 1 \in Voice!Gens
  <2> HIDE DEF count
  <2> QED  BY <1>1, <1>2, <1>3, VoiceBounds DEF Voice!Gens
<1>5. t \in Worlds /\ t.muted = v2 /\ t.plug.gen = v3.gen + 1 /\ t.plug.snap = "null" /\ Closings(t.chain) = Closings(v7)
  <2> HIDE DEF old
  <2> QED  BY <1>1, <1>4, TeardownIs
<1>6. CASE Voice!CallEnds
  <2> DEFINE w == [t EXCEPT !.chain = <<>>]
  <2>1. Voice!Become(w) /\ v1' = FALSE  BY <1>6 DEF Voice!CallEnds
  <2> HIDE DEF t
  <2>2. w \in Worlds /\ w.muted = v2 /\ w.plug = t.plug /\ w.chain = <<>>
    <3> DEFINE none == <<>>
    <3>1. none \in Seq(TrackOps) /\ w = [t EXCEPT !.chain = none]  OBVIOUS
    <3>2. none = <<>>  OBVIOUS
    <3> HIDE DEF w, none
    <3> QED  BY <1>5, <3>1, <3>2 DEF Worlds
  <2> HIDE DEF w
  <2>3. Closings(w.chain) = {}  BY <2>2 DEF Closings
  <2>4. Cardinality(Closings(w.chain)) = 0  BY <2>3, FS_EmptySet
  <2>5. w.plug.gen + Cardinality(Closings(w.chain)) + (IF v1' THEN 1 ELSE 0) <= VoiceGens + VoiceOps
    <3> HIDE DEF count
    <3> QED  BY <1>1, <1>2, <1>3, <1>5, <2>1, <2>2, <2>4, VoiceBounds
  <2> QED  BY <1>5, <2>1, <2>2, <2>5, VoiceBecomes
<1>7. CASE Voice!ClosePanel /\ v3.mixer = 0
  <2>1. Voice!Become(t) /\ v1' = v1 /\ v3.gen < VoiceGens /\ Len(v7) < VoiceOps  BY <1>7 DEF Voice!ClosePanel
  <2> HIDE DEF t
  <2>2. Cardinality(Closings(t.chain)) = count  BY <1>5
  <2> HIDE DEF count
  <2>3. t.plug.gen + Cardinality(Closings(t.chain)) + (IF v1' THEN 1 ELSE 0) <= VoiceGens + VoiceOps
    BY <1>1, <1>2, <1>5, <2>1, <2>2, VoiceBounds
  <2> QED  BY <1>2, <1>5, <2>1, <2>3, VoiceBecomes
<1>8. CASE Voice!ClosePanel /\ v3.mixer # 0
  <2> DEFINE mixer == v3.mixer
             op == [track |-> 0, mixer |-> mixer, after |-> "close"]
             c == Append(v7, op)
             w == [old EXCEPT !.chain = c]
  <2>1. Voice!ReplaceTrack(old, 0, mixer, "close") = w
    <3> HIDE DEF old
    <3> QED  BY <1>1 DEF Voice!ReplaceTrack, Worlds
  <2>2. Voice!Become(w) /\ v1' = v1 /\ v3.gen < VoiceGens /\ Len(v7) < VoiceOps
    <3> HIDE DEF w
    <3> QED  BY <1>8, <2>1 DEF Voice!ClosePanel
  <2>3. mixer \in Voice!Mixers  BY <1>1, <1>8, VoiceBounds DEF Plugs, Voice!Mixers
  <2>4. op \in TrackOps /\ op.after = "close"  BY <2>3, VoiceBounds DEF TrackOps
  <2> HIDE DEF op
  <2>5. c \in Seq(TrackOps) /\ Closings(c) = Closings(v7) \cup {Len(v7) + 1}  BY <1>1, <2>4, ClosingsAppended
  <2>6. Len(v7) + 1 \notin Closings(v7)  BY <1>2 DEF Closings
  <2>7. Cardinality(Closings(c)) = count + 1  BY <1>2, <2>5, <2>6, FS_AddElement
  <2> HIDE DEF c, old
  <2>8. w \in Worlds /\ w.muted = v2 /\ w.plug = v3 /\ w.chain = c  BY <1>1, <2>5 DEF Worlds
  <2> HIDE DEF w, count
  <2>9. w.plug.gen + Cardinality(Closings(w.chain)) + (IF v1' THEN 1 ELSE 0) <= VoiceGens + VoiceOps
    BY <1>1, <1>2, <2>2, <2>7, <2>8, VoiceBounds
  <2> QED  BY <1>1, <1>2, <2>2, <2>8, <2>9, VoiceBecomes
<1> QED  BY <1>6, <1>7, <1>8

LEMMA MuteTypes == ASSUME VoiceTyped, Voice!Mute \/ Voice!Unmute PROVE VoiceTyped'
<1> DEFINE old == Voice!World
           on == [old EXCEPT !.muted = TRUE]
           off == [old EXCEPT !.muted = FALSE]
           count == Cardinality(Closings(v7))
           live == IF v1 THEN 1 ELSE 0
<1>1. /\ old \in Worlds /\ old.plug = v3 /\ old.mixers = v4 /\ old.chain = v7 /\ v3.gen + count + live <= VoiceGens + VoiceOps
      /\ v1 \in BOOLEAN
  BY VoiceWorldIs DEF VoiceTyped
<1>2. /\ Voice!Mute => Voice!Become(Voice!SyncMuted(on))
      /\ Voice!Unmute => Voice!Become(Voice!SyncUnmuted(off)) /\ Voice!MayInstall(old)
      /\ v1' = v1
  BY DEF Voice!Mute, Voice!Unmute
<1> HIDE DEF old
<1>3. /\ on \in Worlds /\ on.muted /\ on.plug = v3 /\ on.chain = v7
      /\ off \in Worlds /\ ~off.muted /\ off.plug = v3 /\ off.chain = v7 /\ off.mixers = v4
  BY <1>1 DEF Worlds
<1> HIDE DEF on, off
<1>4. CASE Voice!Mute
  <2> DEFINE t == Voice!SyncMuted(on)
  <2>1. t \in Worlds /\ t.muted /\ t.plug.gen = v3.gen /\ Closings(t.chain) = Closings(v7)
    BY <1>3, SyncMutedIs
  <2>2. Voice!Become(t)  BY <1>2, <1>4
  <2> HIDE DEF t
  <2> QED  BY <1>1, <1>2, <2>1, <2>2, VoiceBecomes
<1>5. CASE Voice!Unmute
  <2> DEFINE t == Voice!SyncUnmuted(off)
  <2>1. Voice!MayInstall(off)  BY <1>1, <1>2, <1>3, <1>5 DEF Voice!MayInstall, Voice!Usable, Voice!Unused
  <2>2. t \in Worlds /\ t.plug.gen = v3.gen /\ t.plug.snap = "null" /\ Closings(t.chain) = Closings(v7)
    BY <1>3, <2>1, SyncUnmutedIs
  <2>3. Voice!Become(t)  BY <1>2, <1>5
  <2> HIDE DEF t
  <2> QED  BY <1>1, <1>2, <2>2, <2>3, VoiceBecomes
<1> QED  BY <1>4, <1>5

LEMMA ControlTypes == ASSUME VoiceTyped, Voice!Check \/ Voice!Uncheck PROVE VoiceTyped'
<1> DEFINE old == Voice!World
           plug == v3
           p == [plug EXCEPT !.checked = TRUE]
           q == [plug EXCEPT !.checked = FALSE, !.ready = 0]
           u == [old EXCEPT !.plug = p]
           z == [old EXCEPT !.plug = q]
<1>1. old \in Worlds /\ old.plug = plug /\ plug \in Plugs /\ old.mixers = v4  BY VoiceWorldIs
<1>2. /\ u = [old EXCEPT !.plug.checked = TRUE]
      /\ z = [old EXCEPT !.plug.checked = FALSE, !.plug.ready = 0]
  <2> HIDE DEF old
  <2> QED  BY <1>1 DEF Worlds
<1>3. /\ Voice!Check => Voice!Become(Voice!BeginAutoRead(u)) /\ Voice!MayInstall(old)
      /\ Voice!Uncheck => Voice!Become(Voice!Release(Voice!StopOutboundTts(Voice!AbortAutoReadWork(z))))
      /\ v1' = v1
  BY <1>2 DEF Voice!Check, Voice!Uncheck
<1>4. /\ p \in Plugs /\ p.gen = plug.gen /\ p.snap = plug.snap /\ p.mixer = plug.mixer /\ p.promise = plug.promise
      /\ q \in Plugs /\ q.gen = plug.gen /\ q.snap = plug.snap
  <2>1. 0 \in Voice!Gens  BY VoiceBounds
  <2> HIDE DEF plug
  <2> QED  BY <1>1, <2>1 DEF Plugs
<1> HIDE DEF old, p, q
<1>5. Kept(old, u) /\ u \in Worlds /\ u.plug = p /\ u.mixers = v4  BY <1>1, <1>4, PlugKept DEF Kept
<1>6. Kept(old, z) /\ z \in Worlds  BY <1>1, <1>4, PlugKept DEF Kept
<1> HIDE DEF u, z
<1>7. CASE Voice!Check
  <2>1. Voice!MayInstall(u)  BY <1>1, <1>3, <1>4, <1>5, <1>7 DEF Voice!MayInstall, Voice!Usable, Voice!Unused
  <2>2. Kept(old, Voice!BeginAutoRead(u))  BY <1>5, <2>1, BeginAutoReadKept, KeptTwice
  <2> QED  BY <1>3, <1>7, <2>2, KeptStep DEF old
<1>8. CASE Voice!Uncheck
  <2> DEFINE a == Voice!AbortAutoReadWork(z)
             b == Voice!StopOutboundTts(a)
  <2>1. Kept(old, a) /\ a \in Worlds  BY <1>6, StoppedKept, KeptTwice DEF Kept
  <2> HIDE DEF a
  <2>2. Kept(old, b) /\ b \in Worlds  BY <2>1, StoppedKept, KeptTwice DEF Kept
  <2> HIDE DEF b
  <2>3. Kept(old, Voice!Release(b))  BY <2>2, ReleaseKept, KeptTwice
  <2> QED  BY <1>3, <1>8, <2>3, KeptStep DEF old, a, b
<1> QED  BY <1>7, <1>8

LEMMA TranslatedTypes == ASSUME VoiceTyped, Voice!Translated PROVE VoiceTyped'
<1> DEFINE old == Voice!World
           w == IF v2 THEN Voice!SyncMuted(old) ELSE Voice!SyncUnmuted(old)
           awaited == {p[1] : p \in w.plug.preparing}
           plug == w.plug
           waiting == plug.waiting \cup awaited
           p == [plug EXCEPT !.waiting = waiting]
           t == [w EXCEPT !.plug = p]
<1>1. /\ old \in Worlds /\ old.muted = v2 /\ old.plug = v3 /\ old.chain = v7 /\ (~v2 => v3.snap = "null")
      /\ v3.gen + Cardinality(Closings(v7)) + (IF v1 THEN 1 ELSE 0) <= VoiceGens + VoiceOps /\ v1 \in BOOLEAN
  BY VoiceWorldIs DEF VoiceTyped
<1>2. /\ w \in Worlds /\ w.muted = v2 /\ w.plug.gen = v3.gen /\ (~v2 => w.plug.snap = "null")
      /\ Closings(w.chain) = Closings(v7)
  <2> HIDE DEF old
  <2>1. CASE v2  BY <1>1, <2>1, SyncMutedIs
  <2>2. CASE ~v2  BY <1>1, <2>2, SyncUnmutedIs
  <2> QED  BY <2>1, <2>2
<1>3. /\ v1' = v1
      /\ \/ Voice!Become(w)
         \/ Voice!Become([w EXCEPT !.plug.waiting = @ \cup awaited])
         \/ Voice!Become(Voice!AutoSpeak(w))
  BY DEF Voice!Translated
<1> HIDE DEF w
<1>4. t = [w EXCEPT !.plug.waiting = @ \cup awaited]  BY <1>2 DEF Worlds
<1>5. ASSUME NEW x, Kept(w, x), Voice!Become(x) PROVE VoiceTyped'
  <2>1. x \in Worlds /\ x.muted = v2 /\ x.plug.gen = v3.gen /\ (~v2 => x.plug.snap = "null")
        /\ Closings(x.chain) = Closings(v7)
    BY <1>2, <1>5 DEF Kept
  <2> QED  BY <1>1, <1>3, <1>5, <2>1, VoiceBecomes
<1>6. Kept(w, w)  BY <1>2 DEF Kept
<1>7. Kept(w, Voice!AutoSpeak(w))  BY <1>2, AutoSpeakKept
<1>8. Kept(w, t)
  <2>1. plug \in Plugs /\ plug.preparing \subseteq Voice!Mixers \X Voice!Gens  BY <1>2 DEF Worlds, Plugs
  <2>2. awaited \in SUBSET Voice!Mixers  BY <2>1
  <2> HIDE DEF awaited
  <2>3. waiting \in SUBSET Voice!Mixers  BY <2>1, <2>2 DEF Plugs
  <2> HIDE DEF waiting
  <2>4. p \in Plugs /\ p.gen = plug.gen /\ p.snap = plug.snap
    <3> HIDE DEF plug
    <3> QED  BY <2>1, <2>3 DEF Plugs
  <2> HIDE DEF p
  <2> QED  BY <1>2, <2>4, PlugKept
<1> HIDE DEF t
<1> QED  BY <1>3, <1>4, <1>5, <1>6, <1>7, <1>8

LEMMA SendClickedTypes == ASSUME VoiceTyped, Voice!SendClicked PROVE VoiceTyped'
<1> DEFINE old == Voice!World
           w == Voice!Install(old)
           s == Voice!Least(Voice!FreeSends(old))
           r == IF Voice!Usable(w) THEN [at |-> "speech", auto |-> FALSE, mixer |-> w.plug.mixer, gen |-> w.plug.gen]
                ELSE [at |-> "mixer", auto |-> FALSE, mixer |-> w.plug.promise, gen |-> 0]
           ss == [w.sends EXCEPT ![s] = r]
           t == [w EXCEPT !.sends = ss]
<1>1. old \in Worlds  BY VoiceWorldIs
<1>2. Voice!MayInstall(old) /\ v1' = v1 /\ Voice!Become([w EXCEPT !.sends[s] = r])  BY DEF Voice!SendClicked
<1>3. Kept(old, w) /\ w \in Worlds
  <2> HIDE DEF old
  <2> QED  BY <1>1, <1>2, InstallKept DEF Kept
<1> HIDE DEF w, s
<1>4. r \in Speeches  BY <1>3, VoiceBounds DEF Worlds, Plugs, Speeches
<1> HIDE DEF r
<1>5. ss \in [Voice!Sends -> Speeches]  BY <1>3, <1>4 DEF Worlds
<1>6. t = [w EXCEPT !.sends[s] = r]  BY <1>3 DEF Worlds
<1> HIDE DEF ss
<1>7. Kept(w, t)  BY <1>3, <1>5, SendsKept
<1> HIDE DEF t
<1>8. Kept(old, t)  BY <1>3, <1>7, KeptTwice
<1> QED  BY <1>2, <1>6, <1>8, KeptStep DEF old

LEMMA SpeechTypes ==
  ASSUME VoiceTyped, NEW s \in Voice!Sends,
         Voice!SpeechAsked(s) \/ Voice!SpeechArrives(s) \/ Voice!SpeechPlays(s) \/ Voice!SpeechOver(s)
  PROVE  VoiceTyped'
<1> DEFINE old == Voice!World
           say == v5[s]
           gen == v3.gen
<1>1. old \in Worlds /\ old.sends = v5 /\ v3 \in Plugs  BY VoiceWorldIs
<1>2. v5 \in [Voice!Sends -> Speeches] /\ say \in Speeches /\ gen \in Voice!Gens /\ Voice!NoSend \in Speeches
  BY <1>1, VoiceBounds DEF Worlds, Plugs
<1>3. /\ [say EXCEPT !.at = "speech", !.gen = gen] \in Speeches
      /\ [say EXCEPT !.at = "decode"] \in Speeches /\ [say EXCEPT !.at = "playing"] \in Speeches
  <2> HIDE DEF say, gen
  <2> QED  BY <1>2 DEF Speeches
<1>4. PICK next \in Speeches : Voice!Sent(s, next)
  BY <1>2, <1>3 DEF Voice!SpeechAsked, Voice!SpeechArrives, Voice!SpeechPlays, Voice!SpeechOver
<1> DEFINE ss == [v5 EXCEPT ![s] = next]
           t == [old EXCEPT !.sends = ss]
<1>5. ss \in [Voice!Sends -> Speeches]  BY <1>2, <1>4
<1>6. v5' = ss /\ UNCHANGED <<v1, v2, v3, v4, v6, v7>>  BY <1>4 DEF Voice!Sent
<1> HIDE DEF ss
<1>7. Voice!Become(t)  BY <1>6 DEF Voice!Become, Voice!World
<1>8. Kept(old, t)
  <2> HIDE DEF old
  <2> QED  BY <1>1, <1>5, SendsKept
<1> QED  BY <1>6, <1>7, <1>8, KeptStep

LEMMA VoiceStartsTyped == Voice!Init => VoiceTyped
<1> SUFFICES ASSUME Voice!Init PROVE VoiceTyped  OBVIOUS
<1>1. /\ v1 = TRUE /\ v2 = FALSE /\ v3 = Voice!Idle /\ v4 = [m \in Voice!Mixers |-> Voice!NoMixer]
      /\ v5 = [s \in Voice!Sends |-> Voice!NoSend] /\ v6 = 0 /\ v7 = <<>>
  BY DEF Voice!Init
<1>2. v3 \in Plugs /\ v4 \in [Voice!Mixers -> MixerStates] /\ v5 \in [Voice!Sends -> Speeches] /\ v7 \in Seq(TrackOps)
      /\ v6 \in 0 .. VoiceMixers
  BY <1>1, VoiceBounds
<1>3. Voice!World \in Worlds  BY <1>1, <1>2 DEF Voice!World, Worlds
<1>4. v3.gen = 1 /\ v3.snap = "null"  BY <1>1 DEF Voice!Idle
<1>5. Closings(v7) = {}  BY <1>1 DEF Closings
<1>6. Cardinality(Closings(v7)) = 0  BY <1>5, FS_EmptySet
<1> QED  BY <1>1, <1>3, <1>4, <1>6, VoiceBounds DEF VoiceTyped

LEMMA VoiceStaysTyped == ASSUME VoiceTyped, [Voice!Next]_Voice!vars PROVE VoiceTyped'
<1>1. CASE UNCHANGED Voice!vars
  <2>1. UNCHANGED <<v1, v2, v3, v4, v5, v6, v7>>  BY <1>1 DEF Voice!vars
  <2> QED  BY <2>1 DEF VoiceTyped, Voice!World
<1>2. CASE Voice!Next
  BY <1>2, ContextTypes, TrackTypes, EndTypes, MuteTypes, ControlTypes, TranslatedTypes, SendClickedTypes, SpeechTypes
  DEF Voice!Next
<1> QED  BY <1>1, <1>2

LEMMA VoiceTypes == ASSUME VoiceTyped PROVE Voice!TypeOK
<1>1. /\ v1 \in BOOLEAN /\ v2 \in BOOLEAN /\ v3 \in Plugs /\ v4 \in [Voice!Mixers -> MixerStates]
      /\ v5 \in [Voice!Sends -> Speeches] /\ v6 \in 0 .. VoiceMixers /\ v7 \in Seq(TrackOps)
  BY DEF VoiceTyped, Voice!World, Worlds
<1> QED  BY <1>1 DEF Voice!TypeOK, Plugs, MixerStates, Speeches, TrackOps

VoiceTypesPart == which = "voice" => VoiceTyped

LEMMA VoiceTypesStart == Init => VoiceTypesPart
  BY VoiceStartsTyped DEF Init, VoiceTypesPart

LEMMA VoiceTypesStep == VoiceTypesPart /\ [Next]_vars => VoiceTypesPart'
<1> SUFFICES ASSUME VoiceTypesPart, [Next]_vars PROVE VoiceTypesPart'
  OBVIOUS
<1>1. CASE which = "voice"
  <2>1. [Voice!Next]_Voice!vars  BY <1>1 DEF Next, vars, Step, Voice!vars
  <2>2. which' = "voice"  BY <1>1 DEF Next, vars, Step
  <2> QED  BY <1>1, <2>1, <2>2, VoiceStaysTyped DEF VoiceTypesPart
<1>2. CASE which # "voice"  BY <1>2 DEF Next, vars, Step, VoiceTypesPart
<1> QED  BY <1>1, <1>2

-----------------------------------------------------------------------------
(* The event stream.  v1 is the log's length, v2 the cursor saved, v3 the loads of the page, *)
(* v4 the events some load has taken, v5 the page. *)

USE DEF Events!Events

\* Every event up to n was taken.
LogCovered(n) == \A e \in Events!Events : e <= n => e \in v4

\* What a page knows of the log, were s its state.
SyncKnows(s) ==
  /\ s.seen \subseteq v4
  /\ LogCovered(s.cursor) /\ LogCovered(s.position) /\ LogCovered(s.after)

EventsInv == Events!TypeOK /\ LogCovered(v2) /\ SyncKnows(v5)

\* A handler that leaves the page's knowledge alone, or sets the stream to the cursor.
SyncFollows(s, t) ==
  /\ t \in Events!Page
  /\ t.cursor = s.cursor /\ t.after = s.after /\ t.seen = s.seen
  /\ t.position \in {s.position, s.cursor}

-----------------------------------------------------------------------------
(* The handlers *)

LEMMA NewPageKnows ==
    ASSUME NEW c \in 0 .. MaxEvents, Events!EventsAssumption, LogCovered(c)
    PROVE  Events!NewPage(c) \in Events!Page /\ SyncKnows(Events!NewPage(c))
  <1>1. LogCovered(0)
    BY DEF LogCovered
  <1> QED BY <1>1 DEF Events!NewPage, Events!Page, SyncKnows, Events!EventsAssumption

LEMMA ClearReconnectFollows ==
    ASSUME NEW s \in Events!Page PROVE SyncFollows(s, Events!ClearReconnect(s))
  BY DEF Events!ClearReconnect, SyncFollows, Events!Page

LEMMA StartStreamFollows ==
    ASSUME NEW s \in Events!Page PROVE SyncFollows(s, Events!StartStream(s))
  <1>1. SyncFollows(s, Events!ClearReconnect(s))
    BY ClearReconnectFollows
  <1>2. CASE s.source # "none" \/ s.expired
    BY <1>2 DEF Events!StartStream, SyncFollows
  <1>3. CASE ~(s.source # "none" \/ s.expired)
    <2> DEFINE c == Events!ClearReconnect(s)
    <2>1. c \in Events!Page
      BY <1>1 DEF SyncFollows
    <2>2. Events!StartStream(s) = [c EXCEPT !.timer = "none", !.status = "connecting",
                                     !.source = "connecting", !.position = s.cursor]
      BY <1>3 DEF Events!StartStream
    <2>3. c.cursor = s.cursor /\ c.after = s.after /\ c.seen = s.seen /\ s.cursor \in 0 .. MaxEvents
      BY <1>1 DEF SyncFollows, Events!Page
    <2> HIDE DEF c
    <2>4. Events!StartStream(s) \in Events!Page
      <3> DEFINE p == [c EXCEPT !.position = s.cursor]
      <3>1. p \in Events!Page
        BY <2>1, <2>3 DEF Events!Page
      <3>2. [p EXCEPT !.timer = "none", !.status = "connecting", !.source = "connecting"] \in Events!Page
        BY <3>1 DEF Events!Page
      <3>3. Events!StartStream(s) = [p EXCEPT !.timer = "none", !.status = "connecting",
                                       !.source = "connecting"]
        BY <2>1, <2>2 DEF Events!Page
      <3> QED BY <3>2, <3>3
    <2>5. /\ Events!StartStream(s).cursor = s.cursor /\ Events!StartStream(s).after = s.after
          /\ Events!StartStream(s).seen = s.seen /\ Events!StartStream(s).position = s.cursor
      BY <2>1, <2>2, <2>3 DEF Events!Page
    <2> QED BY <2>4, <2>5 DEF SyncFollows
  <1> QED BY <1>2, <1>3

LEMMA CloseStreamFollows ==
    ASSUME NEW s \in Events!Page PROVE SyncFollows(s, Events!CloseStream(s))
  BY DEF Events!CloseStream, SyncFollows, Events!Page

LEMMA SchedulePollFollows ==
    ASSUME NEW s \in Events!Page, NEW delay \in {"now", "later"}
    PROVE  SyncFollows(s, Events!SchedulePoll(s, delay))
  BY DEF Events!SchedulePoll, SyncFollows, Events!Page

LEMMA ExpireFollows ==
    ASSUME NEW s \in Events!Page PROVE SyncFollows(s, Events!Expire(s))
  BY DEF Events!Expire, Events!CloseStream, SyncFollows, Events!Page

LEMMA RequestRefreshFollows ==
    ASSUME NEW s \in Events!Page, NEW events \in SUBSET Events!Events
    PROVE  SyncFollows(s, Events!RequestRefresh(s, events))
  <1>1. CASE events = {}
    BY <1>1 DEF Events!RequestRefresh, SyncFollows
  <1>2. CASE events # {}
    <2>1. s.pending \cup events \in SUBSET Events!Events
      BY DEF Events!Page
    <2>2. Events!RequestRefresh(s, events) = [s EXCEPT !.pending = s.pending \cup events, !.refresh = TRUE]
      BY <1>2 DEF Events!RequestRefresh
    <2> QED BY <2>1, <2>2 DEF SyncFollows, Events!Page
  <1> QED BY <1>1, <1>2

\* What follows a page that knows the log knows it.
LEMMA SyncFollowersKnow ==
    ASSUME NEW s \in Events!Page, NEW t, SyncKnows(s), SyncFollows(s, t)
    PROVE  t \in Events!Page /\ SyncKnows(t)
  BY DEF SyncFollows, SyncKnows

LEMMA SyncFollowsTwice ==
    ASSUME NEW s \in Events!Page, NEW t, NEW u, SyncFollows(s, t), SyncFollows(t, u)
    PROVE  SyncFollows(s, u)
  BY DEF SyncFollows

LEMMA PollEndsFollows ==
    ASSUME NEW s \in Events!Page, NEW caught \in BOOLEAN
    PROVE  SyncFollows(s, Events!PollEnds(s, caught))
  <1> DEFINE t == [s EXCEPT !.flight = FALSE, !.status = "live",
                            !.boot = @ /\ ~caught, !.found = {}]
             r == Events!RequestRefresh(t, s.found)
  <1>1. t \in Events!Page /\ SyncFollows(s, t)
    BY DEF Events!Page, SyncFollows
  <1>2. SyncFollows(t, r)
    BY <1>1, RequestRefreshFollows DEF Events!Page
  <1>3. r \in Events!Page /\ SyncFollows(s, r)
    BY <1>1, <1>2, SyncFollowsTwice DEF SyncFollows
  <1>4. SyncFollows(r, Events!StartStream(r)) /\ SyncFollows(r, Events!SchedulePoll(r, "later"))
    BY <1>3, StartStreamFollows, SchedulePollFollows
  <1>5. Events!PollEnds(s, caught) \in {Events!StartStream(r), Events!SchedulePoll(r, "later")}
    BY DEF Events!PollEnds
  <1> QED BY <1>3, <1>4, <1>5, SyncFollowsTwice

-----------------------------------------------------------------------------
(* The steps *)

\* A step that changes the page only, to one that follows a page knowing the log.
LEMMA PageBecomesKeeps ==
    ASSUME EventsInv, NEW s \in Events!Page, SyncKnows(s), Events!Becomes(s)
    PROVE  EventsInv'
  BY DEF EventsInv, Events!TypeOK, Events!Becomes, SyncKnows, LogCovered

\* A step that saves the cursor of a page whose positions are covered by what was
\* taken and what it has seen.
LEMMA CursorSavesKeeps ==
    ASSUME EventsInv, NEW s \in Events!Page, Events!Saves(s),
           \A n \in {s.cursor, s.position, s.after} :
             \A e \in Events!Events : e <= n => e \in v4 \cup s.seen
    PROVE  EventsInv'
  <1>1. Events!TypeOK'
    <2>1. s.cursor \in 0 .. MaxEvents /\ s.seen \in SUBSET Events!Events
      BY DEF Events!Page
    <2> QED BY <2>1 DEF EventsInv, Events!TypeOK, Events!Saves
  <1>2. LogCovered(v2)' /\ SyncKnows(v5)'
    BY DEF EventsInv, Events!Saves, SyncKnows, LogCovered
  <1> QED BY <1>1, <1>2 DEF EventsInv

LEMMA StreamEventKeeps ==
    ASSUME EventsInv, Events!EventsAssumption, Events!StreamEvent PROVE EventsInv'
  <1> DEFINE e == v5.position + 1
             s == [v5 EXCEPT !.position = e]
             t == [s EXCEPT !.seen = @ \cup {e}, !.boot = FALSE]
  <1>1. e \in Events!Events /\ e \in 0 .. MaxEvents /\ v5 \in Events!Page
    BY DEF Events!StreamEvent, EventsInv, Events!TypeOK, Events!Page, Events!EventsAssumption
  <1>2. s \in Events!Page /\ t \in Events!Page
    BY <1>1 DEF Events!Page
  <1>3. \A n \in Events!Events : n <= e => n \in v4 \cup {e}
    BY <1>1 DEF EventsInv, SyncKnows, LogCovered, Events!TypeOK, Events!Page
  <1>4. CASE e \in s.seen
    <2>1. Events!Becomes(s)
      BY <1>4 DEF Events!StreamEvent
    <2>2. e \in v4
      BY <1>1, <1>4 DEF EventsInv, SyncKnows, Events!Page
    <2>3. SyncKnows(s)
      BY <1>1, <1>3, <2>2 DEF EventsInv, SyncKnows, LogCovered, Events!Page
    <2> QED BY <1>2, <2>1, <2>3, PageBecomesKeeps
  <1>5. CASE e \notin s.seen /\ e > s.cursor
    <2> DEFINE u == [t EXCEPT !.cursor = e]
               v == Events!RequestRefresh(u, {e})
    <2>1. u \in Events!Page
      BY <1>1, <1>2 DEF Events!Page
    <2>2. SyncFollows(u, v)
      BY <1>1, <2>1, RequestRefreshFollows
    <2>3. Events!Saves(v)
      BY <1>5 DEF Events!StreamEvent
    <2>4. v.seen = v5.seen \cup {e} /\ v.cursor = e /\ v.position = e /\ v.after = v5.after
      BY ZenonT(40), <1>1, <1>2, <2>1, <2>2 DEF SyncFollows, Events!Page
    <2>5. \A n \in {v.cursor, v.position, v.after} :
            \A i \in Events!Events : i <= n => i \in v4 \cup v.seen
      BY <1>3, <2>4 DEF EventsInv, SyncKnows, LogCovered
    <2>6. v \in Events!Page
      BY <2>2 DEF SyncFollows
    <2> HIDE DEF v
    <2> QED BY <2>3, <2>5, <2>6, CursorSavesKeeps
  <1>6. CASE e \notin s.seen /\ ~(e > s.cursor)
    <2> DEFINE v == Events!RequestRefresh(t, {e})
    <2>1. SyncFollows(t, v)
      BY <1>1, <1>2, RequestRefreshFollows
    <2>2. v \in Events!Page
      BY <2>1 DEF SyncFollows
    <2>3. v5' = v /\ v4' = v4 \cup {e} /\ UNCHANGED <<v1, v2, v3>>
      BY <1>6 DEF Events!StreamEvent
    <2>4. v.seen = v5.seen \cup {e} /\ v.cursor = v5.cursor /\ v.after = v5.after
          /\ v.position \in {e, v5.cursor}
      BY ZenonT(40), <1>1, <1>2, <2>1 DEF SyncFollows, Events!Page
    <2> HIDE DEF v
    <2>5. Events!TypeOK'
      BY <1>1, <2>2, <2>3 DEF EventsInv, Events!TypeOK
    <2>6. LogCovered(v2)' /\ SyncKnows(v5)'
      BY <1>3, <2>3, <2>4 DEF EventsInv, SyncKnows, LogCovered
    <2> QED BY <2>5, <2>6 DEF EventsInv
  <1> QED BY <1>4, <1>5, <1>6

LEMMA PollRepliedKeeps ==
    ASSUME EventsInv, Events!EventsAssumption, NEW last \in 0 .. v1, NEW more \in BOOLEAN, Events!PollReplied(last, more)
    PROVE  EventsInv'
  <1> DEFINE new == (v5.after + 1 .. last) \ v5.seen
             s == [v5 EXCEPT !.seen = @ \cup new, !.cursor = last,
                               !.found = IF v5.boot THEN @ ELSE @ \cup new]
  <1>1. v5 \in Events!Page /\ v1 \in 0 .. MaxEvents /\ last \in 0 .. MaxEvents
    BY DEF EventsInv, Events!TypeOK, Events!EventsAssumption
  <1>2. new \subseteq Events!Events
    BY <1>1 DEF Events!Page, Events!EventsAssumption
  <1>3. s \in Events!Page
    BY <1>1, <1>2 DEF Events!Page
  <1>4. s.seen = v5.seen \cup new /\ s.cursor = last
        /\ s.position = v5.position /\ s.after = v5.after
    BY <1>1 DEF Events!Page
  <1>5. \A e \in Events!Events : e <= last => e \in v4 \cup s.seen
    BY <1>1, <1>4 DEF EventsInv, SyncKnows, LogCovered, Events!Page
  <1> HIDE DEF s
  <1>6. CASE last < v1 /\ more
    <2> DEFINE u == [s EXCEPT !.after = last]
    <2>1. u \in Events!Page
      BY <1>1, <1>3 DEF Events!Page
    <2>2. Events!Saves(u)
      BY <1>6 DEF Events!PollReplied, s
    <2>3. u.seen = s.seen /\ u.cursor = last /\ u.position = v5.position /\ u.after = last
      BY <1>3, <1>4 DEF Events!Page
    <2>4. \A n \in {u.cursor, u.position, u.after} :
            \A e \in Events!Events : e <= n => e \in v4 \cup u.seen
      BY <1>5, <2>3 DEF EventsInv, SyncKnows, LogCovered
    <2> HIDE DEF u
    <2> QED BY <2>1, <2>2, <2>4, CursorSavesKeeps
  <1>7. CASE ~(last < v1 /\ more)
    <2> DEFINE v == Events!PollEnds(s, last = v1)
    <2>1. SyncFollows(s, v)
      BY <1>3, PollEndsFollows
    <2>2. Events!Saves(v)
      BY <1>7 DEF Events!PollReplied, s
    <2>3. v.seen = s.seen /\ v.cursor = last /\ v.after = v5.after
          /\ v.position \in {v5.position, last} /\ v \in Events!Page
      BY <1>4, <2>1 DEF SyncFollows
    <2> HIDE DEF v
    <2>4. \A n \in {v.cursor, v.position, v.after} :
            \A e \in Events!Events : e <= n => e \in v4 \cup v.seen
      BY <1>5, <2>3 DEF EventsInv, SyncKnows, LogCovered
    <2> QED BY <2>2, <2>3, <2>4, CursorSavesKeeps
  <1> QED BY <1>6, <1>7

LEMMA EventsOthersKeep ==
    ASSUME EventsInv, Events!EventsAssumption,
           \/ Events!StreamOpened \/ Events!StreamFailed \/ Events!ReconnectDue
           \/ Events!PollDue \/ Events!PollFailed \/ Events!PollRefused
           \/ Events!RefreshDue \/ Events!MeKnown \/ Events!Hidden \/ Events!Shown \/ Events!PageHidden
    PROVE  EventsInv'
  <1>0. v5 \in Events!Page /\ SyncKnows(v5) /\ v2 \in 0 .. MaxEvents /\ LogCovered(v2)
    BY DEF EventsInv, Events!TypeOK
  <1>a. ASSUME NEW s \in Events!Page, SyncFollows(v5, s), Events!Becomes(s) PROVE EventsInv'
    BY <1>0, <1>a, SyncFollowersKnow, PageBecomesKeeps
  <1>b. ASSUME NEW s \in Events!Page, SyncFollows(v5, s), NEW t \in Events!Page, SyncFollows(s, t), Events!Becomes(t) PROVE EventsInv'
    BY <1>0, <1>a, <1>b, SyncFollowsTwice
  <1>1. CASE Events!StreamOpened
    <2> DEFINE s == [v5 EXCEPT !.source = "open", !.status = "live"]
    <2>1. s \in Events!Page /\ SyncFollows(v5, s)
      BY <1>0 DEF Events!Page, SyncFollows
    <2> QED BY <1>1, <1>a, <2>1 DEF Events!StreamOpened
  <1>2. CASE Events!StreamFailed
    <2> DEFINE s == [Events!CloseStream(v5) EXCEPT !.status = "offline"]
               p == Events!SchedulePoll(s, "now")
               t == [p EXCEPT !.reconnect = "armed"]
    <2>1. s \in Events!Page /\ SyncFollows(v5, s)
      BY <1>0 DEF Events!Page, SyncFollows, Events!CloseStream
    <2>2. p \in Events!Page /\ SyncFollows(s, p)
      BY <2>1, SchedulePollFollows DEF SyncFollows
    <2>3. Events!Becomes(t)
      BY <1>2 DEF Events!StreamFailed
    <2> HIDE DEF p
    <2>4. t \in Events!Page /\ SyncFollows(p, t)
      BY <2>2 DEF Events!Page, SyncFollows
    <2> HIDE DEF s, t
    <2> QED BY <1>0, <1>b, <2>1, <2>2, <2>3, <2>4, SyncFollowsTwice
  <1>3. CASE Events!ReconnectDue
    <2> DEFINE s == [v5 EXCEPT !.reconnect = "zero"]
    <2>1. s \in Events!Page /\ SyncFollows(v5, s)
      BY <1>0 DEF Events!Page, SyncFollows
    <2>2. Events!Becomes(Events!StartStream(s))
      BY <1>3 DEF Events!ReconnectDue
    <2> HIDE DEF s
    <2> QED BY <1>b, <2>1, <2>2, StartStreamFollows DEF SyncFollows
  <1>4. CASE Events!PollDue
    <2>1. CASE v5.flight
      <3>1. Events!Becomes([v5 EXCEPT !.timer = "none"])
        BY <1>4, <2>1 DEF Events!PollDue
      <3>2. SyncFollows(v5, [v5 EXCEPT !.timer = "none"])
        BY <1>0 DEF Events!Page, SyncFollows
      <3> QED BY <1>a, <3>1, <3>2 DEF SyncFollows
    <2>2. CASE ~v5.flight
      <3> DEFINE s == [v5 EXCEPT !.timer = "none", !.flight = TRUE,
                                   !.after = v5.cursor, !.found = {}]
      <3>1. Events!Becomes(s)
        BY <1>4, <2>2 DEF Events!PollDue
      <3>2. s \in Events!Page /\ SyncKnows(s)
        BY <1>0 DEF Events!Page, SyncKnows
      <3> QED BY <3>1, <3>2, PageBecomesKeeps
    <2> QED BY <2>1, <2>2
  <1>5. CASE Events!PollFailed
    <2> DEFINE s == [v5 EXCEPT !.flight = FALSE, !.status = "offline", !.found = {},
                                 !.dropped = @ \cup v5.found]
    <2>1. v5.dropped \cup v5.found \in SUBSET Events!Events
      BY <1>0 DEF Events!Page
    <2>2. s \in Events!Page /\ SyncFollows(v5, s)
      BY <1>0, <2>1 DEF Events!Page, SyncFollows
    <2>3. Events!Becomes(Events!SchedulePoll(s, "later"))
      BY <1>5 DEF Events!PollFailed
    <2> HIDE DEF s
    <2> QED BY <1>b, <2>2, <2>3, SchedulePollFollows DEF SyncFollows
  <1>6. CASE Events!PollRefused
    <2> DEFINE s == [v5 EXCEPT !.flight = FALSE, !.found = {}, !.dropped = @ \cup v5.found]
    <2>1. v5.dropped \cup v5.found \in SUBSET Events!Events
      BY <1>0 DEF Events!Page
    <2>2. s \in Events!Page /\ SyncFollows(v5, s)
      BY <1>0, <2>1 DEF Events!Page, SyncFollows
    <2>3. Events!Becomes(Events!Expire(s))
      BY <1>6 DEF Events!PollRefused
    <2> HIDE DEF s
    <2> QED BY <1>b, <2>2, <2>3, ExpireFollows DEF SyncFollows
  <1>7. CASE Events!RefreshDue
    <2> DEFINE s == [v5 EXCEPT !.refreshed = @ \cup v5.pending, !.pending = {}, !.refresh = FALSE]
    <2>1. v5.refreshed \cup v5.pending \in SUBSET Events!Events
      BY <1>0 DEF Events!Page
    <2>2. s \in Events!Page /\ SyncFollows(v5, s)
      BY <1>0, <2>1 DEF Events!Page, SyncFollows
    <2>3. Events!Becomes(s)
      BY <1>7 DEF Events!RefreshDue
    <2> QED BY <1>a, <2>2, <2>3
  <1>8. CASE Events!MeKnown
    <2> DEFINE m == [v5 EXCEPT !.me = TRUE]
               s == Events!LoadCursor(m, v2)
    <2>1. s = [m EXCEPT !.cursor = v2, !.boot = (v2 = 0)]
      BY DEF Events!LoadCursor
    <2>2. s \in Events!Page /\ SyncKnows(s)
      BY <1>0, <2>1 DEF Events!Page, SyncKnows
    <2>3. Events!Becomes(s)
      BY <1>8 DEF Events!MeKnown
    <2> QED BY <2>2, <2>3, PageBecomesKeeps
  <1>9. CASE Events!Hidden
    <2>1. SyncFollows(v5, [v5 EXCEPT !.hidden = TRUE])
      BY <1>0 DEF Events!Page, SyncFollows
    <2> QED BY <1>9, <1>a, <2>1 DEF Events!Hidden, SyncFollows
  <1>10. CASE Events!Shown
    <2> DEFINE s == [v5 EXCEPT !.hidden = FALSE]
    <2>1. s \in Events!Page /\ SyncFollows(v5, s)
      BY <1>0 DEF Events!Page, SyncFollows
    <2>2. Events!Becomes(Events!StartStream(s))
      BY <1>10 DEF Events!Shown
    <2> HIDE DEF s
    <2> QED BY <1>b, <2>1, <2>2, StartStreamFollows DEF SyncFollows
  <1>11. CASE Events!PageHidden
    <2> DEFINE c == Events!CloseStream(v5)
               r == Events!ClearReconnect(c)
               s == [r EXCEPT !.hidden = TRUE, !.timer = "none", !.refresh = FALSE]
    <2>1. c \in Events!Page /\ SyncFollows(v5, c)
      BY <1>0, CloseStreamFollows DEF SyncFollows
    <2>2. r \in Events!Page /\ SyncFollows(c, r)
      BY <2>1, ClearReconnectFollows DEF SyncFollows
    <2>3. Events!Becomes(s)
      BY <1>11 DEF Events!PageHidden
    <2> HIDE DEF r
    <2>4. s \in Events!Page /\ SyncFollows(r, s)
      BY <2>2 DEF Events!Page, SyncFollows
    <2> HIDE DEF c, s
    <2> QED BY <1>0, <1>b, <2>1, <2>2, <2>3, <2>4, SyncFollowsTwice
  <1> QED BY <1>1, <1>2, <1>3, <1>4, <1>5, <1>6, <1>7, <1>8, <1>9, <1>10, <1>11

LEMMA EventsInitEstablishes == ASSUME Events!EventsAssumption, Events!Init PROVE EventsInv
  <1>1. v1 \in 0 .. MaxEvents /\ v2 \in 0 .. MaxEvents /\ v4 = 1 .. v2 /\ v3 \in 1 .. MaxLoads
    BY DEF Events!Init, Events!EventsAssumption
  <1>2. v4 \in SUBSET Events!Events /\ LogCovered(v2)
    BY <1>1 DEF LogCovered, Events!EventsAssumption
  <1>3. Events!NewPage(v2) \in Events!Page /\ SyncKnows(Events!NewPage(v2))
    BY <1>1, <1>2, NewPageKnows
  <1>4. v5 = Events!StartStream(Events!NewPage(v2))
    BY DEF Events!Init
  <1>5. v5 \in Events!Page /\ SyncKnows(v5)
    BY <1>3, <1>4, StartStreamFollows, SyncFollowersKnow
  <1> QED BY <1>1, <1>2, <1>5 DEF EventsInv, Events!TypeOK

LEMMA EventsStepKeeps == ASSUME Events!EventsAssumption, EventsInv, [Events!Next]_Events!vars PROVE EventsInv'
  <1>1. CASE Events!Reload
    <2>1. Events!NewPage(v2) \in Events!Page /\ SyncKnows(Events!NewPage(v2))
      BY NewPageKnows DEF EventsInv, Events!TypeOK
    <2>2. Events!StartStream(Events!NewPage(v2)) \in Events!Page /\ SyncKnows(Events!StartStream(Events!NewPage(v2)))
      BY <2>1, StartStreamFollows, SyncFollowersKnow
    <2>3. Events!TypeOK'
      BY <1>1, <2>2 DEF Events!Reload, EventsInv, Events!TypeOK, Events!EventsAssumption
    <2>4. LogCovered(v2)' /\ SyncKnows(v5)'
      BY <1>1, <2>2 DEF Events!Reload, EventsInv, SyncKnows, LogCovered
    <2> QED BY <2>3, <2>4 DEF EventsInv
  <1>2. CASE Events!EventLogged
    <2>1. Events!TypeOK'
      BY <1>2 DEF Events!EventLogged, EventsInv, Events!TypeOK, Events!EventsAssumption
    <2>2. LogCovered(v2)' /\ SyncKnows(v5)'
      BY <1>2 DEF Events!EventLogged, EventsInv, SyncKnows, LogCovered
    <2> QED BY <2>1, <2>2 DEF EventsInv
  <1>3. CASE UNCHANGED Events!vars
    BY <1>3 DEF Events!vars, EventsInv, Events!TypeOK, SyncKnows, LogCovered
  <1>4. ASSUME NEW last \in 0 .. v1, NEW more \in BOOLEAN, Events!PollReplied(last, more)
        PROVE  EventsInv'
    BY <1>4, PollRepliedKeeps
  <1> QED BY <1>1, <1>2, <1>3, <1>4, StreamEventKeeps, EventsOthersKeep DEF Events!Next

HIDE DEF Events!Events

EventsPart == which = "events" => EventsInv

LEMMA EventsStart == Init => EventsPart
  BY CallsConstants, EventsInitEstablishes DEF Init, EventsPart

LEMMA EventsStep == EventsPart /\ [Next]_vars => EventsPart'
<1> SUFFICES ASSUME EventsPart, [Next]_vars PROVE EventsPart'
  OBVIOUS
<1>1. CASE which = "events"
  <2>1. [Events!Next]_Events!vars  BY <1>1 DEF Next, vars, Step, Events!vars
  <2>2. which' = "events"          BY <1>1 DEF Next, vars, Step
  <2> QED  BY <1>1, <2>1, <2>2, CallsConstants, EventsStepKeeps DEF EventsPart
<1>2. CASE which # "events"  BY <1>2 DEF Next, vars, Step, EventsPart
<1> QED  BY <1>1, <1>2

-----------------------------------------------------------------------------
(* The call audio of several tabs.  v1 is the lock, v2 the tabs. *)

TabStates ==
  [up : BOOLEAN, leader : BOOLEAN, held : BOOLEAN, pending : BOOLEAN,
   requests : 0..TabRequests, incoming : CallsIn \cup {None}, outgoing : CallsOut \cup {None},
   loading : SUBSET CallsIn, audio : CallsIn \cup {None}, tone : CallsIn \cup {None},
   sounds : BOOLEAN, script : {"unknown", "there", "failed"}, back : CallsOut \cup {None}, chime : BOOLEAN,
   rejecting : CallsIn \cup {None}]

\* A tab sounds only as the leader, with one tone, the ringback only without an
\* incoming call or a chime.
InTune(s) ==
  /\ s.tone # None \/ s.back # None \/ s.chime => s.leader
  /\ s.back # None => s.incoming = None /\ s.tone = None /\ ~s.chime

TabsInv ==
  /\ Tabs!TypeOK
  /\ \A t \in CallTabSet : InTune(v2[t]) /\ (v2[t].leader => v1 = t /\ v2[t].up)

TabsPart == which = "tabs" => TabsInv

\* What the audio's handlers leave of a tab: the same leader and life, in tune.
LEMMA StopsInTune ==
  ASSUME NEW s \in TabStates
  PROVE  /\ Tabs!StopAudio(s) \in TabStates /\ InTune(Tabs!StopAudio(s))
         /\ Tabs!StopAudio(s).tone = None /\ Tabs!StopAudio(s).back = None /\ ~Tabs!StopAudio(s).chime
         /\ Tabs!StopAudio(s).leader = s.leader /\ Tabs!StopAudio(s).up = s.up
         /\ Tabs!StopAudio(s).incoming = s.incoming
  BY DEF TabStates, InTune, Tabs!StopAudio, Tabs!StopRingback, Tabs!StopIncoming

\* SyncAudio tunes any tab that leads only while it is up.
LEMMA SyncInTune ==
  ASSUME NEW s \in TabStates, s.tone # None \/ s.chime => s.leader, s.tone # None \/ s.chime => s.back = None
  PROVE  /\ Tabs!SyncAudio(s) \in TabStates /\ InTune(Tabs!SyncAudio(s))
         /\ Tabs!SyncAudio(s).leader = s.leader /\ Tabs!SyncAudio(s).up = s.up
<1>1. CASE ~s.leader \/ ~s.up
  BY <1>1, StopsInTune DEF Tabs!SyncAudio
<1>2. CASE s.leader /\ s.up /\ s.incoming # None
  <2> DEFINE q == [s EXCEPT !.back = None, !.chime = FALSE]
  <2>1. q \in TabStates /\ q.leader /\ q.up = s.up /\ q.incoming = s.incoming /\ q.back = None /\ ~q.chime /\ q.loading = s.loading
        /\ q.incoming \in CallsIn
    BY <1>2 DEF TabStates
  <2>2. Tabs!StopRingback(q) = q /\ Tabs!StopRingback(s) = q
    BY <2>1 DEF Tabs!StopRingback, TabStates
  <2>3. Tabs!SyncAudio(s) = IF q.audio = q.incoming THEN q ELSE [q EXCEPT !.loading = q.loading \cup {q.incoming}]
    BY <1>2, <2>1, <2>2 DEF Tabs!SyncAudio, Tabs!StartIncoming
  <2> DEFINE r == [q EXCEPT !.loading = q.loading \cup {q.incoming}]
  <2> HIDE DEF q
  <2>4. r \in TabStates /\ r.leader = q.leader /\ r.up = q.up /\ r.back = q.back
    BY ZenonT(40), <2>1 DEF TabStates
  <2>5. Tabs!SyncAudio(s) \in {q, r}  BY <2>3
  <2> HIDE DEF r
  <2>6. \A x \in {q, r} : x \in TabStates /\ x.leader /\ x.up = s.up /\ x.back = None
    BY <2>1, <2>4
  <2> QED  BY <1>2, <2>5, <2>6 DEF InTune
<1>3. CASE s.leader /\ s.up /\ s.incoming = None
  <2> DEFINE q == [s EXCEPT !.audio = None, !.tone = None, !.sounds = FALSE]
  <2>1. q \in TabStates /\ q.leader /\ q.up = s.up /\ q.incoming = None /\ q.tone = None
        /\ (q.chime => q.back = None) /\ q.outgoing = s.outgoing
    BY ZenonT(40), <1>3 DEF TabStates
  <2>2. Tabs!SyncAudio(s) = IF s.outgoing # None
                            THEN IF q.back # q.outgoing THEN [q EXCEPT !.back = q.outgoing, !.chime = FALSE] ELSE q
                            ELSE [q EXCEPT !.back = None, !.chime = FALSE]
    BY <1>3, <2>1 DEF Tabs!SyncAudio, Tabs!StopIncoming, Tabs!StartRingback, Tabs!StopRingback
  <2> DEFINE r(b) == [q EXCEPT !.back = b, !.chime = FALSE]
  <2> HIDE DEF q
  <2>3. \A b \in CallsOut \cup {None} :
          /\ r(b) \in TabStates /\ r(b).leader = q.leader /\ r(b).up = q.up /\ r(b).incoming = None
          /\ r(b).tone = None /\ ~r(b).chime
    BY <2>1 DEF TabStates
  <2>4. Tabs!SyncAudio(s) = q \/ \E b \in CallsOut \cup {None} : Tabs!SyncAudio(s) = r(b)
    BY <2>1, <2>2 DEF TabStates
  <2> HIDE DEF r
  <2>5. CASE Tabs!SyncAudio(s) = q  BY <1>3, <2>1, <2>5 DEF InTune
  <2>6. ASSUME NEW b \in CallsOut \cup {None}, Tabs!SyncAudio(s) = r(b)
        PROVE  /\ Tabs!SyncAudio(s) \in TabStates /\ InTune(Tabs!SyncAudio(s))
               /\ Tabs!SyncAudio(s).leader = s.leader /\ Tabs!SyncAudio(s).up = s.up
    BY <1>3, <2>1, <2>3, <2>6 DEF InTune
  <2> QED  BY <2>4, <2>5, <2>6
<1> QED  BY <1>1, <1>2, <1>3

\* A poll's answer (Observed) stops what it no longer shows; SyncAudio tunes the rest.
LEMMA ObservedInTune ==
  ASSUME NEW s \in TabStates, InTune(s), NEW i \in CallsIn \cup {None}, NEW o \in CallsOut \cup {None}
  PROVE  LET x == Tabs!Observed(s, [in |-> i, out |-> o]) IN
         /\ x \in TabStates /\ x.leader = s.leader /\ x.up = s.up
         /\ x.tone # None \/ x.chime => x.leader /\ x.back = None
<1> DEFINE x == Tabs!Observed(s, [in |-> i, out |-> o])
           q == IF i = None /\ s.incoming # None
                THEN [s EXCEPT !.audio = None, !.tone = None, !.sounds = FALSE, !.incoming = None]
                ELSE [s EXCEPT !.incoming = i]
<1>1. q \in TabStates /\ q.leader = s.leader /\ q.up = s.up /\ (q.tone # None \/ q.chime => q.leader /\ q.back = None)
      /\ q.outgoing = s.outgoing
  BY DEF TabStates, InTune
<1>2. x = IF o = None /\ s.outgoing # None THEN [q EXCEPT !.back = None, !.chime = FALSE, !.outgoing = None]
           ELSE [q EXCEPT !.outgoing = o]
  BY DEF TabStates, Tabs!Observed, Tabs!StopIncoming, Tabs!StopRingback
<1> HIDE DEF q, x
<1> DEFINE Fine == /\ x \in TabStates /\ x.leader = s.leader /\ x.up = s.up
                   /\ x.tone # None \/ x.chime => x.leader /\ x.back = None
<1>3. ASSUME o = None /\ s.outgoing # None PROVE Fine
  BY <1>1, <1>2, <1>3 DEF TabStates
<1>4. ASSUME ~(o = None /\ s.outgoing # None) PROVE Fine
  BY <1>1, <1>2, <1>4 DEF TabStates
<1>5. Fine
  BY <1>3, <1>4
<1> QED  BY <1>5 DEF x

\* A tab moves to a state in tune, which leads only with the lock; the lock is taken
\* from nobody or given up by the tab itself.
LEMMA TabMoves ==
  ASSUME TabsInv, NEW t \in CallTabSet, NEW s \in TabStates, InTune(s),
         v2' = [v2 EXCEPT ![t] = s],
         s.leader => v1' = t /\ s.up,
         v1' = v1 \/ v1 = Nobody \/ v1 = t, v1' \in CallTabSet \cup {Nobody, Assistant},
         v4' = v4, v3' \in SUBSET v4
  PROVE  TabsInv'
<1>1. Tabs!TypeOK'
  BY DEF TabsInv, Tabs!TypeOK, TabStates
<1>2. \A u \in CallTabSet : InTune(v2'[u]) /\ (v2'[u].leader => v1' = u /\ v2'[u].up)
  BY CallsConstants DEF TabsInv, Tabs!TypeOK, Tabs!TabsAssumption
<1> QED  BY <1>1, <1>2 DEF TabsInv

\* What a tab's step may rely on.
LEMMA TabsTyped ==
  ASSUME TabsInv, NEW t \in CallTabSet
  PROVE  /\ v2[t] \in TabStates /\ InTune(v2[t])
         /\ v2[t].leader => v1 = t /\ v2[t].up
         /\ v1 \in CallTabSet \cup {Nobody, Assistant} /\ v3 \in SUBSET v4
         /\ None \notin CallsIn \cup CallsOut
  BY CallsConstants DEF TabsInv, Tabs!TypeOK, TabStates, Tabs!TabsAssumption

\* The lock is requested, and the request answered.
LEMMA LockSteps ==
  ASSUME TabsInv, NEW t \in CallTabSet, Tabs!RequestLock(t) \/ Tabs!LockAnswered(t)
  PROVE  TabsInv'
<1>1. CASE Tabs!RequestLock(t)
  <2> DEFINE s == [v2[t] EXCEPT !.pending = TRUE, !.requests = @ + 1]
  <2>1. s \in TabStates /\ InTune(s) /\ s.leader = v2[t].leader /\ s.up = v2[t].up
    <3>1. v2[t].requests + 1 \in 0..TabRequests
      BY <1>1, CallsConstants, TabsTyped DEF Tabs!RequestLock, TabStates, Tabs!TabsAssumption
    <3> QED  BY <3>1, TabsTyped DEF TabStates, InTune
  <2>2. v2' = [v2 EXCEPT ![t] = s] /\ UNCHANGED <<v1, v3, v4>>
    BY <1>1 DEF Tabs!RequestLock, Tabs!Put, Tabs!external
  <2> HIDE DEF s
  <2> QED  BY <2>1, <2>2, TabsTyped, TabMoves
<1>2. CASE Tabs!LockAnswered(t)
  <2> DEFINE s == [v2[t] EXCEPT !.pending = FALSE, !.requests = @ - 1]
             h == [s EXCEPT !.held = TRUE]
             l == [h EXCEPT !.leader = TRUE]
             n == [s EXCEPT !.leader = FALSE]
  <2>1. s \in TabStates /\ InTune(s) /\ s.leader = v2[t].leader /\ s.up = v2[t].up
    <3>1. v2[t].requests - 1 \in 0..TabRequests
      BY <1>2, CallsConstants, TabsTyped DEF Tabs!LockAnswered, TabStates, Tabs!TabsAssumption
    <3> QED  BY <3>1, TabsTyped DEF TabStates, InTune
  <2>2. UNCHANGED <<v3, v4>>  BY <1>2 DEF Tabs!LockAnswered, Tabs!external
  <2>3. CASE v1 = Nobody /\ s.up
    <3>1. v1' = t /\ v2' = [v2 EXCEPT ![t] = Tabs!SetLeader(h, TRUE)]
      BY <1>2, <2>3 DEF Tabs!LockAnswered, Tabs!Put
    <3>2. ~v2[t].leader
      BY <2>3, CallsConstants, TabsTyped DEF Tabs!TabsAssumption
    <3> HIDE DEF s
    <3>3. h \in TabStates /\ InTune(h) /\ ~h.leader /\ h.up
      BY <2>1, <2>3, <3>2 DEF TabStates, InTune
    <3> HIDE DEF h
    <3>4. l \in TabStates /\ l.leader /\ l.up /\ l.tone = None /\ ~l.chime
      BY <3>3 DEF TabStates, InTune
    <3> HIDE DEF l
    <3>5. Tabs!SetLeader(h, TRUE) = Tabs!SyncAudio(l)
      BY <3>3 DEF Tabs!SetLeader, l
    <3> QED  BY <2>2, <2>3, <3>1, <3>4, <3>5, SyncInTune, TabsTyped, TabMoves
  <2>4. CASE ~(v1 = Nobody /\ s.up)
    <3>1. v1' = v1 /\ v2' = [v2 EXCEPT ![t] = Tabs!SetLeader(s, FALSE)]
      BY <1>2, <2>4 DEF Tabs!LockAnswered, Tabs!Put
    <3> HIDE DEF s
    <3>2. n \in TabStates /\ ~n.leader
      BY <2>1 DEF TabStates
    <3> HIDE DEF n
    <3>3. Tabs!SetLeader(s, FALSE) = IF s.leader THEN Tabs!StopAudio(n) ELSE s
      BY <2>1 DEF Tabs!SetLeader, n, TabStates
    <3>4. CASE s.leader
      <4>1. Tabs!StopAudio(n) \in TabStates /\ InTune(Tabs!StopAudio(n)) /\ ~Tabs!StopAudio(n).leader
        BY <3>2, StopsInTune
      <4>2. v2' = [v2 EXCEPT ![t] = Tabs!StopAudio(n)]  BY <3>1, <3>3, <3>4
      <4> QED  BY <2>2, <3>1, <4>1, <4>2, TabsTyped, TabMoves
    <3>5. CASE ~s.leader
      <4>1. v2' = [v2 EXCEPT ![t] = s]  BY <3>1, <3>3, <3>5
      <4> QED  BY <2>1, <2>2, <3>1, <3>5, <4>1, TabsTyped, TabMoves
    <3> QED  BY <3>4, <3>5
  <2> QED  BY <2>3, <2>4
<1> QED  BY <1>1, <1>2

\* A tab that stops, or is silenced by the assistant page, gives the lock up in tune.
LEMMA StopSteps ==
  ASSUME TabsInv, NEW t \in CallTabSet, Tabs!StopRuntime(t) \/ Tabs!Suppressed(t)
  PROVE  TabsInv'
<1> DEFINE q == Tabs!StopAudio(v2[t])
           a == [q EXCEPT !.up = FALSE, !.leader = FALSE, !.held = FALSE]
           b == [q EXCEPT !.leader = FALSE, !.held = FALSE, !.pending = FALSE]
<1>1. q \in TabStates /\ InTune(q) /\ q.tone = None /\ q.back = None /\ ~q.chime
  BY StopsInTune, TabsTyped
<1>2. (v2' = [v2 EXCEPT ![t] = a] \/ v2' = [v2 EXCEPT ![t] = b])
      /\ (v1' = IF v1 = t THEN Nobody ELSE v1) /\ UNCHANGED <<v3, v4>>
  BY DEF Tabs!StopRuntime, Tabs!Suppressed, Tabs!Put, Tabs!Unlocked, Tabs!external
<1> HIDE DEF q
<1>3. a \in TabStates /\ InTune(a) /\ ~a.leader /\ b \in TabStates /\ InTune(b) /\ ~b.leader
  BY <1>1 DEF TabStates, InTune
<1> HIDE DEF a, b
<1> QED  BY <1>2, <1>3, TabsTyped, TabMoves

\* Polls are answered, in order or not.
LEMMA PollSteps ==
  ASSUME TabsInv, NEW t \in CallTabSet, Tabs!PollApplied(t) \/ Tabs!OvertakenPollApplied(t)
  PROVE  TabsInv'
<1>1. PICK i \in CallsIn \cup {None}, o \in CallsOut \cup {None} :
        v2' = [v2 EXCEPT ![t] = Tabs!SyncAudio(Tabs!Observed(v2[t], [in |-> i, out |-> o]))]
  BY DEF Tabs!PollApplied, Tabs!OvertakenPollApplied, Tabs!Put, Tabs!Seen
<1>2. UNCHANGED <<v1, v3, v4>>
  BY DEF Tabs!PollApplied, Tabs!OvertakenPollApplied, Tabs!external
<1> DEFINE x == Tabs!Observed(v2[t], [in |-> i, out |-> o])
<1>3. /\ x \in TabStates /\ x.leader = v2[t].leader /\ x.up = v2[t].up
      /\ x.tone # None \/ x.chime => x.leader /\ x.back = None
  BY ObservedInTune, TabsTyped
<1> HIDE DEF x
<1>4. /\ Tabs!SyncAudio(x) \in TabStates /\ InTune(Tabs!SyncAudio(x))
      /\ Tabs!SyncAudio(x).leader = x.leader /\ Tabs!SyncAudio(x).up = x.up
  BY <1>3, SyncInTune
<1>5. v2' = [v2 EXCEPT ![t] = Tabs!SyncAudio(x)]  BY <1>1 DEF x
<1> QED  BY <1>2, <1>3, <1>4, <1>5, TabsTyped, TabMoves

\* The ringtone is loaded or given up, starts, or has sounded long enough; a missed
\* call's chime.
LEMMA ToneSteps ==
  ASSUME TabsInv, NEW t \in CallTabSet,
         \/ Tabs!RingtoneLoaded(t) \/ Tabs!RingtoneRefused(t)
         \/ Tabs!RingtoneStarted(t) \/ Tabs!RingtoneDeadline(t)
         \/ Tabs!PlayMissedChime(t) \/ Tabs!ChimeEnds(t)
  PROVE  TabsInv'
<1>1. UNCHANGED <<v1, v3, v4>>
  BY DEF Tabs!RingtoneLoaded, Tabs!RingtoneRefused, Tabs!RingtoneStarted, Tabs!RingtoneDeadline,
         Tabs!PlayMissedChime, Tabs!ChimeEnds, Tabs!external
<1>2. PICK s \in TabStates : v2' = [v2 EXCEPT ![t] = s] /\ InTune(s) /\ s.leader = v2[t].leader /\ s.up = v2[t].up
  <2>1. CASE Tabs!RingtoneLoaded(t)
    <3>1. PICK k \in v2[t].loading :
            LET q == [v2[t] EXCEPT !.loading = @ \ {k}, !.script = "there"] IN
            v2' = [v2 EXCEPT ![t] = IF q.leader /\ q.incoming = k
                                    THEN [q EXCEPT !.audio = k, !.tone = k, !.sounds = q.tone = k /\ q.sounds]
                                    ELSE q]
      BY <2>1 DEF Tabs!RingtoneLoaded, Tabs!Put
    <3> DEFINE q == [v2[t] EXCEPT !.loading = @ \ {k}, !.script = "there"]
               goesOn == q.tone = k /\ q.sounds
               r == [q EXCEPT !.audio = k, !.tone = k, !.sounds = goesOn]
    <3>2. q \in TabStates /\ InTune(q) /\ q.leader = v2[t].leader /\ q.up = v2[t].up /\ k \in CallsIn
      BY TabsTyped DEF TabStates, InTune
    <3>3. v2' = [v2 EXCEPT ![t] = IF q.leader /\ q.incoming = k THEN r ELSE q]
      BY <3>1
    <3> HIDE DEF q
    <3>4. r \in TabStates /\ r.leader = q.leader /\ r.up = q.up /\ r.back = q.back /\ r.incoming = q.incoming
          /\ r.chime = q.chime
      <4>1. goesOn \in BOOLEAN  OBVIOUS
      <4> HIDE DEF goesOn
      <4> QED  BY <3>2, <4>1 DEF TabStates
    <3> HIDE DEF r
    <3>5. q.leader /\ q.incoming = k => InTune(r)
      BY <3>2, <3>4, TabsTyped DEF InTune
    <3> QED  BY <3>2, <3>3, <3>4, <3>5
  <2>2. CASE Tabs!RingtoneStarted(t) \/ Tabs!RingtoneDeadline(t)
    <3> DEFINE a == [v2[t] EXCEPT !.sounds = TRUE]
               b == [v2[t] EXCEPT !.tone = None]
               c == [v2[t] EXCEPT !.tone = None, !.sounds = FALSE]
    <3>1. \E s \in {a, b, c} : v2' = [v2 EXCEPT ![t] = s]
      BY <2>2 DEF Tabs!RingtoneStarted, Tabs!RingtoneDeadline, Tabs!Put
    <3>2. /\ a \in TabStates /\ InTune(a) /\ a.leader = v2[t].leader /\ a.up = v2[t].up
          /\ b \in TabStates /\ InTune(b) /\ b.leader = v2[t].leader /\ b.up = v2[t].up
          /\ c \in TabStates /\ InTune(c) /\ c.leader = v2[t].leader /\ c.up = v2[t].up
      BY TabsTyped DEF TabStates, InTune
    <3> HIDE DEF a, b, c
    <3> QED  BY <3>1, <3>2
  <2>3. CASE Tabs!RingtoneRefused(t)
    <3>1. PICK k \in v2[t].loading : v2' = [v2 EXCEPT ![t] = [v2[t] EXCEPT !.loading = @ \ {k}, !.script = "failed"]]
      BY <2>3 DEF Tabs!RingtoneRefused, Tabs!Put
    <3> DEFINE q == [v2[t] EXCEPT !.loading = @ \ {k}, !.script = "failed"]
    <3>2. q \in TabStates /\ InTune(q) /\ q.leader = v2[t].leader /\ q.up = v2[t].up
      BY TabsTyped DEF TabStates, InTune
    <3> HIDE DEF q
    <3> QED  BY <3>1, <3>2 DEF q
  <2>4. CASE Tabs!PlayMissedChime(t) \/ Tabs!ChimeEnds(t)
    <3> DEFINE a == [v2[t] EXCEPT !.back = None, !.chime = TRUE]
               b == [v2[t] EXCEPT !.chime = FALSE]
    <3>1. \/ v2' = [v2 EXCEPT ![t] = a] /\ v2[t].leader
          \/ v2' = [v2 EXCEPT ![t] = b]
      BY <2>4, TabsTyped DEF Tabs!PlayMissedChime, Tabs!ChimeEnds, Tabs!StopRingback, Tabs!Put, TabStates
    <3>2. /\ v2[t].leader => a \in TabStates /\ InTune(a) /\ a.leader = v2[t].leader /\ a.up = v2[t].up
          /\ b \in TabStates /\ InTune(b) /\ b.leader = v2[t].leader /\ b.up = v2[t].up
      BY TabsTyped DEF TabStates, InTune
    <3> HIDE DEF a, b
    <3> QED  BY <3>1, <3>2
  <2> QED  BY <2>1, <2>2, <2>3, <2>4
<1> QED  BY <1>1, <1>2, TabsTyped, TabMoves

\* The user touches the page or rejects a call; a call ends elsewhere.
LEMMA UserSteps ==
  ASSUME TabsInv, NEW t \in CallTabSet,
         \/ Tabs!Gesture(t) \/ Tabs!RejectClicked(t) \/ Tabs!RejectReplied(t)
         \/ \E k \in CallsIn \cup CallsOut : Tabs!Terminal(t, k)
  PROVE  TabsInv'
<1>1. CASE Tabs!Gesture(t)
  <2>1. v2' = [v2 EXCEPT ![t] = Tabs!SyncAudio(v2[t])] /\ UNCHANGED <<v1, v3, v4>>
    BY <1>1 DEF Tabs!Gesture, Tabs!Put, Tabs!external
  <2>2. /\ Tabs!SyncAudio(v2[t]) \in TabStates /\ InTune(Tabs!SyncAudio(v2[t]))
        /\ Tabs!SyncAudio(v2[t]).leader = v2[t].leader /\ Tabs!SyncAudio(v2[t]).up = v2[t].up
    BY TabsTyped, SyncInTune DEF InTune
  <2> QED  BY <2>1, <2>2, TabsTyped, TabMoves
<1>2. CASE Tabs!RejectClicked(t)
  <2> DEFINE s == [v2[t] EXCEPT !.rejecting = v2[t].incoming]
  <2>1. v2' = [v2 EXCEPT ![t] = s] /\ UNCHANGED <<v1, v3, v4>>
    BY <1>2 DEF Tabs!RejectClicked, Tabs!Put, Tabs!external
  <2>2. s \in TabStates /\ InTune(s) /\ s.leader = v2[t].leader /\ s.up = v2[t].up
    BY TabsTyped DEF TabStates, InTune
  <2> HIDE DEF s
  <2> QED  BY <2>1, <2>2, TabsTyped, TabMoves
<1>3. CASE Tabs!RejectReplied(t)
  <2> DEFINE s == [v2[t] EXCEPT !.rejecting = None]
             r == Tabs!StopIncoming([s EXCEPT !.incoming = None])
  <2>1. (v2' = [v2 EXCEPT ![t] = s] \/ v2' = [v2 EXCEPT ![t] = r]) /\ UNCHANGED <<v1, v4>> /\ v3' \subseteq v3
    BY <1>3 DEF Tabs!RejectReplied, Tabs!Put
  <2>2. s \in TabStates /\ InTune(s) /\ s.leader = v2[t].leader /\ s.up = v2[t].up
    BY TabsTyped DEF TabStates, InTune
  <2> HIDE DEF s
  <2>3. r \in TabStates /\ InTune(r) /\ r.leader = v2[t].leader /\ r.up = v2[t].up
    BY <2>2 DEF TabStates, InTune, Tabs!StopIncoming
  <2> HIDE DEF r
  <2> QED  BY <2>1, <2>2, <2>3, TabsTyped, TabMoves
<1>4. ASSUME NEW k \in CallsIn \cup CallsOut, Tabs!Terminal(t, k) PROVE TabsInv'
  <2> DEFINE i == Tabs!StopIncoming([v2[t] EXCEPT !.incoming = None])
             s == IF v2[t].incoming = k THEN i ELSE v2[t]
             o == [s EXCEPT !.outgoing = IF @ = k THEN None ELSE @]
             e == IF k \in {s.outgoing, s.back} THEN Tabs!StopRingback(o) ELSE s
  <2>1. v2' = [v2 EXCEPT ![t] = e] /\ UNCHANGED <<v1, v3, v4>>
    BY <1>4 DEF Tabs!Terminal, Tabs!Put, Tabs!external
  <2>2. i \in TabStates /\ InTune(i) /\ i.leader = v2[t].leader /\ i.up = v2[t].up
    BY TabsTyped DEF TabStates, InTune, Tabs!StopIncoming
  <2> HIDE DEF i
  <2>3. s \in TabStates /\ InTune(s) /\ s.leader = v2[t].leader /\ s.up = v2[t].up
    BY <2>2, TabsTyped
  <2> HIDE DEF s
  <2>4. Tabs!StopRingback(o) \in TabStates /\ InTune(Tabs!StopRingback(o))
        /\ Tabs!StopRingback(o).leader = s.leader /\ Tabs!StopRingback(o).up = s.up
    BY ZenonT(40), <2>3 DEF TabStates, InTune, Tabs!StopRingback
  <2>5. e \in TabStates /\ InTune(e) /\ e.leader = v2[t].leader /\ e.up = v2[t].up
    BY <2>3, <2>4
  <2> HIDE DEF e
  <2> QED  BY <2>1, <2>5, TabsTyped, TabMoves
<1> QED  BY <1>1, <1>2, <1>3, <1>4

LEMMA TabsStart == Init => TabsPart
<1> SUFFICES ASSUME Tabs!Init PROVE TabsInv
  BY DEF Init, TabsPart
<1>1. Tabs!Fresh \in TabStates /\ InTune(Tabs!Fresh) /\ ~Tabs!Fresh.leader
  BY CallsConstants DEF Tabs!Fresh, TabStates, InTune, Tabs!TabsAssumption
<1> QED  BY <1>1 DEF Tabs!Init, TabsInv, Tabs!TypeOK, TabStates

LEMMA TabsStep == TabsPart /\ [Next]_vars => TabsPart'
<1> SUFFICES ASSUME TabsPart, [Next]_vars PROVE TabsPart'
  OBVIOUS
<1>1. CASE which = "tabs"
  <2>1. [Tabs!Next]_Tabs!vars /\ TabsInv  BY <1>1 DEF Next, vars, Step, Tabs!vars, TabsPart
  <2>3. CASE UNCHANGED Tabs!vars
    <3>1. v1' = v1 /\ v2' = v2 /\ v3' = v3 /\ v4' = v4  BY <2>3 DEF Tabs!vars
    <3> QED  BY <2>1, <3>1 DEF TabsPart, TabsInv, Tabs!TypeOK, InTune
  <2>4. ASSUME NEW t \in CallTabSet, Tabs!TabStep(t) PROVE TabsInv'
    BY <2>1, <2>4, LockSteps, StopSteps, PollSteps, ToneSteps, UserSteps DEF Tabs!TabStep, Tabs!AnswerElsewhere
  <2>5. CASE Tabs!AssistantClaims \/ Tabs!AssistantReleases
    <3>1. /\ v2' = v2 /\ v3' = v3 /\ v4' = v4 /\ v1' \in {Nobody, Assistant}
          /\ v1 \in {Nobody, Assistant}
      BY <2>5 DEF Tabs!AssistantClaims, Tabs!AssistantReleases, Tabs!external
    <3>2. \A t \in CallTabSet : ~v2[t].leader
      BY <2>1, <3>1, CallsConstants, TabsTyped DEF Tabs!TabsAssumption
    <3> QED  BY <2>1, <3>1, <3>2 DEF TabsPart, TabsInv, Tabs!TypeOK, InTune
  <2>6. ASSUME NEW k \in CallsIn \cup CallsOut, Tabs!CallRings(k) \/ Tabs!CallStops(k) PROVE TabsInv'
    BY <2>1, <2>6 DEF Tabs!CallRings, Tabs!CallStops, TabsInv, Tabs!TypeOK
  <2>7. which' = "tabs"  BY <1>1 DEF Next, vars, Step
  <2> QED  BY <2>1, <2>3, <2>4, <2>5, <2>6, <2>7 DEF Tabs!Next, TabsPart
<1>2. CASE which # "tabs"  BY <1>2 DEF Next, vars, Step, TabsPart
<1> QED  BY <1>1, <1>2

-----------------------------------------------------------------------------
(* The translation segments.  v1 is live, v2 the plugin, v3 the segments, v4 how
   often each result was shown. *)

SegmentStates ==
  [at : {"free", "recording", "stopping", "stopped", "over"}, gen : 0..PluginGens + 1,
   rt : {"none", "STARTING", "STREAMING", "CLOSING", "FALLBACK"} \cup Translation!Final,
   start : {"none", "session", "sdp", "over"}, chan : {"none", "connecting", "open"},
   text : BOOLEAN, closed : BOOLEAN, drain : BOOLEAN, cap : BOOLEAN, stop : BOOLEAN,
   blob : BOOLEAN, done : BOOLEAN, job : {"none", "text", "audio", "finalize", "wait"},
   attempt : 0..2, sent : SUBSET {"audio", "finalize"}]

\* A segment before its recorder has stopped has asked for nothing; one that has
\* asked by a path, or whose result was shown, is done with it or torn down.
OneWay(x, n) ==
  /\ x \in SegmentStates
  /\ x.at # "stopped" => ~x.blob /\ ~x.done
  /\ x.sent # {} \/ n # 0 => x.done \/ x.at = "over"
  /\ x.sent \in {{}, {"audio"}, {"finalize"}}
  /\ x.job # "none" => x.done /\ n = 0
  /\ x.job = "wait" => x.attempt < 2

TranslationInv ==
  /\ Translation!TypeOK
  /\ \A s \in Segments : OneWay(v3[s], v4[s])
  /\ \A s \in Segments : v2.recording = s => v3[s].at = "recording"
  /\ \A r \in Translation!Results : v4[r] <= 1 /\ (v4[r] # 0 => r \in v2.seen)
  /\ v1 => v2.gen <= PluginGens

TranslationPart == which = "translation" => TranslationInv

\* y differs from x in its realtime context only.
SameWay(x, y) ==
  /\ y \in SegmentStates
  /\ y.at = x.at /\ y.blob = x.blob /\ y.done = x.done /\ y.job = x.job
  /\ y.attempt = x.attempt /\ y.sent = x.sent

\* What OneWay says does not depend on the realtime context.
LEMMA SameWayKeeps ==
  ASSUME NEW x, NEW y, NEW n, OneWay(x, n), SameWay(x, y) PROVE OneWay(y, n)
  BY DEF OneWay, SameWay

\* The helpers of the realtime context change nothing else of a segment.
LEMMA ContextSteps ==
  ASSUME NEW x \in SegmentStates
  PROVE  /\ SameWay(x, Translation!Cleanup(x))
         /\ SameWay(x, Translation!RequestClose(x))
         /\ SameWay(x, Translation!Streaming(x))
         /\ SameWay(x, Translation!ClosedIfStopped(x))
         /\ \A r \in {"none", "STARTING", "STREAMING", "CLOSING", "FALLBACK"} \cup Translation!Final :
              SameWay(x, [x EXCEPT !.rt = r])
<1>1. SameWay(x, Translation!Cleanup(x))
  <2>1. Translation!Cleanup(x) = [x EXCEPT !.cap = FALSE, !.drain = FALSE, !.chan = "none",
                                           !.start = IF x.start = "sdp" THEN "over" ELSE x.start]
    BY DEF Translation!Cleanup
  <2> QED  BY <2>1 DEF SameWay, SegmentStates
<1>2. SameWay(x, Translation!RequestClose(x))
  <2> DEFINE r == IF x.rt = "FALLBACK" THEN x.rt ELSE "CLOSING"
             y == [x EXCEPT !.cap = FALSE, !.drain = TRUE, !.rt = r]
  <2>1. Translation!RequestClose(x) \in {x, y}
    BY DEF Translation!RequestClose
  <2>2. r \in {"FALLBACK", "CLOSING"}  OBVIOUS
  <2> HIDE DEF r
  <2>3. SameWay(x, x)  BY DEF SameWay
  <2>4. SameWay(x, y)  BY <2>2 DEF SameWay, SegmentStates
  <2> QED  BY <2>1, <2>3, <2>4
<1>3. \A r \in {"none", "STARTING", "STREAMING", "CLOSING", "FALLBACK"} \cup Translation!Final :
        SameWay(x, [x EXCEPT !.rt = r])
  BY DEF SameWay, SegmentStates
<1>4. SameWay(x, Translation!Streaming(x))
  <2>1. Translation!Streaming(x) = [x EXCEPT !.rt = IF x.rt = "STARTING" THEN "STREAMING" ELSE x.rt]
    BY DEF Translation!Streaming
  <2>2. x.rt \in {"none", "STARTING", "STREAMING", "CLOSING", "FALLBACK"} \cup Translation!Final
    BY DEF SegmentStates
  <2> QED  BY <1>3, <2>1, <2>2
<1>5. SameWay(x, Translation!ClosedIfStopped(x))
  BY <1>2 DEF Translation!ClosedIfStopped, SameWay
<1> QED  BY <1>1, <1>2, <1>3, <1>4, <1>5

\* SameWay is transitive.
LEMMA SameWayTwice ==
  ASSUME NEW x, NEW y, NEW z, SameWay(x, y), SameWay(y, z) PROVE SameWay(x, z)
  BY DEF SameWay

\* The recording's translation is asked once, by one path.
LEMMA CompleteKeeps ==
  ASSUME NEW x, NEW n, OneWay(x, n)
  PROVE  OneWay(Translation!Complete(x), n) /\ Translation!Complete(x).at = x.at
<1>1. x \in SegmentStates  BY DEF OneWay
<1>2. ASSUME NEW y, SameWay(x, y), x.blob, ~x.done, NEW p \in {"audio", "finalize"}
      PROVE  LET z == [y EXCEPT !.done = TRUE, !.job = p, !.sent = @ \cup {p}] IN OneWay(z, n) /\ z.at = x.at
  <2>1. y \in SegmentStates /\ y.sent = {} /\ n = 0 /\ y.at = "stopped" /\ x.at = "stopped"
    BY <1>1, <1>2 DEF OneWay, SameWay
  <2> DEFINE z == [y EXCEPT !.done = TRUE, !.job = p, !.sent = @ \cup {p}]
  <2>2. z \in SegmentStates /\ z.at = "stopped" /\ z.done /\ z.job = p /\ z.sent = {p}
    BY <2>1 DEF SegmentStates
  <2> HIDE DEF z
  <2>3. OneWay(z, n) /\ z.at = x.at  BY <2>1, <2>2 DEF OneWay
  <2> QED  BY <2>3 DEF z
<1>3. SameWay(x, x)  BY <1>1 DEF SameWay
<1>4. SameWay(x, Translation!Cleanup(x))  BY <1>1, ContextSteps
<1>5. CASE ~x.blob \/ x.done
  BY <1>5 DEF Translation!Complete
<1>6. CASE x.blob /\ ~x.done
  <2>1. Translation!Complete(x) \in
          {x, Translation!TranslateAudio(x), Translation!TranslateAudio(Translation!Cleanup(x)),
           [x EXCEPT !.done = TRUE, !.job = "finalize", !.sent = @ \cup {"finalize"}]}
    BY <1>6 DEF Translation!Complete
  <2> QED  BY <1>2, <1>3, <1>4, <1>6, <2>1 DEF Translation!TranslateAudio
<1> QED  BY <1>1, <1>5, <1>6 DEF SegmentStates

\* Giving the realtime path up asks by the audio unless the finalization was asked.
LEMMA FallbackKeeps ==
  ASSUME NEW x, NEW n, OneWay(x, n)
  PROVE  OneWay(Translation!Fallback(x), n) /\ Translation!Fallback(x).at = x.at
<1> DEFINE y == [Translation!Cleanup(x) EXCEPT !.rt = "FALLBACK"]
<1>1. x \in SegmentStates  BY DEF OneWay
<1>2. SameWay(x, y)
  <2> DEFINE c == Translation!Cleanup(x)
  <2>1. SameWay(x, c) /\ c \in SegmentStates  BY <1>1, ContextSteps DEF SameWay
  <2> HIDE DEF c
  <2>2. SameWay(c, [c EXCEPT !.rt = "FALLBACK"])  BY <2>1, ContextSteps
  <2>3. SameWay(x, [c EXCEPT !.rt = "FALLBACK"])  BY <2>1, <2>2, SameWayTwice
  <2> QED  BY <2>3 DEF c
<1>3. OneWay(y, n) /\ y.at = x.at  BY <1>2, SameWayKeeps DEF SameWay
<1> HIDE DEF y
<1>4. OneWay(Translation!Complete(y), n) /\ Translation!Complete(y).at = x.at
  BY <1>3, CompleteKeeps
<1> QED  BY <1>4 DEF Translation!Fallback, y

\* What a segment's step may rely on.
LEMMA TranslationTyped ==
  ASSUME TranslationInv, NEW s \in Segments
  PROVE  /\ v3 \in [Segments -> SegmentStates] /\ OneWay(v3[s], v4[s]) /\ v3[s] \in SegmentStates
         /\ v4 \in [Translation!Results -> 0..MaxShown] /\ s \in Translation!Results
         /\ PluginGens \in Nat /\ MaxShown \in Nat \ {0, 1} /\ None \notin Segments
         /\ v2.gen \in 1..PluginGens + 1
  BY CallsConstants DEF TranslationInv, Translation!TypeOK, SegmentStates, OneWay, Translation!Results,
                        Translation!TranslationAssumption

\* A step that changes one segment only, and not whether it is recorded.
LEMMA OnlyKeeps ==
  ASSUME TranslationInv, NEW s \in Segments, NEW y, OneWay(y, v4[s]), y.at = v3[s].at,
         v3' = [v3 EXCEPT ![s] = y], UNCHANGED <<v1, v2, v4>>
  PROVE  TranslationInv'
<1>1. y \in SegmentStates  BY DEF OneWay
<1>2. Translation!TypeOK'
  BY <1>1, TranslationTyped DEF TranslationInv, Translation!TypeOK, SegmentStates
<1>3. \A t \in Segments : v3'[t] = IF t = s THEN y ELSE v3[t]
  BY TranslationTyped
<1> QED  BY <1>2, <1>3 DEF TranslationInv

\* A step that changes one segment, which is no longer recorded.
LEMMA UnrecordedKeeps ==
  ASSUME TranslationInv, NEW s \in Segments, NEW y, OneWay(y, v4[s]),
         v3' = [v3 EXCEPT ![s] = y], v2' = Translation!Unrecorded(s), UNCHANGED <<v1, v4>>
  PROVE  TranslationInv'
<1>1. y \in SegmentStates  BY DEF OneWay
<1>2. /\ v2' = [v2 EXCEPT !.recording = IF v2.recording = s THEN None ELSE v2.recording]
  BY DEF Translation!Unrecorded, TranslationInv, Translation!TypeOK
<1>3. v2'.recording \notin {s} /\ v2'.recording \in {v2.recording, None} /\ v2'.gen = v2.gen /\ v2'.seen = v2.seen
  BY <1>2, TranslationTyped DEF TranslationInv, Translation!TypeOK
<1>4. Translation!TypeOK'
  BY <1>1, <1>2, TranslationTyped DEF TranslationInv, Translation!TypeOK, SegmentStates
<1>5. \A t \in Segments : v3'[t] = IF t = s THEN y ELSE v3[t]
  BY TranslationTyped
<1>6. \A t \in Segments : OneWay(v3'[t], v4'[t]) /\ (v2'.recording = t => v3'[t].at = "recording")
  BY <1>3, <1>5, TranslationTyped DEF TranslationInv
<1> QED  BY <1>3, <1>4, <1>6 DEF TranslationInv

\* The realtime context's requests, channel and timers.
LEMMA ContextKeeps ==
  ASSUME TranslationInv, NEW s \in Segments,
         \/ \E ok \in BOOLEAN : Translation!SessionReplied(s, ok) \/ Translation!SdpReplied(s, ok)
         \/ Translation!ChannelOpened(s) \/ Translation!ChannelFailed(s) \/ Translation!TranscriptArrived(s)
         \/ Translation!ProviderClosed(s) \/ Translation!DrainExpired(s)
         \/ Translation!CapExpired(s) /\ v2.recording # s
         \/ Translation!RetryDue(s)
  PROVE  TranslationInv'
<1> DEFINE n == v4[s]
           x == v3[s]
           Good(y) == OneWay(y, n) /\ y.at = x.at
<1>0. x \in SegmentStates /\ OneWay(x, n) /\ SameWay(x, x)
  BY TranslationTyped DEF SameWay
<1>a. ASSUME NEW y, SameWay(x, y)
      PROVE  Good(y) /\ Good(Translation!Fallback(y)) /\ Good(Translation!Complete(y)) /\ y \in SegmentStates
  <2>1. OneWay(y, n) /\ y.at = x.at /\ y \in SegmentStates  BY <1>0, <1>a, SameWayKeeps DEF SameWay
  <2> QED  BY <2>1, FallbackKeeps, CompleteKeeps
<1>b. ASSUME NEW y, Good(y), Translation!Only(s, y) PROVE TranslationInv'
  BY <1>b, OnlyKeeps DEF Translation!Only, Translation!Put
<1>1. ASSUME NEW ok \in BOOLEAN, Translation!SessionReplied(s, ok) PROVE TranslationInv'
  <2> DEFINE y == [x EXCEPT !.start = "over"]
             c == Translation!Cleanup(y)
             f == [c EXCEPT !.rt = "FALLBACK"]
             z == [y EXCEPT !.start = "sdp", !.chan = "connecting"]
  <2>1. SameWay(x, y) /\ y \in SegmentStates  BY <1>0 DEF SameWay, SegmentStates
  <2>2. \/ Translation!Only(s, y) \/ Translation!Only(s, Translation!Fallback(y))
        \/ Translation!Only(s, Translation!Complete(f)) \/ Translation!Only(s, z)
    BY <1>1 DEF Translation!SessionReplied
  <2> HIDE DEF y
  <2>3. SameWay(y, c) /\ c \in SegmentStates  BY <2>1, ContextSteps DEF SameWay
  <2> HIDE DEF c
  <2>4. SameWay(c, f)  BY <2>3, ContextSteps
  <2>5. SameWay(y, z)  BY <2>1 DEF SameWay, SegmentStates
  <2> HIDE DEF f, z
  <2>6. SameWay(x, f) /\ SameWay(x, z)  BY <2>1, <2>3, <2>4, <2>5, SameWayTwice
  <2> QED  BY <1>a, <1>b, <2>1, <2>2, <2>6
<1>2. ASSUME NEW ok \in BOOLEAN, Translation!SdpReplied(s, ok) PROVE TranslationInv'
  <2> DEFINE y == [x EXCEPT !.start = "over"]
             t == Translation!Streaming(y)
             z == [t EXCEPT !.cap = TRUE]
             c == Translation!ClosedIfStopped(z)
  <2>1. SameWay(x, y) /\ y \in SegmentStates  BY <1>0 DEF SameWay, SegmentStates
  <2>2. \/ Translation!Only(s, y) \/ Translation!Only(s, Translation!Fallback(y)) \/ Translation!Only(s, c)
    BY <1>2 DEF Translation!SdpReplied
  <2> HIDE DEF y
  <2>3. SameWay(y, t) /\ t \in SegmentStates  BY <2>1, ContextSteps DEF SameWay
  <2> HIDE DEF t
  <2>4. SameWay(t, z) /\ z \in SegmentStates  BY <2>3 DEF SameWay, SegmentStates
  <2> HIDE DEF z
  <2>5. SameWay(z, c)  BY <2>4, ContextSteps
  <2> HIDE DEF c
  <2>6. SameWay(x, c)  BY <2>1, <2>3, <2>4, <2>5, SameWayTwice
  <2> QED  BY <1>a, <1>b, <2>1, <2>2, <2>6
<1>3. CASE Translation!ChannelOpened(s)
  <2> DEFINE t == Translation!Streaming(x)
             z == [t EXCEPT !.chan = "open"]
             c == Translation!ClosedIfStopped(z)
  <2>1. SameWay(x, t) /\ t \in SegmentStates  BY <1>0, ContextSteps DEF SameWay
  <2>2. Translation!Only(s, c)  BY <1>3 DEF Translation!ChannelOpened
  <2> HIDE DEF t
  <2>3. SameWay(t, z) /\ z \in SegmentStates  BY <2>1 DEF SameWay, SegmentStates
  <2> HIDE DEF z
  <2>4. SameWay(z, c)  BY <2>3, ContextSteps
  <2> HIDE DEF c
  <2> QED  BY <1>a, <1>b, <2>1, <2>2, <2>3, <2>4, SameWayTwice
<1>4. CASE Translation!ChannelFailed(s)
  BY <1>0, <1>a, <1>b, <1>4 DEF Translation!ChannelFailed
<1>5. CASE Translation!TranscriptArrived(s)
  <2> DEFINE t == Translation!Streaming(x)
             z == [t EXCEPT !.text = TRUE]
  <2>1. SameWay(x, t) /\ t \in SegmentStates  BY <1>0, ContextSteps DEF SameWay
  <2>2. Translation!Only(s, z)  BY <1>5 DEF Translation!TranscriptArrived
  <2> HIDE DEF t
  <2>3. SameWay(t, z)  BY <2>1 DEF SameWay, SegmentStates
  <2> HIDE DEF z
  <2> QED  BY <1>a, <1>b, <2>1, <2>2, <2>3, SameWayTwice
<1>6. CASE Translation!ProviderClosed(s)
  <2> DEFINE c == Translation!Cleanup(x)
             r == IF x.text THEN "FINALIZING" ELSE "FALLBACK"
             z == [c EXCEPT !.closed = TRUE, !.rt = r]
  <2>1. SameWay(x, c) /\ c \in SegmentStates  BY <1>0, ContextSteps DEF SameWay
  <2>2. Translation!Only(s, Translation!Complete(z))  BY <1>6 DEF Translation!ProviderClosed
  <2>3. r \in {"FALLBACK"} \cup Translation!Final  BY DEF Translation!Final
  <2> HIDE DEF c, r
  <2>4. SameWay(c, z)  BY <2>1, <2>3 DEF SameWay, SegmentStates
  <2> HIDE DEF z
  <2> QED  BY <1>a, <1>b, <2>1, <2>2, <2>4, SameWayTwice
<1>7. CASE Translation!DrainExpired(s)
  <2> DEFINE y == [x EXCEPT !.drain = FALSE]
  <2>1. SameWay(x, y)  BY <1>0 DEF SameWay, SegmentStates
  <2>2. Translation!Only(s, y) \/ Translation!Only(s, Translation!Fallback(y))
    BY <1>7 DEF Translation!DrainExpired
  <2> HIDE DEF y
  <2> QED  BY <1>a, <1>b, <2>1, <2>2
<1>8. CASE Translation!CapExpired(s) /\ v2.recording # s
  <2> DEFINE y == [x EXCEPT !.cap = FALSE]
  <2>1. SameWay(x, y)  BY <1>0 DEF SameWay, SegmentStates
  <2>2. Translation!Only(s, y)  BY <1>8 DEF Translation!CapExpired
  <2> HIDE DEF y
  <2> QED  BY <1>a, <1>b, <2>1, <2>2
<1>9. CASE Translation!RetryDue(s)
  <2> DEFINE y == [x EXCEPT !.job = "finalize", !.attempt = @ + 1]
  <2>1. x.job = "wait" /\ Translation!Only(s, y)  BY <1>9 DEF Translation!RetryDue
  <2>2. x.attempt + 1 \in 0..2  BY <1>0, <2>1 DEF OneWay, SegmentStates
  <2>3. y \in SegmentStates /\ y.at = x.at /\ y.job = "finalize" /\ y.done = x.done /\ y.sent = x.sent
        /\ y.blob = x.blob
    BY <1>0, <2>2 DEF SegmentStates
  <2> HIDE DEF y
  <2>4. Good(y)  BY <1>0, <2>1, <2>3 DEF OneWay
  <2> QED  BY <1>b, <2>1, <2>4
<1> QED  BY <1>1, <1>2, <1>3, <1>4, <1>5, <1>6, <1>7, <1>8, <1>9

\* The recorder is stopped, stops or fails.
LEMMA RecorderKeeps ==
  ASSUME TranslationInv, NEW s \in Segments,
         \/ Translation!StopRecording(s) \/ Translation!RecorderFailed(s)
         \/ \E heard \in BOOLEAN : Translation!RecorderStopped(s, heard)
  PROVE  TranslationInv'
<1> DEFINE n == v4[s]
           x == v3[s]
<1>0. x \in SegmentStates /\ OneWay(x, n)
  BY TranslationTyped
<1>1. CASE Translation!StopRecording(s)
  <2> DEFINE y == [x EXCEPT !.stop = TRUE, !.at = "stopping"]
  <2>1. x.at = "recording"  BY <1>1 DEF TranslationInv, Translation!StopRecording
  <2>2. y \in SegmentStates /\ y.at = "stopping" /\ y.blob = x.blob /\ y.done = x.done /\ y.job = x.job
        /\ y.sent = x.sent /\ y.attempt = x.attempt
    BY <1>0 DEF SegmentStates
  <2>3. v3' = [v3 EXCEPT ![s] = Translation!RequestClose(y)] /\ v2' = Translation!Unrecorded(s) /\ UNCHANGED <<v1, v4>>
    BY <1>1 DEF Translation!StopRecording, Translation!Put
  <2> HIDE DEF y
  <2>4. OneWay(y, n)  BY <1>0, <2>1, <2>2 DEF OneWay
  <2>5. OneWay(Translation!RequestClose(y), n)  BY <2>2, <2>4, ContextSteps, SameWayKeeps
  <2> QED  BY <2>3, <2>5, UnrecordedKeeps
<1>2. CASE Translation!RecorderFailed(s)
  <2> DEFINE c == Translation!Cleanup(x)
             y == [c EXCEPT !.at = "over"]
  <2>1. v3' = [v3 EXCEPT ![s] = y] /\ v2' = Translation!Unrecorded(s) /\ UNCHANGED <<v1, v4>>
        /\ x.at \in {"recording", "stopping"}
    BY <1>2 DEF Translation!RecorderFailed, Translation!Put
  <2>2. SameWay(x, c) /\ c \in SegmentStates  BY <1>0, ContextSteps DEF SameWay
  <2> HIDE DEF c
  <2>3. y \in SegmentStates /\ y.at = "over" /\ y.blob = x.blob /\ y.done = x.done /\ y.job = x.job
        /\ y.sent = x.sent /\ y.attempt = x.attempt
    BY <2>2 DEF SegmentStates, SameWay
  <2> HIDE DEF y
  <2>4. OneWay(y, n)  BY <1>0, <2>1, <2>3 DEF OneWay
  <2> QED  BY <2>1, <2>4, UnrecordedKeeps
<1>3. ASSUME NEW heard \in BOOLEAN, Translation!RecorderStopped(s, heard) PROVE TranslationInv'
  <2> DEFINE y == [x EXCEPT !.at = "stopped"]
             b == [y EXCEPT !.blob = TRUE]
             c == Translation!Cleanup(y)
             o == [c EXCEPT !.at = "over"]
  <2>1. (v3' = [v3 EXCEPT ![s] = Translation!Complete(b)] \/ v3' = [v3 EXCEPT ![s] = o])
        /\ v2' = Translation!Unrecorded(s) /\ UNCHANGED <<v1, v4>> /\ x.at \in {"recording", "stopping"}
    BY <1>3 DEF Translation!RecorderStopped, Translation!Put
  <2>2. y \in SegmentStates /\ y.at = "stopped" /\ y.blob = x.blob /\ y.done = x.done /\ y.job = x.job
        /\ y.sent = x.sent /\ y.attempt = x.attempt
    BY <1>0 DEF SegmentStates
  <2> HIDE DEF y
  <2>3. b \in SegmentStates /\ b.at = "stopped" /\ b.done = x.done /\ b.job = x.job
        /\ b.sent = x.sent /\ b.attempt = x.attempt
    BY <2>2 DEF SegmentStates
  <2>4. SameWay(y, c) /\ c \in SegmentStates  BY <2>2, ContextSteps DEF SameWay
  <2> HIDE DEF b, c
  <2>5. o \in SegmentStates /\ o.at = "over" /\ o.blob = x.blob /\ o.done = x.done /\ o.job = x.job
        /\ o.sent = x.sent /\ o.attempt = x.attempt
    BY <2>2, <2>4 DEF SegmentStates, SameWay
  <2> HIDE DEF o
  <2>6. OneWay(b, n) /\ OneWay(o, n)  BY <1>0, <2>1, <2>3, <2>5 DEF OneWay
  <2> QED  BY <2>1, <2>6, CompleteKeeps, UnrecordedKeeps
<1> QED  BY <1>1, <1>2, <1>3

\* A segment that was not used asks for nothing.
LEMMA FreshSegment ==
  /\ Translation!Fresh \in SegmentStates
  /\ Translation!Fresh.at = "free" /\ ~Translation!Fresh.blob /\ ~Translation!Fresh.done
  /\ Translation!Fresh.job = "none" /\ Translation!Fresh.sent = {} /\ Translation!Fresh.attempt = 0
<1>1. 0 \in 0..PluginGens + 1 /\ {} \in SUBSET {"audio", "finalize"}
  BY CallsConstants DEF Translation!TranslationAssumption
<1> QED  BY <1>1 DEF Translation!Fresh, SegmentStates

\* A text is submitted, a recording starts.
LEMMA StartKeeps ==
  ASSUME TranslationInv, NEW s \in Segments,
         Translation!TextSubmitted(s) \/ \E realtime \in BOOLEAN : Translation!StartRecording(s, realtime)
  PROVE  TranslationInv'
<1> DEFINE n == v4[s]
<1>0. n = 0  /\ v3[s].at = "free"
  BY TranslationTyped DEF OneWay, Translation!TextSubmitted, Translation!StartRecording
<1>1. CASE Translation!TextSubmitted(s)
  <2> DEFINE f == Translation!Fresh
             y == [f EXCEPT !.at = "stopped", !.gen = v2.gen, !.done = TRUE, !.job = "text"]
  <2>1. v3' = [v3 EXCEPT ![s] = y] /\ UNCHANGED <<v1, v2, v4>>
    BY <1>1 DEF Translation!TextSubmitted, Translation!Only, Translation!Put
  <2> HIDE DEF f
  <2>0. v2.gen \in 0..PluginGens + 1  BY TranslationTyped
  <2>f. f \in SegmentStates /\ f.sent = {}  BY FreshSegment DEF f
  <2>2. y \in SegmentStates /\ y.at = "stopped" /\ y.done /\ y.sent = {} /\ y.job = "text"
    BY <2>0, <2>f DEF SegmentStates
  <2> HIDE DEF y
  <2>3. OneWay(y, n)  BY <1>0, <2>2 DEF OneWay
  <2>4. Translation!TypeOK'
    BY <2>1, <2>2, TranslationTyped DEF TranslationInv, Translation!TypeOK, SegmentStates
  <2>5. \A t \in Segments : v3'[t] = IF t = s THEN y ELSE v3[t]
    BY <2>1, TranslationTyped
  <2>6. v2.recording # s  BY <1>0 DEF TranslationInv
  <2> QED  BY <2>1, <2>3, <2>4, <2>5, <2>6 DEF TranslationInv
<1>2. ASSUME NEW realtime \in BOOLEAN, Translation!StartRecording(s, realtime) PROVE TranslationInv'
  <2> DEFINE r == IF realtime THEN "STARTING" ELSE "none"
             b == IF realtime THEN "session" ELSE "none"
             f == Translation!Fresh
             y == [f EXCEPT !.at = "recording", !.gen = v2.gen, !.rt = r, !.start = b]
  <2>1. v3' = [v3 EXCEPT ![s] = y] /\ v2' = [v2 EXCEPT !.recording = s] /\ UNCHANGED <<v1, v4>> /\ v2.recording = None
    BY <1>2 DEF Translation!StartRecording, Translation!Put
  <2>2. r \in {"STARTING", "none"} /\ b \in {"session", "none"}  OBVIOUS
  <2> HIDE DEF r, b, f
  <2>0. v2.gen \in 0..PluginGens + 1  BY TranslationTyped
  <2>f. f \in SegmentStates /\ f.sent = {} /\ ~f.done /\ ~f.blob /\ f.job = "none"  BY FreshSegment DEF f
  <2>3. y \in SegmentStates /\ y.at = "recording" /\ ~y.done /\ y.sent = {} /\ y.job = "none" /\ ~y.blob
    BY <2>0, <2>2, <2>f DEF SegmentStates
  <2> HIDE DEF y
  <2>4. OneWay(y, n)  BY <1>0, <2>3 DEF OneWay
  <2>5. v2'.recording = s /\ v2'.gen = v2.gen /\ v2'.seen = v2.seen
    BY <2>1 DEF TranslationInv, Translation!TypeOK
  <2>6. Translation!TypeOK'
    BY <2>1, <2>3, TranslationTyped DEF TranslationInv, Translation!TypeOK, SegmentStates
  <2>7. \A t \in Segments : v3'[t] = IF t = s THEN y ELSE v3[t]
    BY <2>1, TranslationTyped
  <2> QED  BY <2>1, <2>3, <2>4, <2>5, <2>6, <2>7 DEF TranslationInv
<1> QED  BY <1>1, <1>2

\* A result shown for the first time.
LEMMA ShownKeeps ==
  ASSUME TranslationInv, NEW r \in Translation!Results, v4[r] = 0,
         v2' = Translation!Seen(r), v4' = Translation!Counted(r), v1' = v1,
         v3' \in [Segments -> SegmentStates],
         \A s \in Segments : IF s = r THEN OneWay(v3'[s], 1) ELSE v3'[s] = v3[s],
         \A s \in Segments : v3'[s].at = v3[s].at
  PROVE  TranslationInv'
<1>1. v4 \in [Translation!Results -> 0..MaxShown] /\ MaxShown \in Nat \ {0, 1}
  BY CallsConstants DEF TranslationInv, Translation!TypeOK, Translation!TranslationAssumption
<1>0. 0 < MaxShown /\ 0 + 1 = 1 /\ 1 \in 0..MaxShown  BY <1>1
<1>2. v4' = [v4 EXCEPT ![r] = 1]
  <2>1. v4' = [v4 EXCEPT ![r] = IF v4[r] < MaxShown THEN v4[r] + 1 ELSE v4[r]]  BY <1>1 DEF Translation!Counted
  <2>2. (IF v4[r] < MaxShown THEN v4[r] + 1 ELSE v4[r]) = 1  BY <1>0
  <2> QED  BY <2>1, <2>2
<1>3. v2' = [v2 EXCEPT !.seen = v2.seen \cup {r}, !.shown = r]
  BY DEF Translation!Seen
<1>4. v2'.recording = v2.recording /\ v2'.gen = v2.gen /\ v2'.seen = v2.seen \cup {r}
  BY <1>3 DEF TranslationInv, Translation!TypeOK
<1>5. Translation!TypeOK'
  <2>1. v4' \in [Translation!Results -> 0..MaxShown]  BY <1>0, <1>1, <1>2
  <2>2. v2' \in [gen : 1..PluginGens + 1, recording : Segments \cup {None},
                 shown : Translation!Results \cup {None}, seen : SUBSET Translation!Results]
    <3> DEFINE R == Translation!Results
               S == v2.seen \cup {r}
    <3>1. v2 \in [gen : 1..PluginGens + 1, recording : Segments \cup {None}, shown : R \cup {None}, seen : SUBSET R]
      BY DEF TranslationInv, Translation!TypeOK
    <3> HIDE DEF R
    <3>2. r \in R /\ v2.seen \in SUBSET R  BY <3>1 DEF R
    <3>3. S \in SUBSET R  BY <3>2
    <3>4. v2' = [v2 EXCEPT !.seen = S, !.shown = r]  BY <1>3
    <3> HIDE DEF S
    <3>5. v2' \in [gen : 1..PluginGens + 1, recording : Segments \cup {None}, shown : R \cup {None}, seen : SUBSET R]
      BY <3>1, <3>2, <3>3, <3>4
    <3> QED  BY <3>5 DEF R
  <2> QED  BY <2>1, <2>2 DEF TranslationInv, Translation!TypeOK, SegmentStates
<1>6. \A s \in Segments : s \in Translation!Results  BY DEF Translation!Results
<1>7. \A s \in Segments : OneWay(v3'[s], v4'[s])
  BY <1>1, <1>2, <1>6 DEF TranslationInv
<1>8. \A q \in Translation!Results : v4'[q] <= 1 /\ (v4'[q] # 0 => q \in v2'.seen)
  BY <1>1, <1>2, <1>4 DEF TranslationInv
<1> QED  BY <1>4, <1>5, <1>7, <1>8 DEF TranslationInv

\* A translation's or a finalization's answer: shown, given up or retried.
LEMMA ReplyKeeps ==
  ASSUME TranslationInv, NEW s \in Segments,
         \/ \E ok \in BOOLEAN : Translation!TranslationReplied(s, ok)
         \/ \E o \in Translation!Outcomes : Translation!FinalizeReplied(s, o)
  PROVE  TranslationInv'
<1> DEFINE n == v4[s]
           x == v3[s]
           y == [x EXCEPT !.job = "none"]
           z == [y EXCEPT !.rt = "RETRY_FINALIZE"]
           c == Translation!Cleanup(z)
           e == [c EXCEPT !.rt = "COMPLETED", !.blob = FALSE]
           w == [z EXCEPT !.job = "wait"]
<1>0. x \in SegmentStates /\ OneWay(x, n) /\ v3 \in [Segments -> SegmentStates] /\ s \in Translation!Results
  BY TranslationTyped
<1>1. \/ Translation!Show(s, y) /\ x.job \in {"text", "audio"}
      \/ Translation!Show(s, e) /\ x.job = "finalize"
      \/ Translation!Only(s, y) \/ Translation!Only(s, z)
      \/ Translation!Only(s, w) /\ x.attempt < 2 /\ x.job = "finalize"
  BY DEF Translation!TranslationReplied, Translation!FinalizeReplied
<1>2. y \in SegmentStates /\ y.at = x.at /\ y.blob = x.blob /\ y.done = x.done /\ y.job = "none"
      /\ y.sent = x.sent /\ y.attempt = x.attempt
  BY <1>0 DEF SegmentStates
<1> HIDE DEF y
<1>3. SameWay(y, z) /\ z \in SegmentStates  BY <1>2 DEF SameWay, SegmentStates, Translation!Final
<1> HIDE DEF z
<1>4. SameWay(z, c) /\ c \in SegmentStates  BY <1>3, ContextSteps DEF SameWay
<1> HIDE DEF c
<1>c. c.at = x.at /\ c.done = x.done /\ c.job = "none" /\ c.sent = x.sent /\ c.attempt = x.attempt
  BY <1>2, <1>3, <1>4 DEF SameWay
<1>5. e \in SegmentStates /\ e.at = x.at /\ ~e.blob /\ e.done = x.done /\ e.job = "none"
      /\ e.sent = x.sent /\ e.attempt = x.attempt
  BY <1>4, <1>c DEF SegmentStates, Translation!Final
<1>6. w \in SegmentStates /\ w.at = x.at /\ w.blob = x.blob /\ w.done = x.done /\ w.job = "wait"
      /\ w.sent = x.sent /\ w.attempt = x.attempt
  BY <1>2, <1>3 DEF SegmentStates, SameWay
<1> HIDE DEF e, w
<1>7. OneWay(y, n) /\ OneWay(z, n) /\ z.at = x.at  BY <1>0, <1>2, <1>3, SameWayKeeps DEF OneWay, SameWay
<1>8. x.attempt < 2 /\ x.job = "finalize" => OneWay(w, n)  BY <1>0, <1>6 DEF OneWay
<1>9. ASSUME NEW v \in {y, e}, Translation!Show(s, v), x.job # "none" PROVE TranslationInv'
  <2>1. n = 0 /\ OneWay(v, 1) /\ v.at = x.at /\ v \in SegmentStates
    BY <1>0, <1>2, <1>5, <1>9 DEF OneWay
  <2>2. v3' = [v3 EXCEPT ![s] = v] /\ v2' = Translation!Seen(s) /\ v4' = Translation!Counted(s) /\ v1' = v1
    BY <1>9 DEF Translation!Show, Translation!Put
  <2>3. v3' \in [Segments -> SegmentStates] /\ \A t \in Segments : v3'[t] = IF t = s THEN v ELSE v3[t]
    BY <1>0, <2>1, <2>2
  <2> QED  BY <1>0, <2>1, <2>2, <2>3, ShownKeeps
<1>10. ASSUME NEW v, Translation!Only(s, v), OneWay(v, n), v.at = x.at PROVE TranslationInv'
  BY <1>10, OnlyKeeps DEF Translation!Only, Translation!Put
<1> QED  BY <1>1, <1>2, <1>6, <1>7, <1>8, <1>9, <1>10

\* The panel or the call ends: every segment is torn down.
LEMMA EndKeeps ==
  ASSUME TranslationInv, Translation!ClosePanel \/ Translation!CallEnds
  PROVE  TranslationInv'
<1>1. /\ v2' = [v2 EXCEPT !.gen = @ + 1, !.recording = None, !.shown = None]
      /\ v3' = [s \in Segments |-> Translation!Gone(v3[s])] /\ v4' = v4
      /\ v1' \in BOOLEAN /\ v2.gen <= PluginGens /\ (v1' => v2.gen < PluginGens)
  BY CallsConstants DEF TranslationInv, Translation!TypeOK, Translation!ClosePanel, Translation!CallEnds,
                        Translation!Teardown, Translation!TranslationAssumption
<1>2. /\ v2.gen \in 1..PluginGens + 1 /\ PluginGens \in Nat /\ None \notin Segments
  BY CallsConstants DEF TranslationInv, Translation!TypeOK, Translation!TranslationAssumption
<1>3. v2'.gen = v2.gen + 1 /\ v2'.recording = None /\ v2'.shown = None /\ v2'.seen = v2.seen
      /\ v2' \in [gen : 1..PluginGens + 1, recording : Segments \cup {None},
                  shown : Translation!Results \cup {None}, seen : SUBSET Translation!Results]
  <2>1. v2.gen + 1 \in 1..PluginGens + 1  BY <1>1, <1>2
  <2> QED  BY <1>1, <2>1 DEF TranslationInv, Translation!TypeOK
<1>4. ASSUME NEW s \in Segments
      PROVE  Translation!Gone(v3[s]) \in SegmentStates /\ OneWay(Translation!Gone(v3[s]), v4[s])
  <2>1. CASE v3[s].at = "free"
    BY <2>1, TranslationTyped DEF Translation!Gone
  <2>2. CASE v3[s].at # "free"
    <3> DEFINE f == Translation!Fresh
               y == [f EXCEPT !.at = "over", !.gen = v3[s].gen, !.sent = v3[s].sent]
    <3>0. v3[s].gen \in 0..PluginGens + 1 /\ v3[s].sent \in SUBSET {"audio", "finalize"}
      BY TranslationTyped DEF SegmentStates
    <3> HIDE DEF f
    <3>f. f \in SegmentStates /\ ~f.done /\ ~f.blob /\ f.job = "none"  BY FreshSegment DEF f
    <3>1. y \in SegmentStates /\ y.at = "over" /\ ~y.blob /\ ~y.done /\ y.job = "none" /\ y.sent = v3[s].sent
      BY <3>0, <3>f DEF SegmentStates
    <3>2. Translation!Gone(v3[s]) = y  BY <2>2 DEF Translation!Gone, f
    <3> HIDE DEF y
    <3> QED  BY <3>1, <3>2, TranslationTyped DEF OneWay
  <2> QED  BY <2>1, <2>2
<1>5. Translation!TypeOK'
  BY <1>1, <1>3, <1>4 DEF TranslationInv, Translation!TypeOK, SegmentStates
<1> QED  BY <1>1, <1>2, <1>3, <1>4, <1>5 DEF TranslationInv

LEMMA TranslationStart == Init => TranslationPart
<1> SUFFICES ASSUME Translation!Init PROVE TranslationInv
  BY DEF Init, TranslationPart
<1>1. Translation!Fresh \in SegmentStates /\ OneWay(Translation!Fresh, 0)
  BY CallsConstants DEF Translation!Fresh, SegmentStates, OneWay, Translation!TranslationAssumption
<1>2. Translation!TypeOK
  BY <1>1, CallsConstants DEF Translation!Init, Translation!TypeOK, SegmentStates, Translation!TranslationAssumption
<1> QED  BY <1>1, <1>2, CallsConstants DEF Translation!Init, TranslationInv, Translation!Results,
                                             Translation!TranslationAssumption

LEMMA TranslationStep == TranslationPart /\ [Next]_vars => TranslationPart'
<1> SUFFICES ASSUME TranslationPart, [Next]_vars PROVE TranslationPart'
  OBVIOUS
<1>1. CASE which = "translation"
  <2>1. [Translation!Next]_Translation!vars /\ TranslationInv
    BY <1>1 DEF Next, vars, Step, Translation!vars, TranslationPart
  <2>2. which' = "translation"  BY <1>1 DEF Next, vars, Step
  <2>3. ASSUME UNCHANGED Translation!vars PROVE TranslationInv'
    <3>1. v1' = v1 /\ v2' = v2 /\ v3' = v3 /\ v4' = v4  BY <2>3 DEF Translation!vars
    <3> QED  BY <2>1, <3>1 DEF TranslationInv, Translation!TypeOK
  <2>4. ASSUME NEW s \in Segments, Translation!CapExpired(s) PROVE TranslationInv'
    <3>1. CASE v2.recording = s
      BY <2>1, <2>4, <3>1, RecorderKeeps DEF Translation!CapExpired
    <3>2. CASE v2.recording # s
      BY <2>1, <2>4, <3>2, ContextKeeps
    <3> QED  BY <3>1, <3>2
  <2>5. ASSUME NEW r \in PeerResults, Translation!PeerResult(r) PROVE TranslationInv'
    <3>1. r \in Translation!Results /\ v4[r] = 0
      BY <2>1, <2>5 DEF Translation!PeerResult, Translation!Results, TranslationInv, Translation!TypeOK
    <3>2. \A s \in Segments : s # r
      BY CallsConstants DEF Translation!TranslationAssumption
    <3>3. v3' = v3 /\ v1' = v1 /\ v2' = Translation!Seen(r) /\ v4' = Translation!Counted(r)
      BY <2>5 DEF Translation!PeerResult
    <3>4. v3 \in [Segments -> SegmentStates]
      BY <2>1 DEF TranslationInv, Translation!TypeOK, SegmentStates
    <3> QED  BY <2>1, <3>1, <3>2, <3>3, <3>4, ShownKeeps
  <2>6. ASSUME NEW s \in Segments,
               \/ \E realtime \in BOOLEAN : Translation!StartRecording(s, realtime)
               \/ Translation!StopRecording(s) \/ Translation!CapExpired(s)
               \/ \E heard \in BOOLEAN : Translation!RecorderStopped(s, heard)
               \/ Translation!RecorderFailed(s)
               \/ \E ok \in BOOLEAN : Translation!SessionReplied(s, ok)
               \/ \E ok \in BOOLEAN : Translation!SdpReplied(s, ok)
               \/ \E ok \in BOOLEAN : Translation!TranslationReplied(s, ok)
               \/ \E o \in Translation!Outcomes : Translation!FinalizeReplied(s, o)
               \/ Translation!ChannelOpened(s) \/ Translation!ChannelFailed(s)
               \/ Translation!TranscriptArrived(s) \/ Translation!ProviderClosed(s)
               \/ Translation!DrainExpired(s) \/ Translation!RetryDue(s) \/ Translation!TextSubmitted(s)
        PROVE  TranslationInv'
    BY <2>1, <2>4, <2>6, StartKeeps, RecorderKeeps, ReplyKeeps, ContextKeeps
  <2>7. TranslationInv'
    BY <2>1, <2>3, <2>5, <2>6, EndKeeps DEF Translation!Next
  <2> QED  BY <2>2, <2>7 DEF TranslationPart
<1>2. CASE which # "translation"  BY <1>2 DEF Next, vars, Step, TranslationPart
<1> QED  BY <1>1, <1>2

\* Nothing of a call outlives it: a session that is not the current one has no live
\* microphone, no open connection and no ring that sounds, whatever its promises do when
\* they settle late (call-v1/media.js, ring-audio.js).
THEOREM CallsEndClean == Spec => []NothingOutlivesItsCall
<1>1. CallPart => NothingOutlivesItsCall
  BY DEF CallPart, NothingOutlivesItsCall, Call!IInv, Call!NothingOutlivesItsCall, Call!Idle, Call!Given
<1> QED  BY <1>1, CallStart, CallStep, PTL DEF Spec

\* The call client implements the line of the device: every step of a session, of a late
\* promise, of a poll or of the user takes the line, uses it, frees it or leaves it alone
\* (call-v1/runtime.js).
THEOREM CallsKeepOneLine == Spec => OneLine
<1>1. Init => (which = "call" => Call!Line!PhoneInit)
  BY DEF Init, Call!Init, Call!Line!PhoneInit, Call!Line!Off, Call!Blank, Call!Silent
<1>2. CallPart /\ [Next]_vars => (which = "call" => Call!Line!PhoneNext \/ UNCHANGED Call!Line!phone)
  <2> SUFFICES ASSUME CallPart, [Next]_vars, which = "call" PROVE Call!Line!PhoneNext \/ UNCHANGED Call!Line!phone
    OBVIOUS
  <2>1. [Call!Next]_Call!vars  BY DEF Next, vars, Step, Call!vars
  <2> QED  BY <2>1, CallsConstants, Call!LineStep DEF CallPart
<1> QED  BY <1>1, <1>2, CallStart, CallStep, PTL DEF Spec, OneLine

\* Nothing is spoken into the call while the microphone is muted or after its end,
\* whatever request or decoding was under way (call-v1/translation_plugin.js).
THEOREM MutedIsSilent == Spec => []MutedSpeaksNothing
<1>1. VoicePart => MutedSpeaksNothing
  BY DEF VoicePart, MutedSpeaksNothing, VoiceInv
<1> QED  BY <1>1, VoiceStart, VoiceStep, PTL DEF Spec

\* However the stream, the polls and the loads of the page overlap, the saved cursor never
\* passes an event that no load of the page has taken (messaging_core_v2.js).
THEOREM CursorSafe == Spec => []NothingSkipped
<1>1. EventsPart => NothingSkipped
  BY DEF EventsPart, NothingSkipped, EventsInv, LogCovered, Events!NothingSkipped
<1> QED  BY <1>1, EventsStart, EventsStep, PTL DEF Spec

\* A tab that rings, plays the ringback or a chime holds the lock, so no two tabs sound, and its
\* ringback sounds with neither of the others (timeblock_call_runtime.js, call_audio_ownership.js),
\* for any number of tabs and calls.
THEOREM TabsSoundOneByOne == Spec => []TabsSoundInTurn
<1>1. TabsPart => TabsSoundInTurn
  BY DEF TabsPart, TabsInv, InTune, TabsSoundInTurn, Tabs!AudibleTabHoldsLock, Tabs!OneTone
<1> QED  BY <1>1, TabsStart, TabsStep, PTL DEF Spec

\* A segment's translation comes by one path and no result is shown twice, whatever timer,
\* retry, channel or early close settles it (call-v1/translation_plugin.js).
THEOREM TranslationsOnce == Spec => []TranslatedOnce
<1>1. TranslationPart => TranslatedOnce
  <2> SUFFICES ASSUME TranslationInv PROVE Translation!OnePath /\ Translation!ShownOnce
    BY DEF TranslationPart, TranslatedOnce
  <2>1. ASSUME NEW s \in Segments PROVE ~({"audio", "finalize"} \subseteq v3[s].sent)
    BY DEF TranslationInv, OneWay
  <2>2. Translation!OnePath  BY <2>1 DEF Translation!OnePath
  <2>3. Translation!ShownOnce  BY DEF TranslationInv, Translation!ShownOnce
  <2> QED  BY <2>2, <2>3
<1> QED  BY <1>1, TranslationStart, TranslationStep, PTL DEF Spec

\* The state of every part keeps its type: for the voice, that the closings of its panel under
\* way when the generations' bound is met add no more than the chain had room for
\* (call-v1/translation_plugin.js: closePanel, _teardown).
THEOREM CallsTyped == Spec => []CallsTypeOK
<1> DEFINE All == CallPart /\ TabsPart /\ VoiceTypesPart /\ TranslationPart /\ EventsPart /\ which \in Parts
<1>1. Init => All
  <2>1. Init => which \in Parts  BY DEF Init
  <2> QED  BY <2>1, CallStart, TabsStart, VoiceTypesStart, TranslationStart, EventsStart
<1>2. All /\ [Next]_vars => All'
  <2>1. which \in Parts /\ [Next]_vars => (which \in Parts)'  BY DEF Next, vars, Step
  <2> QED  BY <2>1, CallStep, TabsStep, VoiceTypesStep, TranslationStep, EventsStep
<1>3. All => CallsTypeOK
  <2> SUFFICES ASSUME All PROVE CallsTypeOK  OBVIOUS
  <2>1. which = "call" => Call!TypeOK  BY DEF CallPart, Call!IInv
  <2>2. which = "tabs" => Tabs!TypeOK  BY DEF TabsPart, TabsInv
  <2>3. which = "voice" => Voice!TypeOK  BY VoiceTypes DEF VoiceTypesPart
  <2>4. which = "translation" => Translation!TypeOK  BY DEF TranslationPart, TranslationInv
  <2>5. which = "events" => Events!TypeOK  BY DEF EventsPart, EventsInv
  <2> QED  BY <2>1, <2>2, <2>3, <2>4, <2>5 DEF CallsTypeOK
<1> QED
  <2> HIDE DEF All
  <2> QED  BY <1>1, <1>2, <1>3, PTL DEF Spec
=============================================================================
