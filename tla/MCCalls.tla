------------------------------- MODULE MCCalls -------------------------------
(***************************************************************************)
(* The browser's calls and the event stream that drives the page, checked by *)
(* one run for safety and one for liveness.  A behaviour is one of one part, *)
(* chosen at the start: the parts share no state, and checking their product *)
(* would multiply their states.  A part whose theorems are proved is         *)
(* instantiated with its proofs, for MCCallsProofs to cite them.             *)
(***************************************************************************)
EXTENDS Integers, Sequences, FiniteSets

CONSTANTS
  Parts,  \* the parts this run checks
  CallsOut, CallsIn, None, CallGens, CallTabSet, Nobody, Assistant,
  TabRequests, VoiceMixers, VoiceSends, VoiceGens, VoiceOps, Segments,
  PeerResults, PluginGens, MaxShown, MaxEvents, MaxLoads

VARIABLE which  \* the part that runs

\* Only one part runs: the parts' variables are the same ones, as many as it takes.
VARIABLES v1, v2, v3, v4, v5, v6, v7, v8, v9, v10, v11, v12

vars == <<which, v1, v2, v3, v4, v5, v6, v7, v8, v9, v10, v11, v12>>

Call == INSTANCE CallClientProofs WITH
  Outgoing <- CallsOut, Incoming <- CallsIn, NoCall <- None, Trickled <- CallsOut,
  MaxGen <- CallGens, open <- v1, gen <- v2, cur <- v3, ses <- v4, op <- v5, ring <- v6, owner <- v7,
  poll <- v8, pending <- v9, leaving <- v10, server <- v11, ice <- v12
Tabs == INSTANCE CallTabs WITH
  Tabs <- CallTabSet, In <- CallsIn, Out <- CallsOut, MaxRequests <- TabRequests, lock <- v1,
  tab <- v2, ringing <- v3, rung <- v4
Voice == INSTANCE CallVoice WITH
  MaxMixers <- VoiceMixers, MaxSends <- VoiceSends, MaxGen <- VoiceGens, MaxOps <- VoiceOps,
  live <- v1, muted <- v2, plug <- v3, mixers <- v4, sends <- v5, sender <- v6, chain <- v7
Translation == INSTANCE CallTranslation WITH
  MaxGen <- PluginGens, live <- v1, plug <- v2, seg <- v3, shows <- v4
Events == INSTANCE MessagingEvents WITH
  log <- v1, stored <- v2, loads <- v3, taken <- v4, sync <- v5

\* What the parts assume of their constants.
ASSUME CallsConstants ==
  /\ Call!CallsAssumption
  /\ Tabs!TabsAssumption
  /\ Voice!BoundsAssumption
  /\ Translation!TranslationAssumption
  /\ Events!EventsAssumption

\* Those the properties below name.
c_open == v1
c_gen == v2
c_cur == v3
c_ses == v4
c_ring == v6
c_pending == v9
c_server == v11
t_tab == v2
t_ringing == v3
v_live == v1
v_muted == v2
v_plug == v3
r_seg == v3
e_log == v1
e_loads == v3
e_taken == v4
e_sync == v5

\* The first n variables are the part's, the others have no value.
Unused(n) ==
  /\ n < 5 => v5 = None
  /\ n < 6 => v6 = None
  /\ n < 7 => v7 = None
  /\ n < 8 => v8 = None
  /\ n < 9 => v9 = None
  /\ n < 10 => v10 = None
  /\ n < 11 => v11 = None
  /\ n < 12 => v12 = None
Stay(n) ==
  /\ n < 5 => UNCHANGED v5
  /\ n < 6 => UNCHANGED v6
  /\ n < 7 => UNCHANGED v7
  /\ n < 8 => UNCHANGED v8
  /\ n < 9 => UNCHANGED v9
  /\ n < 10 => UNCHANGED v10
  /\ n < 11 => UNCHANGED v11
  /\ n < 12 => UNCHANGED v12

Init ==
  \/ which = "call" /\ "call" \in Parts /\ Call!Init /\ Unused(12)
  \/ which = "tabs" /\ "tabs" \in Parts /\ Tabs!Init /\ Unused(4)
  \/ which = "voice" /\ "voice" \in Parts /\ Voice!Init /\ Unused(7)
  \/ which = "translation" /\ "translation" \in Parts /\ Translation!Init /\ Unused(4)
  \/ which = "events" /\ "events" \in Parts /\ Events!Init /\ Unused(5)

Step(part, n) == which = part /\ UNCHANGED which /\ Stay(n)

Next ==
  \/ Step("call", 12) /\ Call!Next
  \/ Step("tabs", 4) /\ Tabs!Next
  \/ Step("voice", 7) /\ Voice!Next
  \/ Step("translation", 4) /\ Translation!Next
  \/ Step("events", 5) /\ Events!Next

Spec == Init /\ [][Next]_vars

\* The fairness each module assumes, of the part that runs.
Fairness ==
  /\ \A g \in Call!Gens :
       /\ WF_vars(Step("call", 12) /\ Call!SetupSettles(g))
       /\ WF_vars(Step("call", 12) /\ Call!RingSettles(g))
       /\ WF_vars(Step("call", 12) /\ Call!IceSent(g))
  /\ WF_vars(Step("call", 12) /\ Call!PollRead)
  /\ WF_vars(Step("call", 12) /\ Call!PollSettles)
  /\ \A k \in Call!Calls :
       /\ WF_vars(Step("call", 12) /\ Call!Missed(k))
  /\ \A t \in CallTabSet :
       /\ WF_vars(Step("tabs", 4) /\ Tabs!LockAnswered(t))
       /\ WF_vars(Step("tabs", 4) /\ Tabs!PollApplied(t))
       /\ WF_vars(Step("tabs", 4) /\ (Tabs!RingtoneLoaded(t) \/ Tabs!RingtoneRefused(t)))
       /\ WF_vars(Step("tabs", 4) /\ Tabs!RingtoneStarted(t))
  /\ \A m \in Voice!Mixers :
       /\ WF_vars(Step("voice", 7) /\ (Voice!ContextResumed(m) \/ Voice!ContextRefused(m)))
  /\ WF_vars(Step("voice", 7) /\ (Voice!TrackReplaced \/ Voice!TrackRefused))
  /\ \A s \in Segments :
       /\ WF_vars(Step("translation", 4) /\ Translation!Settling(s))
       /\ WF_vars(Step("translation", 4) /\ Translation!Timers(s))
       /\ WF_vars(Step("translation", 4) /\ Translation!Stopping(s))
  /\ WF_vars(Step("events", 5) /\ Events!StreamOpened)
  /\ SF_vars(Step("events", 5) /\ Events!StreamEvent)
  /\ WF_vars(Step("events", 5) /\ Events!RefreshDue)
  /\ WF_vars(Step("events", 5) /\ Events!PollDue)
  /\ WF_vars(Step("events", 5) /\ Events!ReconnectDue)
  /\ WF_vars(Step("events", 5) /\ (Events!PollFailed \/ Events!PollRefused \/ \E more \in BOOLEAN : Events!PollReplied(e_log, more)))
  /\ SF_vars(Step("events", 5) /\ (\E more \in BOOLEAN : Events!PollReplied(e_log, more)))

FairSpec == Spec /\ Fairness

-----------------------------------------------------------------------------
(* Properties: those of the parts, under their names. *)

\* The state of the part that runs is well-formed.
CallsTypeOK ==
  /\ which \in Parts
  /\ which = "call" => Call!TypeOK
  /\ which = "tabs" => Tabs!TypeOK
  /\ which = "voice" => Voice!TypeOK
  /\ which = "translation" => Translation!TypeOK
  /\ which = "events" => Events!TypeOK

Calls(p) == which = "call" /\ p
TabsRun(p) == which = "tabs" /\ p

\* Nothing of a call outlives it: a session that is not the current one has no
\* live microphone, no open connection and no ring that sounds, whatever its
\* promises do when they settle late (media.js, ring-audio.js).
NothingOutlivesItsCall == which = "call" => Call!NothingOutlivesItsCall

\* The client implements the line: every step of a session, of a late promise, of a
\* poll or of the user takes it, uses it, frees it or leaves it alone.
OneLine ==
  /\ which = "call" => Call!Line!PhoneInit
  /\ [][which = "call" => Call!Line!PhoneNext \/ UNCHANGED Call!Line!phone]_vars

\* A tab that rings, or plays the ringback, holds the lock: no two tabs sound, and none while
\* the assistant page does, whatever request, script, promise or answer arrives late; and a
\* tab does not ring while it plays the ringback.
TabsSoundInTurn == which = "tabs" => Tabs!AudibleTabHoldsLock /\ Tabs!OneTone

\* Nothing is spoken into the call while the microphone is muted or after its
\* end, whatever request or decoding was under way.
MutedSpeaksNothing == which = "voice" => Voice!MutedSpeaksNothing

\* A segment's translation comes by one path and is shown once: the requests, the timers
\* and the early close of the plugin never settle a segment twice.
TranslatedOnce == which = "translation" => Translation!OnePath /\ Translation!ShownOnce

\* However the stream, the polls and the loads of the page overlap, the cursor
\* saved never passes an event that no load of the page has taken: a load that
\* starts from it misses none.
NothingSkipped == which = "events" => Events!NothingSkipped

\* A ring does not sound for ever, a session whose call is over at the server is closed, and
\* a ringing call is shown by a page that is free for it.
CallsMoveOn ==
  /\ \A g \in Call!Gens :
       /\ Calls(c_ring[g].sounds) ~> Calls(~c_ring[g].sounds \/ Call!PollWaits)
       /\ Calls(c_cur = g /\ c_ses[g].call # None /\ c_server[c_ses[g].call] = "over") ~> Calls(c_cur # g \/ Call!PollWaits)
  /\ \A k \in CallsIn :
       Calls(c_server[k] = "ringing" /\ c_cur = 0) ~>
         Calls(\/ c_server[k] # "ringing" \/ c_cur # 0 \/ c_pending # None
               \/ Call!PollWaits \/ ~c_open \/ c_gen = CallGens)

\* The tab that leads rings for the call it shows, unless the ringtone's script could not
\* be loaded (a failure the tab keeps), and its ringback ends with the call's ringing.
TabsMoveOn ==
  /\ \A t \in CallTabSet, k \in CallsIn :
       TabsRun(t_tab[t].leader /\ t_tab[t].incoming = k) ~>
         TabsRun(~t_tab[t].leader \/ t_tab[t].incoming # k \/ t_tab[t].audio = k
                 \/ t_tab[t].script = "failed")
  /\ \A t \in CallTabSet, k \in CallsOut :
       TabsRun(t_tab[t].back = k /\ k \notin t_ringing) ~>
         TabsRun(t_tab[t].back # k \/ k \in t_ringing)

\* The Auto Read control, disabled while its mixer is prepared, is given back
\* to an unmuted call, whatever closes, mutes or fails meanwhile.
ControlFreed ==
  (which = "voice" /\ v_live /\ ~v_muted) ~>
    (which # "voice" \/ ~v_live \/ v_muted \/ ~v_plug.disabled)

\* A recording the user stopped is translated, refused or given up, unless the
\* provider had closed its session first.
StoppedSegmentEnds ==
  \A s \in Segments :
   (which = "translation" /\ r_seg[s].stop) ~>
    (which # "translation" \/ r_seg[s].at = "over" \/ (r_seg[s].done /\ r_seg[s].job = "none")
      \/ Translation!LostByEarlyClose(s))

\* An event logged after the page has read its account's past refreshes the
\* page, unless it is hidden, its session expires or it is loaded again - or a
\* later page of the poll that found it fails, which loses the refresh.
EventsArrive ==
  \A e \in 1 .. MaxEvents, n \in 1 .. MaxLoads :
   (which = "events" /\ e <= e_log /\ e \notin e_taken /\ ~e_sync.boot /\ e_loads = n /\ e_sync.me) ~>
    (which # "events" \/ e \in e_sync.refreshed \cup e_sync.dropped \/ e_sync.expired \/ e_sync.hidden
      \/ e_loads # n)
=============================================================================
