------------------------------ MODULE CallTabs ------------------------------
(***************************************************************************)
(* The call audio of an account's open tabs: one timeblock_call_runtime.js *)
(* per tab, each polling the call list, electing the one that may be heard *)
(* through a browser lock, with its ringtone controller                    *)
(* (incoming_call_ringtone.js) and its ringback; and the assistant page,   *)
(* which takes the lock and silences the others                            *)
(* (call_audio_ownership.js).                                              *)
(*                                                                         *)
(* Browsers with the Web Locks API only: the storage lease used without it *)
(* is not modelled.  A tab's polls overlap: the timer does not wait for    *)
(* the last answer.                                                        *)
(***************************************************************************)
EXTENDS Naturals

CONSTANTS Tabs, In, Out,  \* calls to this account, calls of this account
          Nobody, Assistant, None,
          MaxRequests     \* bound: lock requests of a tab not yet answered

TabsAssumption ==
  /\ {Nobody, Assistant} \cap Tabs = {}
  /\ Nobody # Assistant
  /\ None \notin In \cup Out
  /\ MaxRequests \in Nat \ {0}

VARIABLES
  lock,      \* holder of the browser lock timeblock-call-runtime-audio
  tab,       \* tab -> its runtime's state
  ringing,   \* external: the calls that ring at the server
  rung       \* external: the calls that have rung

vars == <<lock, tab, ringing, rung>>
external == <<ringing, rung>>

\* leader, lockHeld, lockPending; lock requests under way; the calls shown and
\* placed; ringtone starts waiting for the script; the ringtone's claim on a
\* call (incomingAudioId) and what it does; the ringtone's script (ringtonePromise);
\* the ringback and, on its audio context, a missed call's chime; a reject under way.
Fresh == [up |-> TRUE, leader |-> FALSE, held |-> FALSE, pending |-> FALSE, requests |-> 0,
          incoming |-> None, outgoing |-> None, loading |-> {}, audio |-> None,
          tone |-> None, sounds |-> FALSE, script |-> "unknown", back |-> None, chime |-> FALSE,
          rejecting |-> None]

Init ==
  /\ lock = Nobody
  /\ tab = [t \in Tabs |-> Fresh]
  /\ ringing = {}
  /\ rung = {}

-----------------------------------------------------------------------------
(* Audio *)

\* stopIncoming: the ringtone's generation moves on, a start under way included.
StopIncoming(s) == [s EXCEPT !.audio = None, !.tone = None, !.sounds = FALSE]

\* Mutant: the pulses' timer goes on.
StopRingbackLater(s) == s

\* Its context is closed, with the chime that plays on it.
StopRingback(s) == [s EXCEPT !.back = None, !.chime = FALSE]
StopAudio(s) == StopRingback(StopIncoming(s))

\* startIncoming, up to the script's load.
StartIncoming(s) ==
  IF ~s.leader \/ s.audio = s.incoming THEN s
  ELSE [StopRingback(s) EXCEPT !.loading = @ \cup {s.incoming}]

StartRingback(s) ==
  IF s.leader /\ s.incoming = None /\ s.back # s.outgoing
  THEN [StopRingback(s) EXCEPT !.back = s.outgoing] ELSE s

\* Mutant: a tab that does not lead plays what it knows.
SyncAudioUnled(s) ==
  IF s.incoming # None THEN StartIncoming(StopRingback([s EXCEPT !.leader = TRUE]))
  ELSE [StopIncoming(s) EXCEPT !.back = s.outgoing]

SyncAudio(s) ==
  IF ~s.leader \/ ~s.up THEN StopAudio(s)
  ELSE IF s.incoming # None THEN StartIncoming(StopRingback(s))
  ELSE LET quiet == StopIncoming(s) IN
       IF s.outgoing # None THEN StartRingback(quiet) ELSE StopRingback(quiet)

SetLeader(s, value) ==
  LET next == value /\ s.up IN
  IF s.leader = next THEN s
  ELSE IF next THEN SyncAudio([s EXCEPT !.leader = TRUE])
  ELSE StopAudio([s EXCEPT !.leader = FALSE])

Put(t, s) == tab' = [tab EXCEPT ![t] = s]

-----------------------------------------------------------------------------
(* Leadership *)

\* requestNavigatorLock, from the heartbeat or another tab's release.
RequestLock(t) ==
  LET s == tab[t] IN
  /\ s.up /\ ~s.held /\ ~s.pending /\ s.requests < MaxRequests
  /\ Put(t, [s EXCEPT !.pending = TRUE, !.requests = @ + 1])
  /\ UNCHANGED <<lock, external>>

\* The browser answers a request: with the lock if it is free (ifAvailable).
LockAnswered(t) ==
  LET s == [tab[t] EXCEPT !.pending = FALSE, !.requests = @ - 1] IN
  /\ tab[t].requests > 0
  /\ IF lock = Nobody /\ s.up
     THEN /\ lock' = t
          /\ Put(t, SetLeader([s EXCEPT !.held = TRUE], TRUE))
     ELSE /\ Put(t, SetLeader(s, FALSE))
          /\ UNCHANGED lock
  /\ UNCHANGED external

Unlocked(t) == IF lock = t THEN Nobody ELSE lock

\* stopRuntime on pagehide or a refused poll.
StopRuntime(t) ==
  /\ tab[t].up
  /\ lock' = Unlocked(t)
  /\ Put(t, [StopAudio(tab[t]) EXCEPT !.up = FALSE, !.leader = FALSE, !.held = FALSE])
  /\ UNCHANGED external

\* suppressGlobalAudio on the assistant's "claim" or "silence" message.
Suppressed(t) ==
  /\ tab[t].up
  /\ lock' = Unlocked(t)
  /\ Put(t, [StopAudio(tab[t]) EXCEPT !.leader = FALSE, !.held = FALSE, !.pending = FALSE])
  /\ UNCHANGED external

\* _acquireLock of the assistant's participant, and its release.
AssistantClaims ==
  /\ lock = Nobody
  /\ lock' = Assistant
  /\ UNCHANGED <<tab, external>>

AssistantReleases ==
  /\ lock = Assistant
  /\ lock' = Nobody
  /\ UNCHANGED <<tab, external>>

-----------------------------------------------------------------------------
(* Polling *)

\* calls.find(isIncoming), calls.find(isOutgoing)
Seen(calls) == IF calls = {} THEN {None} ELSE calls

\* Mutant: what was placed is shown as what arrives.
ObservedSwapped(s, answer) == [s EXCEPT !.incoming = answer.out, !.outgoing = answer.in]

\* pollGlobalCalls after its await: what is shown, what was placed.
Observed(s, answer) ==
  LET shown == IF answer.in = None /\ s.incoming # None
               THEN [StopIncoming(s) EXCEPT !.incoming = None]
               ELSE [s EXCEPT !.incoming = answer.in] IN
  IF answer.out = None /\ s.outgoing # None
  THEN [StopRingback(shown) EXCEPT !.outgoing = None]
  ELSE [shown EXCEPT !.outgoing = answer.out]

PollApplied(t) ==
  /\ tab[t].up
  /\ \E i \in Seen(ringing \cap In), o \in Seen(ringing \cap Out) :
       Put(t, SyncAudio(Observed(tab[t], [in |-> i, out |-> o])))
  /\ UNCHANGED <<lock, external>>

\* The answer of an earlier poll comes after a later one's: it may lack a call that
\* rings and name one that no longer does.
OvertakenPollApplied(t) ==
  /\ tab[t].up
  /\ \E i \in (rung \cap In) \cup {None}, o \in (rung \cap Out) \cup {None} :
       Put(t, SyncAudio(Observed(tab[t], [in |-> i, out |-> o])))
  /\ UNCHANGED <<lock, external>>

\* Mutant: the call that waited for the script is forgotten.
RingtoneLoadedUnused(t) ==
  /\ tab[t].script # "failed"
  /\ \E k \in tab[t].loading : Put(t, [tab[t] EXCEPT !.loading = @ \ {k}, !.script = "there"])
  /\ UNCHANGED <<lock, external>>

\* The ringtone's script is there: what was to ring is looked at again.
RingtoneLoaded(t) ==
  /\ tab[t].script # "failed"
  /\ \E k \in tab[t].loading :
       LET s == [tab[t] EXCEPT !.loading = @ \ {k}, !.script = "there"] IN
       Put(t, IF s.leader /\ s.incoming = k
              THEN [s EXCEPT !.audio = k, !.tone = k, !.sounds = s.tone = k /\ s.sounds]
              ELSE s)
  /\ UNCHANGED <<lock, external>>

\* The script cannot be loaded, and is not asked for again: the tab never rings.
RingtoneRefused(t) ==
  /\ tab[t].script # "there"
  /\ \E k \in tab[t].loading : Put(t, [tab[t] EXCEPT !.loading = @ \ {k}, !.script = "failed"])
  /\ UNCHANGED <<lock, external>>

\* playMissedChime, once the call a poll no longer listed turns out to be missed.
\* Which calls a tab asked about is not kept: any that has rung and no longer does.
PlayMissedChime(t) ==
  /\ tab[t].leader /\ (rung \cap In) \ ringing # {}
  /\ Put(t, [StopRingback(tab[t]) EXCEPT !.chime = TRUE])
  /\ UNCHANGED <<lock, external>>

ChimeEnds(t) ==
  /\ tab[t].chime
  /\ Put(t, [tab[t] EXCEPT !.chime = FALSE])
  /\ UNCHANGED <<lock, external>>

\* start() of the controller after its awaits, unless it was stopped meanwhile;
\* the browser may refuse the sound.
RingtoneStarted(t) ==
  /\ tab[t].tone # None /\ ~tab[t].sounds
  /\ \/ Put(t, [tab[t] EXCEPT !.sounds = TRUE])
     \/ Put(t, [tab[t] EXCEPT !.tone = None])
  /\ UNCHANGED <<lock, external>>

\* The ringtone's deadline.
RingtoneDeadline(t) ==
  /\ tab[t].sounds
  /\ Put(t, [tab[t] EXCEPT !.tone = None, !.sounds = FALSE])
  /\ UNCHANGED <<lock, external>>

-----------------------------------------------------------------------------
(* The user, and other scripts *)

\* arm(): a gesture lets the audio be synchronised again.
Gesture(t) ==
  /\ tab[t].up
  /\ Put(t, SyncAudio(tab[t]))
  /\ UNCHANGED <<lock, external>>

\* answer() leaves for the assistant page.
AnswerElsewhere(t) ==
  /\ tab[t].incoming # None
  /\ StopRuntime(t)

RejectClicked(t) ==
  /\ tab[t].up /\ tab[t].incoming # None /\ tab[t].rejecting = None
  /\ Put(t, [tab[t] EXCEPT !.rejecting = tab[t].incoming])
  /\ UNCHANGED <<lock, external>>

\* The reject's answer: whatever call is shown by then is taken off the screen.
RejectReplied(t) ==
  LET s == [tab[t] EXCEPT !.rejecting = None] IN
  /\ tab[t].up /\ tab[t].rejecting # None
  /\ \/ /\ ringing' = ringing \ {tab[t].rejecting}
        /\ Put(t, StopIncoming([s EXCEPT !.incoming = None]))
     \/ /\ Put(t, s)
        /\ UNCHANGED ringing
  /\ UNCHANGED <<lock, rung>>

\* terminal(callId), called by the page or by another tab's message.
Terminal(t, k) ==
  /\ tab[t].up /\ k \notin ringing /\ k \in {tab[t].incoming, tab[t].outgoing, tab[t].back}
  /\ LET s == IF tab[t].incoming = k THEN StopIncoming([tab[t] EXCEPT !.incoming = None]) ELSE tab[t] IN
     Put(t, IF k \in {s.outgoing, s.back} THEN StopRingback([s EXCEPT !.outgoing = IF @ = k THEN None ELSE @]) ELSE s)
  /\ UNCHANGED <<lock, external>>

-----------------------------------------------------------------------------
(* External: the call server *)

CallRings(k) ==
  /\ k \notin ringing
  /\ ringing' = ringing \cup {k}
  /\ rung' = rung \cup {k}
  /\ UNCHANGED <<lock, tab>>

CallStops(k) ==
  /\ k \in ringing
  /\ ringing' = ringing \ {k}
  /\ UNCHANGED <<lock, tab, rung>>

-----------------------------------------------------------------------------
TabStep(t) ==
  \/ RequestLock(t) \/ LockAnswered(t) \/ StopRuntime(t) \/ Suppressed(t)
  \/ PollApplied(t) \/ OvertakenPollApplied(t)
  \/ RingtoneLoaded(t) \/ RingtoneRefused(t) \/ RingtoneStarted(t) \/ RingtoneDeadline(t)
  \/ PlayMissedChime(t) \/ ChimeEnds(t)
  \/ Gesture(t) \/ AnswerElsewhere(t) \/ RejectClicked(t) \/ RejectReplied(t)
  \/ \E k \in In \cup Out : Terminal(t, k)

Next ==
  \/ \E t \in Tabs : TabStep(t)
  \/ AssistantClaims \/ AssistantReleases
  \/ \E k \in In \cup Out : CallRings(k) \/ CallStops(k)

Spec == Init /\ [][Next]_vars

\* The polls' timer goes on and their requests settle; the browser answers a lock
\* request, loads the script or gives it up and settles the audio.
Fairness ==
  \A t \in Tabs :
    /\ WF_vars(LockAnswered(t))
    /\ WF_vars(PollApplied(t))
    /\ WF_vars(RingtoneLoaded(t) \/ RingtoneRefused(t)) /\ WF_vars(RingtoneStarted(t))

FairSpec == Spec /\ Fairness

-----------------------------------------------------------------------------
(* Properties *)

TypeOK ==
  /\ lock \in Tabs \cup {Nobody, Assistant}
  /\ tab \in [Tabs -> [up : BOOLEAN, leader : BOOLEAN, held : BOOLEAN, pending : BOOLEAN,
                       requests : 0..MaxRequests, incoming : In \cup {None}, outgoing : Out \cup {None},
                       loading : SUBSET In, audio : In \cup {None}, tone : In \cup {None},
                       sounds : BOOLEAN, script : {"unknown", "there", "failed"},
                       back : Out \cup {None}, chime : BOOLEAN, rejecting : In \cup {None}]]
  /\ rung \in SUBSET (In \cup Out)
  /\ ringing \in SUBSET rung

\* A tab that rings, or plays the ringback or a chime, holds the lock: no two tabs sound, and
\* none while the assistant page does, whatever request, script, promise or answer
\* arrives late.
AudibleTabHoldsLock ==
  \A t \in Tabs : tab[t].tone # None \/ tab[t].back # None \/ tab[t].chime => lock = t

\* A tab does not play the ringback while it rings or chimes.  A chime may sound
\* over the ringtone of the next call: playMissedChime does not look at it.
OneTone == \A t \in Tabs : tab[t].back # None => tab[t].tone = None /\ ~tab[t].chime

\* A ringback whose call has stopped ringing ends: an overtaken answer may start it
\* again, the next one stops it.
RingbackEnds ==
  \A t \in Tabs, k \in Out : (tab[t].back = k /\ k \notin ringing) ~> (tab[t].back # k \/ k \in ringing)

\* The tab that leads rings for the call it shows - unless the ringtone's script
\* could not be loaded, a failure the tab keeps (ringtonePromise) until it is left.
KnownCallRings ==
  \A t \in Tabs, k \in In :
    (tab[t].leader /\ tab[t].incoming = k) ~>
      (~tab[t].leader \/ tab[t].incoming # k \/ tab[t].audio = k \/ tab[t].script = "failed")
=============================================================================
