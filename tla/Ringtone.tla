-------------------------------- MODULE Ringtone --------------------------------
(***************************************************************************)
(* The ringtone of a page (incoming_call_ringtone.js): the calls it rings    *)
(* for, its audio context, the cycle of notes, the vibration and the         *)
(* deadline, and the preferences, which are loaded, saved, and changed for   *)
(* the time of a preview.  A run is one generation of start; a call that     *)
(* begins or stops makes the earlier ones old while they still await.        *)
(***************************************************************************)
EXTENDS Naturals

CONSTANTS Calls, None,
          MaxGen,       \* bounds on the generations,
          MaxPreviews,  \* the previews
          MaxSaves      \* and the changes of preferences
RingtoneAssumption == None \notin Calls \cup 1 .. MaxPreviews /\ {MaxGen, MaxPreviews, MaxSaves} \subseteq Nat

VARIABLES
  prefs,    \* enabled and vibrationEnabled
  sync,     \* the backend's preferences: loading, the save timer, saves made, bodies in flight
  ring,     \* generation, activeCallId and what plays for it, by the generation that made it
  run,      \* of each generation: the call, where its start is, whether it sounds
  previews  \* preview's progress, its generation and the preferences it will put back

vars == <<prefs, sync, ring, run, previews>>

Gens == 1 .. MaxGen
Previews == 1 .. MaxPreviews
Prefs == [sound : BOOLEAN, vibration : BOOLEAN]
AllOn == [sound |-> TRUE, vibration |-> TRUE]

Init ==
  /\ prefs \in Prefs
  /\ sync = [loading |-> TRUE, timer |-> FALSE, count |-> 0, sent |-> {}]
  /\ ring = [gen |-> 0, active |-> None, sounds |-> 0, timer |-> 0, interval |-> 0, deadline |-> 0]
  /\ run = [g \in Gens |-> [call |-> None, at |-> "none", sound |-> FALSE]]
  /\ previews = [p \in Previews |-> [at |-> "none", gen |-> 0, was |-> AllOn]]

\* Mutant of Current: an old generation goes on when its audio is ready.
StillWanted(g) == run[g].call # None
\* isCurrentRun.
Current(g) == g = ring.gen /\ ring.active = run[g].call

\* clearPlayback and releaseContext, under a new generation.
Cleared(r) ==
  [r EXCEPT !.gen = @ + 1, !.active = None, !.sounds = 0, !.timer = 0, !.interval = 0, !.deadline = 0]

Settle(g, at) == run' = [run EXCEPT ![g].at = at]
Ends(g) == Settle(g, "over") /\ UNCHANGED ring
Bump == ring.gen < MaxGen /\ ring' = Cleared(ring)

-----------------------------------------------------------------------------
(* start *)

\* Up to its first await: what played before is cleared.
Begin(k) ==
  /\ Bump
  /\ run' = [run EXCEPT ![ring.gen + 1] = [@ EXCEPT !.call = k, !.at = "sync"]]

\* A call that rings already is left to it.
Start(k) == ring.active # k /\ Begin(k) /\ UNCHANGED <<prefs, sync, previews>>

\* syncPromise has settled.
Synced(g) ==
  /\ run[g].at = "sync" /\ ~sync.loading
  /\ IF g = ring.gen /\ (prefs.sound \/ prefs.vibration)
       THEN /\ ring' = [ring EXCEPT !.active = run[g].call]
            /\ run' = [run EXCEPT ![g].at = "arming", ![g].sound = prefs.sound]
       ELSE Ends(g)
  /\ UNCHANGED <<prefs, sync, previews>>

\* What arm answers: a context that runs, if the sound is on.
CanBeReady(g, ready) == ready => run[g].sound
\* A cycle of notes and, with time left for another, the timer of the next.
Cycle(r, g, more) == [r EXCEPT !.sounds = g, !.timer = IF more THEN g ELSE 0]
\* startVibration.
Vibrate(r, g) == [r EXCEPT !.interval = IF prefs.vibration THEN g ELSE 0]

\* arm has settled: the first cycle, the vibration, and the deadline that stops them.
Armed(g, ready, more) ==
  /\ run[g].at = "arming" /\ CanBeReady(g, ready)
  /\ UNCHANGED <<prefs, sync, previews>>
  /\ IF ~Current(g) THEN Ends(g)
     ELSE IF ready \/ prefs.vibration
       THEN /\ ring' = [Vibrate(IF ready THEN Cycle(ring, g, more) ELSE ring, g) EXCEPT !.deadline = g]
            /\ Settle(g, "started")
       ELSE Bump /\ Settle(g, "over")

\* The audio became ready when the time to ring was over.
ArmedLate(g) ==
  /\ run[g].at = "arming" /\ run[g].sound /\ Current(g)
  /\ Bump /\ Settle(g, "over")
  /\ UNCHANGED <<prefs, sync, previews>>

-----------------------------------------------------------------------------
(* scheduleNextCycle by its timer, and the end of a ring *)

NextCycleDue ==
  LET g == ring.timer IN
  /\ g # 0
  /\ IF Current(g) THEN Settle(g, "cycle") ELSE UNCHANGED run
  /\ ring' = [ring EXCEPT !.timer = 0]
  /\ UNCHANGED <<prefs, sync, previews>>

CycleOutOfTime ==
  /\ ring.timer # 0 /\ Current(ring.timer)
  /\ Bump
  /\ UNCHANGED <<prefs, sync, run, previews>>

\* The context runs, or runs again after an await.
CycleReady(g, more) ==
  /\ run[g].at = "cycle"
  /\ Settle(g, "started")
  /\ ring' = IF Current(g) THEN Cycle(ring, g, more) ELSE ring
  /\ UNCHANGED <<prefs, sync, previews>>

CycleRefused(g) ==
  /\ run[g].at = "cycle"
  /\ Settle(g, "started")
  /\ UNCHANGED <<prefs, sync, ring, previews>>

NotesEnd ==
  /\ ring.sounds # 0
  /\ ring' = [ring EXCEPT !.sounds = 0]
  /\ UNCHANGED <<prefs, sync, run, previews>>

\* stop, of every ring or of one call's; while a start waits for the preferences there
\* is no active call and a stop of any call ends it.
Stopped(k) ==
  /\ k \in {None, ring.active} \/ ring.active = None
  /\ Bump
  /\ UNCHANGED <<prefs, sync, run, previews>>

Deadline ==
  /\ ring.deadline # 0 /\ ring.active = run[ring.deadline].call
  /\ Bump
  /\ UNCHANGED <<prefs, sync, run, previews>>

-----------------------------------------------------------------------------
(* Preferences and the preview *)

\* The answer of loadBackendPreferences replaces what was set meanwhile.
Loaded(p) ==
  /\ sync.loading
  /\ prefs' = p
  /\ sync' = [sync EXCEPT !.loading = FALSE]
  /\ UNCHANGED <<ring, run, previews>>

SetPreferences(p) ==
  /\ sync.count < MaxSaves
  /\ prefs' = p
  /\ sync' = [sync EXCEPT !.timer = TRUE, !.count = @ + 1]
  /\ IF p.sound \/ p.vibration
       THEN ring' = [ring EXCEPT !.interval = IF p.vibration THEN @ ELSE 0]
       ELSE Bump
  /\ UNCHANGED <<run, previews>>

SaveDue ==
  /\ sync.timer
  /\ sync' = [sync EXCEPT !.timer = FALSE, !.sent = @ \cup {prefs}]
  /\ UNCHANGED <<prefs, ring, run, previews>>

\* The reply puts the saved preferences back over those chosen since.
SaveReplied(p, ok) ==
  /\ p \in sync.sent
  /\ sync' = [sync EXCEPT !.sent = @ \ {p}]
  /\ prefs' = IF ok THEN p ELSE prefs
  /\ UNCHANGED <<ring, run, previews>>

PreviewClicked(p) ==
  /\ previews[p].at = "none"
  /\ previews' = [previews EXCEPT ![p].at = "sync"]
  /\ UNCHANGED <<prefs, sync, ring, run>>

\* Refused while a call rings; otherwise sound and vibration are on while it starts.
PreviewSynced(p) ==
  /\ previews[p].at = "sync" /\ ~sync.loading
  /\ IF ring.active \in Calls
       THEN previews' = [previews EXCEPT ![p].at = "over"] /\ UNCHANGED <<prefs, ring, run>>
       ELSE /\ previews' = [previews EXCEPT ![p] = [at |-> "starting", gen |-> ring.gen + 1, was |-> prefs]]
            /\ prefs' = AllOn
            /\ Begin(p)
  /\ UNCHANGED sync

\* What was before is put back, whatever was loaded, saved or set meanwhile.
PreviewStarted(p) ==
  /\ previews[p].at = "starting" /\ run[previews[p].gen].at \in {"started", "over"}
  /\ previews' = [previews EXCEPT ![p].at = "over"]
  /\ prefs' = previews[p].was
  /\ UNCHANGED <<sync, ring, run>>

Next ==
  \/ \E k \in Calls : Start(k)
  \/ \E k \in Calls \cup {None} : Stopped(k)
  \/ \E g \in Gens, ready \in BOOLEAN, more \in BOOLEAN : Armed(g, ready, more)
  \/ \E g \in Gens : Synced(g) \/ ArmedLate(g) \/ CycleReady(g, TRUE) \/ CycleReady(g, FALSE) \/ CycleRefused(g)
  \/ NextCycleDue \/ CycleOutOfTime \/ NotesEnd \/ Deadline \/ SaveDue
  \/ \E p \in Prefs : Loaded(p) \/ SetPreferences(p) \/ SaveReplied(p, TRUE) \/ SaveReplied(p, FALSE)
  \/ Loaded(prefs)  \* the load fails
  \/ \E p \in Previews : PreviewClicked(p) \/ PreviewSynced(p) \/ PreviewStarted(p)

Spec == Init /\ [][Next]_vars

-----------------------------------------------------------------------------
TypeOK ==
  /\ prefs \in Prefs
  /\ sync \in [loading : BOOLEAN, timer : BOOLEAN, count : 0 .. MaxSaves, sent : SUBSET Prefs]
  /\ ring \in [gen : 0 .. MaxGen, active : Calls \cup Previews \cup {None}, sounds : 0 .. MaxGen, timer : 0 .. MaxGen, interval : 0 .. MaxGen,
               deadline : 0 .. MaxGen]
  /\ run \in [Gens -> [call : Calls \cup Previews \cup {None},
                       at : {"none", "sync", "arming", "started", "cycle", "over"}, sound : BOOLEAN]]
  /\ previews \in [Previews -> [at : {"none", "sync", "starting", "over"}, gen : 0 .. MaxGen, was : Prefs]]

\* Notes, the timer of a cycle, the vibration and the deadline are those of the call that
\* rings now, however many starts were under way, and a call that rings is either still
\* being started or has its deadline: no ring is left without an end.
RingIsOfTheCall ==
  /\ \A what \in {ring.sounds, ring.timer, ring.interval, ring.deadline} :
       what # 0 => what = ring.gen /\ ring.active # None
  /\ ring.active # None => Current(ring.gen) /\ (run[ring.gen].at = "arming" \/ ring.deadline = ring.gen)
=============================================================================
