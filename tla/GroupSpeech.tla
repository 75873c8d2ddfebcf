------------------------------ MODULE GroupSpeech ------------------------------
(***************************************************************************)
(* Reading translations aloud in the group page: the speech queue           *)
(* (group_tts_manager.js) over the browser's synthesizer, and what the       *)
(* translation panel gives it (group_v3_translation.js): the segments that   *)
(* arrived while the page listened, each once in a language, and those the   *)
(* user plays.  One runtime: the panel keeps its sets by runtime.            *)
(***************************************************************************)
EXTENDS Naturals, Sequences, FiniteSets

CONSTANTS Segments,  \* segments of the runtime, final and by others
          Languages, \* those the user may have them shown in
          MaxJobs    \* bound on the jobs
SpeechAssumption ==
  /\ 0 \notin Segments /\ IsFiniteSet(Segments) /\ IsFiniteSet(Languages)
  /\ MaxJobs \in Nat

\* playbackKey: a segment in the language it is displayed in; only FINAL ones are read.
Items == Segments \X Languages
NoItem == <<0, 0>>
Segment(i) == i[1]

VARIABLES
  server,  \* external: the segments in the history
  page,    \* historySeen (open: none yet), realtimeEligible, reconcileRequested,
           \* autoplayQueued, autoplayConsumed, the item played by hand
  mgr,     \* managerState, a pump under way, primingUtterance
  queue,   \* the jobs that wait
  active,  \* the job that runs, or 0
  jobs,    \* key, automatic, utterance, the wait for the voices
  started, \* startedKeys
  said     \* how often the synthesizer has begun each item by itself

vars == <<server, page, mgr, queue, active, jobs, started, said>>

Jobs == 1 .. MaxJobs
Shut == {"LOCKED", "UNLOCK_REQUIRED", "BLOCKED"}
NoJob == [item |-> NoItem, auto |-> FALSE, utter |-> FALSE, waits |-> FALSE, begun |-> FALSE, over |-> FALSE]

Init ==
  /\ server = {}
  /\ page = [seen |-> {}, open |-> FALSE, eligible |-> {}, reconcile |-> FALSE, queued |-> {}, consumed |-> {}, hand |-> NoItem, playing |-> FALSE]
  /\ mgr = [state |-> "LOCKED", pump |-> FALSE, priming |-> FALSE]
  /\ queue = <<>> /\ active = 0 /\ jobs = [j \in Jobs |-> NoJob]
  /\ started = {} /\ said = [i \in Items |-> 0]

-----------------------------------------------------------------------------
(* group_tts_manager.js *)

Set(state) == [mgr EXCEPT !.state = state]
Pumped(m) == [m EXCEPT !.pump = TRUE]

\* The keys of jobs by hand are unique; an automatic job's key is its item.
QueuedKeys == {jobs[j].item : j \in {k \in Jobs : jobs[k].auto /\ ~jobs[k].over}}
Free == {j \in Jobs : jobs[j] = NoJob}
First(n) == {j \in Free : Cardinality({k \in Free : k < j}) = n}

\* finish and the panel's onState: a job by hand ends what the panel plays.
Over(j) == [jobs EXCEPT ![j] = [NoJob EXCEPT !.over = TRUE]]
Forgotten(p, js) ==
  [p EXCEPT !.queued = @ \ {jobs[j].item : j \in {k \in js : jobs[k].auto}},
            !.hand = IF \E j \in js : ~jobs[j].auto THEN NoItem ELSE @,
            !.playing = @ /\ \A j \in js : jobs[j].auto]

\* Mutant of FinishPumps: the next job waits for the next enqueue.
NeverPumps(m) == m
\* finish: the queue goes on.
FinishPumps(m) == Pumped(m)

Finish(j, state) ==
  /\ jobs' = Over(j)
  /\ page' = Forgotten(page, {j})
  /\ active' = 0
  /\ mgr' = FinishPumps([mgr EXCEPT !.state = state])
  /\ UNCHANGED <<server, queue, started, said>>

\* retryBeforeStart: the job is the first of the queue again.
Retry(j, state) ==
  /\ jobs' = [jobs EXCEPT ![j].utter = FALSE]
  /\ active' = 0 /\ queue' = <<j>> \o queue
  /\ mgr' = Set(state)
  /\ UNCHANGED <<server, page, started, said>>

\* pump: an automatic job needs a gesture once, then waits for the voices if there are none.
Pump(gesture, voices) ==
  LET j == Head(queue)
      shut == jobs[j].auto /\ ~gesture /\ mgr.state \in Shut
      now == gesture \/ ~jobs[j].auto \/ voices IN
  IF active # 0 \/ queue = <<>> THEN mgr' = [mgr EXCEPT !.pump = @ /\ gesture] /\ UNCHANGED <<active, queue, jobs>>
  ELSE IF shut THEN mgr' = [mgr EXCEPT !.state = "UNLOCK_REQUIRED", !.pump = @ /\ gesture] /\ UNCHANGED <<active, queue, jobs>>
  ELSE /\ active' = j /\ queue' = Tail(queue)
       /\ jobs' = IF now THEN [jobs EXCEPT ![j].utter = TRUE] ELSE [jobs EXCEPT ![j].waits = TRUE]
       /\ mgr' = [mgr EXCEPT !.state = IF ~now THEN "VOICE_LOADING" ELSE IF @ = "PLAYING" THEN @ ELSE "READY",
                             !.pump = @ /\ gesture]

PumpRuns(voices) ==
  /\ mgr.pump
  /\ Pump(FALSE, voices)
  /\ UNCHANGED <<server, page, started, said>>

VoicesArrive(j) ==
  /\ jobs[j].waits
  /\ mgr' = IF active = j THEN Set("READY") ELSE mgr
  /\ jobs' = [jobs EXCEPT ![j].waits = FALSE, ![j].utter = @ \/ active = j]
  /\ UNCHANGED <<server, page, queue, active, started, said>>

\* unlock, on any gesture: the queue, a job that waits for the voices, or a silent
\* utterance that opens the synthesizer (primeInGesture).
Unlock ==
  /\ IF active = 0 /\ queue # <<>> THEN Pump(TRUE, FALSE)
     ELSE IF active # 0 /\ ~jobs[active].begun /\ ~jobs[active].utter
     THEN jobs' = [jobs EXCEPT ![active].utter = TRUE] /\ UNCHANGED <<mgr, active, queue>>
     ELSE /\ mgr' = IF active = 0 /\ mgr.state # "READY" THEN [mgr EXCEPT !.priming = TRUE] ELSE mgr
          /\ UNCHANGED <<jobs, active, queue>>
  /\ UNCHANGED <<server, page, started, said>>

PrimeSettles(ok) ==
  /\ mgr.priming
  /\ mgr' = IF ok THEN Pumped([mgr EXCEPT !.priming = FALSE, !.state = "READY"])
            ELSE [mgr EXCEPT !.priming = FALSE, !.state = "UNLOCK_REQUIRED"]
  /\ UNCHANGED <<server, page, queue, active, jobs, started, said>>

\* The synthesizer begins, ends or refuses an utterance; 3 s without a start.
Starts(j) ==
  /\ jobs[j].utter /\ ~jobs[j].begun
  /\ jobs' = [jobs EXCEPT ![j].begun = TRUE]
  /\ started' = IF jobs[j].auto THEN started \cup {jobs[j].item} ELSE started
  /\ said' = IF jobs[j].auto THEN [said EXCEPT ![jobs[j].item] = @ + 1] ELSE said
  /\ page' = IF jobs[j].auto THEN [page EXCEPT !.consumed = @ \cup {jobs[j].item}, !.queued = @ \ {jobs[j].item}]
             ELSE [page EXCEPT !.playing = TRUE]
  /\ mgr' = Set("PLAYING")
  /\ UNCHANGED <<server, queue, active>>

Ends(j) == jobs[j].utter /\ jobs[j].begun /\ Finish(j, "READY")

Errs(j) ==
  /\ jobs[j].utter
  /\ \/ jobs[j].auto /\ ~jobs[j].begun /\ \E s \in {"UNLOCK_REQUIRED", "BLOCKED"} : Retry(j, s)
     \/ Finish(j, "ERROR")  \* also "canceled" and "interrupted"

StartTimesOut(j) ==
  /\ jobs[j].utter /\ ~jobs[j].begun
  /\ IF jobs[j].auto THEN Retry(j, "UNLOCK_REQUIRED") ELSE Finish(j, "ERROR")

\* cancel: every job fails; the silent utterance is let go.
Alive == {j \in Jobs : jobs[j] # NoJob /\ ~jobs[j].over}
Cancelled == [j \in Jobs |-> IF j \in Alive THEN Over(j)[j] ELSE jobs[j]]

-----------------------------------------------------------------------------
(* group_v3_translation.js *)

\* External: a segment becomes final.
Spoken(i) ==
  /\ i \notin server
  /\ server' = server \cup {i}
  /\ UNCHANGED <<page, mgr, queue, active, jobs, started, said>>

\* markRealtimeEligible; a history_changed event marks nothing.
EventArrives(i) ==
  /\ i \in server
  /\ page' = [page EXCEPT !.eligible = @ \cup {i}]
  /\ UNCHANGED <<server, mgr, queue, active, jobs, started, said>>

ReconcileAsked ==
  /\ page' = [page EXCEPT !.reconcile = TRUE]
  /\ UNCHANGED <<server, mgr, queue, active, jobs, started, said>>

\* observeHistory: the first history is only seen; what a reconcile finds new is eligible.
Eligible(segs) ==
  IF page.open /\ page.reconcile THEN page.eligible \cup (segs \ page.seen) ELSE page.eligible

\* maybeAutoRead, play and enqueue, for each segment in its order - if reading is on, the
\* device there and the media connected.
ToRead(segs, lang, reads) ==
  {i \in (segs \cap Eligible(segs)) \X {lang} : reads /\ i \notin page.consumed \cup page.queued}
Refused(i) == i \in started \cup QueuedKeys

\* A history arrives, in the language the profile had when it was read; any order of its
\* segments may be that of their dates.
HistoryLoaded(segs, lang, reads) ==
  LET read == ToRead(segs, lang, reads)
      new == {i \in read : ~Refused(i)} IN
  /\ segs \subseteq server
  /\ Cardinality(new) <= Cardinality(Free)
  /\ \E order \in [1 .. Cardinality(new) -> new] :
       /\ \A i \in new : \E n \in DOMAIN order : order[n] = i
       /\ LET id(n) == CHOOSE j \in First(n - 1) : TRUE IN
          /\ jobs' = [j \in Jobs |-> IF \E n \in DOMAIN order : id(n) = j
                        THEN [NoJob EXCEPT !.auto = TRUE, !.item = order[CHOOSE n \in DOMAIN order : id(n) = j]] ELSE jobs[j]]
          /\ queue' = queue \o [n \in DOMAIN order |-> id(n)]
  /\ page' = [page EXCEPT !.open = TRUE, !.seen = @ \cup segs, !.reconcile = FALSE, !.eligible = Eligible(segs),
                          !.queued = @ \cup new, !.consumed = @ \cup (read \cap started)]
  /\ mgr' = IF new = {} THEN mgr ELSE Pumped(mgr)
  /\ UNCHANGED <<server, active, started, said>>

\* A click on what plays stops it; else everything is cancelled and the text played.
PlayClicked(i) ==
  /\ Segment(i) \in server /\ Free # {}
  /\ LET j == CHOOSE k \in First(0) : TRUE
         p == Forgotten(page, Alive) IN
     IF page.playing /\ page.hand = i
     THEN /\ jobs' = Cancelled /\ active' = 0 /\ queue' = <<>>
          /\ page' = [p EXCEPT !.hand = NoItem, !.playing = FALSE]
          /\ mgr' = Pumped([mgr EXCEPT !.priming = FALSE])
     ELSE /\ jobs' = [Cancelled EXCEPT ![j] = [NoJob EXCEPT !.item = i, !.utter = TRUE]]
          /\ active' = j /\ queue' = <<>>
          /\ page' = [p EXCEPT !.hand = i, !.playing = FALSE]
          /\ mgr' = [mgr EXCEPT !.priming = FALSE, !.state = IF @ = "PLAYING" THEN @ ELSE "READY", !.pump = @ \/ Alive # {}]
  /\ UNCHANGED <<server, started, said>>

\* cleanup, when the media disconnect.
Cleanup ==
  /\ jobs' = Cancelled /\ active' = 0 /\ queue' = <<>>
  /\ page' = [Forgotten(page, Alive) EXCEPT !.hand = NoItem, !.playing = FALSE]
  /\ mgr' = [mgr EXCEPT !.priming = FALSE, !.pump = @ \/ Alive # {}]
  /\ UNCHANGED <<server, started, said>>

Next ==
  \/ Unlock \/ ReconcileAsked \/ Cleanup
  \/ \E ok \in BOOLEAN : PumpRuns(ok) \/ PrimeSettles(ok)
  \/ \E j \in Jobs : VoicesArrive(j) \/ Starts(j) \/ Ends(j) \/ Errs(j) \/ StartTimesOut(j)
  \/ \E i \in Segments : Spoken(i) \/ EventArrives(i)
  \/ \E i \in Items : PlayClicked(i)
  \/ \E segs \in SUBSET Segments, lang \in Languages, reads \in BOOLEAN : HistoryLoaded(segs, lang, reads)

Spec == Init /\ [][Next]_vars

-----------------------------------------------------------------------------
TypeOK ==
  /\ server \subseteq Segments
  /\ page \in [seen : SUBSET Segments, open : BOOLEAN, eligible : SUBSET Segments, reconcile : BOOLEAN,
               queued : SUBSET Items, consumed : SUBSET Items, hand : Items \cup {NoItem}, playing : BOOLEAN]
  /\ mgr \in [state : Shut \cup {"READY", "PLAYING", "VOICE_LOADING", "ERROR"}, pump : BOOLEAN, priming : BOOLEAN]
  /\ queue \in Seq(Jobs) /\ active \in 0 .. MaxJobs
  /\ jobs \in [Jobs -> [item : Items \cup {NoItem}, auto : BOOLEAN, utter : BOOLEAN, waits : BOOLEAN, begun : BOOLEAN, over : BOOLEAN]]
  /\ started \subseteq Items
  /\ said \in [Items -> Nat]

\* However often a history is loaded again, the language changed and changed back, a job
\* retried or everything cancelled, a segment is not begun by itself twice in a language
\* (in another language it is: the key has the language in it).
SpokenOnce == \A i \in Items : said[i] <= 1

\* One utterance at a time: what has one is the active job.
OneVoice == \A j \in Jobs : jobs[j].utter => active = j

\* The queue never stalls: what waits in it waits for a job that runs, for a pump that
\* is due or for the user's gesture.
QueueMoves ==
  queue # <<>> => \/ mgr.pump \/ mgr.state \in Shut
                  \/ active # 0 /\ (jobs[active].utter \/ jobs[active].waits)
=============================================================================
