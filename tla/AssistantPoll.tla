----------------------------- MODULE AssistantPoll -----------------------------
(***************************************************************************)
(* What keeps the assistant page up to date (assistant.js): the poll, the    *)
(* refresh of the network panel, the heartbeats that tell the server whether *)
(* the page is visible, and the intents a link brought (a contact to search, *)
(* a conversation to open, a call to start), through hiding and leaving the  *)
(* page and coming back to it.                                               *)
(***************************************************************************)
EXTENDS Naturals, FiniteSets

CONSTANTS MaxBeats,     \* bounds on the heartbeats,
          MaxRefreshes, \* the refreshes of the panel
          MaxTurns      \* and how often the page is hidden, shown, left and returned to
PollAssumption == MaxBeats \in Nat /\ MaxRefreshes \in Nat /\ MaxTurns \in Nat

VARIABLES
  page,       \* hidden, left, pollTimer, in messages, state.me, the turns so far
  poll,       \* the step of pollTick under way (state.polling)
  refreshes,  \* the runs of refreshNetwork
  beats,      \* the heartbeats sent, in order
  server,     \* external: whether the server holds the page visible, and by which heartbeat
  missed,     \* a heartbeat failed or was overtaken
  intents     \* per intent: waiting, and how often it was carried out

vars == <<page, poll, refreshes, beats, server, missed, intents>>
Beats == 1 .. MaxBeats
Refreshes == 1 .. MaxRefreshes
Intents == {"connect", "conversation", "call"}
NoBeat == [at |-> "none", visible |-> FALSE]

Init ==
  /\ page = [hidden |-> FALSE, left |-> FALSE, timer |-> TRUE, messages |-> TRUE, me |-> FALSE, turns |-> 0]
  /\ poll = "summary"  \* startPolling
  /\ refreshes = [r \in Refreshes |-> "none"]
  /\ beats = [b \in Beats |-> NoBeat]
  /\ server = [visible |-> FALSE, beat |-> 0]
  /\ missed = FALSE
  \* A link that brings some only reaches states in which the others are done.
  /\ \E w \in BOOLEAN : intents = [i \in Intents |-> [waits |-> w, done |-> 0]]

Sent == Cardinality({b \in Beats : beats[b].at # "none"})

\* Mutant of Beat: what the page says is not sent.
NoBeatSent(visible) == UNCHANGED beats
\* heartbeat: none before the user is known.
Beat(visible) ==
  IF ~page.me THEN UNCHANGED beats
  ELSE /\ Sent < MaxBeats
       /\ beats' = [beats EXCEPT ![Sent + 1] = [at |-> "sent", visible |-> visible]]

-----------------------------------------------------------------------------
(* heartbeats on their way: the server keeps the one it read last *)

BeatServed(b) ==
  /\ beats[b].at = "sent"
  /\ beats' = [beats EXCEPT ![b].at = "over"]
  /\ server' = [visible |-> beats[b].visible, beat |-> b]
  /\ missed' = (IF b = Sent THEN FALSE ELSE missed \/ b < server.beat)
  /\ UNCHANGED <<page, poll, refreshes, intents>>

BeatFailed(b) ==
  /\ beats[b].at = "sent"
  /\ beats' = [beats EXCEPT ![b].at = "over"]
  /\ missed' = TRUE
  /\ UNCHANGED <<page, poll, refreshes, server, intents>>

-----------------------------------------------------------------------------
(* pollTick *)

\* One at a time; the timer also runs while the page is hidden.
PollDue ==
  /\ page.timer /\ ~page.left /\ poll = "none"
  /\ poll' = "summary"
  /\ UNCHANGED <<page, refreshes, beats, server, missed, intents>>

\* loadSummary and, until it is known, loadMe; the heartbeat when 25 seconds have passed.
PollSummary(ok, due) ==
  /\ poll = "summary"
  /\ page' = [page EXCEPT !.me = @ \/ ok]
  /\ IF ~page'.me THEN poll' = "none" /\ UNCHANGED beats
     ELSE poll' = "calls" /\ IF due /\ page.me THEN Beat(~page.hidden) ELSE UNCHANGED beats
  /\ UNCHANGED <<refreshes, server, missed, intents>>

\* pollCalls; then, unless hidden, the panel shown, which is refreshed from here too.
PollCalls(due) ==
  /\ poll = "calls"
  /\ IF ~page.hidden /\ page.messages /\ due
     THEN \E r \in Refreshes : /\ refreshes[r] = "none" /\ poll' = "network"
                               /\ refreshes' = [refreshes EXCEPT ![r] = "polled"]
     ELSE poll' = "none" /\ UNCHANGED refreshes
  /\ UNCHANGED <<page, beats, server, missed, intents>>

-----------------------------------------------------------------------------
(* refreshNetwork: the poll's, and one for every time the panel is chosen *)

PanelChosen ==
  /\ ~page.left
  /\ page' = [page EXCEPT !.messages = TRUE]
  /\ IF page.hidden THEN UNCHANGED refreshes
     ELSE \E r \in Refreshes : refreshes[r] = "none" /\ refreshes' = [refreshes EXCEPT ![r] = "chosen"]
  /\ UNCHANGED <<poll, beats, server, missed, intents>>

OtherPanelChosen ==
  /\ page.messages /\ page' = [page EXCEPT !.messages = FALSE]
  /\ UNCHANGED <<poll, refreshes, beats, server, missed, intents>>

\* The poll goes on when its refresh is over.
Over(r, polled) ==
  /\ refreshes' = [refreshes EXCEPT ![r] = "none"]
  /\ poll' = IF polled THEN "none" ELSE poll

\* loadMe when the user is not known, then the heartbeat; a failure ends the refresh.
RefreshBeats(r) ==
  /\ refreshes[r] \in {"polled", "chosen"}
  /\ page' = [page EXCEPT !.me = TRUE]
  /\ \/ page.me /\ Beat(~page.hidden)
     \/ ~page.me /\ Sent < MaxBeats /\ beats' = [beats EXCEPT ![Sent + 1] = [at |-> "sent", visible |-> ~page.hidden]]
     \/ page.me /\ refreshes[r] = "polled" /\ UNCHANGED beats  \* 25 seconds have not passed
  /\ refreshes' = [refreshes EXCEPT ![r] = IF @ = "polled" THEN "polled_lists" ELSE "lists"]
  /\ UNCHANGED <<poll, server, missed, intents>>

RefreshFails(r) ==
  /\ refreshes[r] # "none"
  /\ Over(r, refreshes[r] \in {"polled", "polled_lists", "polled_intents"})
  /\ UNCHANGED <<page, beats, server, missed, intents>>

\* The connections, the online list and the conversations have all loaded.
ListsLoaded(r) ==
  /\ refreshes[r] \in {"lists", "polled_lists"}
  /\ refreshes' = [refreshes EXCEPT ![r] = IF @ = "lists" THEN "intents" ELSE "polled_intents"]
  /\ UNCHANGED <<page, poll, beats, server, missed, intents>>

\* Mutant of Taken: the intent is taken when it has been carried out.
TakenAfter(i) == [intents EXCEPT ![i].done = @ + 1]
\* It is taken first, whatever becomes of it.
Taken(i) == [intents EXCEPT ![i].waits = FALSE, ![i].done = @ + 1]

\* The intents, in their order; each awaits what it opens.
IntentCarriedOut(r) ==
  /\ refreshes[r] \in {"intents", "polled_intents"}
  /\ \E i \in Intents : /\ intents[i].waits /\ intents[i].done < 2
                        /\ i = "conversation" => ~intents["connect"].waits
                        /\ i = "call" => ~intents["connect"].waits /\ ~intents["conversation"].waits
                        /\ intents' = Taken(i)
  /\ UNCHANGED <<page, poll, refreshes, beats, server, missed>>

RefreshOver(r) ==
  /\ refreshes[r] \in {"intents", "polled_intents"} /\ \A i \in Intents : ~intents[i].waits
  /\ Over(r, refreshes[r] = "polled_intents")
  /\ UNCHANGED <<page, beats, server, missed, intents>>

-----------------------------------------------------------------------------
(* initLifecycle, stopLiveResources *)

Turn(p) == page.turns < MaxTurns /\ page' = [p EXCEPT !.turns = @ + 1]

Hides ==
  /\ ~page.hidden
  /\ Turn([page EXCEPT !.hidden = TRUE])
  /\ Beat(FALSE)
  /\ UNCHANGED <<poll, refreshes, server, missed, intents>>

Shows ==
  /\ page.hidden /\ ~page.left
  /\ Turn([page EXCEPT !.hidden = FALSE])
  /\ poll' = IF poll = "none" THEN "summary" ELSE poll
  /\ UNCHANGED <<refreshes, beats, server, missed, intents>>

\* pagehide: the timer is cleared, what is under way goes on when the page comes back.
Leaves ==
  /\ ~page.left
  /\ Turn([page EXCEPT !.left = TRUE, !.hidden = TRUE, !.timer = FALSE])
  /\ Beat(FALSE)
  /\ UNCHANGED <<poll, refreshes, server, missed, intents>>

Returns ==
  /\ page.left
  /\ Turn([page EXCEPT !.left = FALSE, !.hidden = FALSE, !.timer = TRUE])
  /\ poll' = IF poll = "none" THEN "summary" ELSE poll
  /\ UNCHANGED <<refreshes, beats, server, missed, intents>>

\* What a page that is left has under way does not go on.
Awake == ~page.left

Next ==
  \/ PollDue \/ PanelChosen \/ OtherPanelChosen \/ Hides \/ Shows \/ Leaves \/ Returns
  \/ \E b \in Beats : BeatServed(b) \/ BeatFailed(b)
  \/ Awake /\ \E due \in BOOLEAN : PollCalls(due) \/ \E ok \in BOOLEAN : PollSummary(ok, due)
  \/ \E r \in Refreshes : Awake /\ (RefreshBeats(r) \/ RefreshFails(r) \/ ListsLoaded(r)
                                     \/ IntentCarriedOut(r) \/ RefreshOver(r))

Spec == Init /\ [][Next]_vars

-----------------------------------------------------------------------------
TypeOK ==
  /\ page \in [hidden : BOOLEAN, left : BOOLEAN, timer : BOOLEAN, messages : BOOLEAN, me : BOOLEAN, turns : 0 .. MaxTurns]
  /\ poll \in {"none", "summary", "calls", "network"}
  /\ refreshes \in [Refreshes -> {"none", "polled", "chosen", "lists", "polled_lists", "intents", "polled_intents"}]
  /\ beats \in [Beats -> [at : {"none", "sent", "over"}, visible : BOOLEAN]]
  /\ server \in [visible : BOOLEAN, beat : 0 .. MaxBeats]
  /\ missed \in BOOLEAN
  /\ intents \in [Intents -> [waits : BOOLEAN, done : 0 .. 2]]

\* The server holds a hidden page visible only while a heartbeat is on its way, or when
\* one failed or came after a later one.
HiddenIsTold ==
  server.visible /\ page.hidden /\ (\A b \in Beats : beats[b].at # "sent") => missed

\* A link's search, conversation and call are carried out once, however many refreshes
\* run at once, and the poll waits for its own refresh only.
IntentsOnce ==
  /\ \A i \in Intents : intents[i].done <= 1
  /\ poll = "network" <=> \E r \in Refreshes : refreshes[r] \in {"polled", "polled_lists", "polled_intents"}
=============================================================================
