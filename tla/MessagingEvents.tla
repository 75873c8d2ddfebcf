-------------------------- MODULE MessagingEvents --------------------------
(***************************************************************************)
(* How the messaging page follows the account's event log                  *)
(* (messaging_core_v2.js): an event stream, a polling that replaces it     *)
(* when it fails, the cursor kept in the browser's storage, the            *)
(* duplicates dropped by their id, and the refreshes asked of the page.    *)
(*                                                                         *)
(* The log is its length.  Every event asks for a refresh: those of calls, *)
(* translations and receipts, which go to other handlers, are left out,    *)
(* and so is the limit of 500 on the ids remembered.  The cursor is kept   *)
(* under the account's key and read when the page is loaded and again when *)
(* the directory entry of the account is known.                            *)
(***************************************************************************)
EXTENDS Naturals

CONSTANTS
  MaxEvents,   \* bound on the log
  MaxLoads     \* bound on the loads of the page

EventsAssumption == MaxEvents \in Nat \ {0} /\ MaxLoads \in Nat \ {0}

VARIABLES
  log,      \* external: number of events at the server
  stored,   \* external: the account's cursor in the browser's storage
  loads,    \* times the page was loaded
  taken,    \* history: events some load of the page has taken
  sync      \* the page's state

vars == <<log, stored, loads, taken, sync>>
Events == 1 .. MaxEvents

\* eventCursor, eventBootstrapping, eventIds; eventSource and the last event it
\* was sent; eventTimer, due at once or later; the poll under way with the cursor it asked from and
\* what it has found; eventReconnectTimer, which keeps its value when its timer is
\* cleared; syncStatus; authExpired; the page hidden; me; pendingRefreshScope and
\* its timer; history: events refreshed for, and those of the first pages of a
\* poll whose later page failed.
NewPage(cursor) ==
  [cursor |-> cursor, boot |-> cursor = 0, seen |-> {}, source |-> "none", position |-> 0,
   timer |-> "none", flight |-> FALSE, after |-> 0, found |-> {}, reconnect |-> "zero",
   status |-> "connecting", expired |-> FALSE, hidden |-> FALSE, me |-> FALSE,
   pending |-> {}, refresh |-> FALSE, refreshed |-> {}, dropped |-> {}]

\* loadEventCursor.
LoadCursor(s, cursor) == [s EXCEPT !.cursor = cursor, !.boot = cursor = 0]

\* window.clearTimeout(eventReconnectTimer): the variable keeps the timer's id.
ClearReconnect(s) == [s EXCEPT !.reconnect = IF @ = "armed" THEN "cleared" ELSE @]

-----------------------------------------------------------------------------
(* Handlers as functions of the page's state *)

SchedulePoll(s, delay) ==
  IF s.source # "none" \/ s.expired THEN s ELSE [s EXCEPT !.timer = delay]

\* Mutant: the stream is asked for the events after the next one.
StartStreamAhead(s) ==
  IF s.source # "none" THEN s
  ELSE IF s.expired THEN s
  ELSE [ClearReconnect(s) EXCEPT !.timer = "none", !.status = "connecting",
                                 !.source = "connecting", !.position = s.cursor + 1]

\* startEventStream.
StartStream(s) ==
  IF s.source # "none" THEN s
  ELSE IF s.expired THEN s
  ELSE [ClearReconnect(s) EXCEPT !.timer = "none", !.status = "connecting",
                                 !.source = "connecting", !.position = s.cursor]

CloseStream(s) == [s EXCEPT !.source = "none"]

\* stopRealtimeForExpiredSession.
Expire(s) ==
  [CloseStream(s) EXCEPT !.expired = TRUE, !.timer = "none", !.reconnect = "zero",
                         !.status = "offline"]

\* requestRefresh: the timer starts again, the scopes add up.
RequestRefresh(s, events) ==
  IF events = {} THEN s ELSE [s EXCEPT !.pending = @ \cup events, !.refresh = TRUE]

Init ==
  /\ log \in 0 .. 1
  /\ \E c \in 0 .. log : stored = c /\ taken = 1 .. c
  /\ loads = 1
  /\ sync = StartStream(NewPage(stored))

Becomes(s) == sync' = s /\ UNCHANGED <<log, stored, loads, taken>>

\* saveEventCursor.
Saves(s) ==
  /\ sync' = s
  /\ stored' = s.cursor
  /\ taken' = taken \cup s.seen
  /\ UNCHANGED <<log, loads>>

-----------------------------------------------------------------------------
(* The stream *)

StreamOpened ==
  /\ sync.source = "connecting"
  /\ Becomes([sync EXCEPT !.source = "open", !.status = "live"])

\* handleRealtimeEvent: the next event of the stream.
StreamEvent ==
  LET e == sync.position + 1
      s == [sync EXCEPT !.position = e] IN
  /\ sync.source = "open" /\ e <= log
  /\ IF e \in s.seen THEN Becomes(s)
     ELSE LET t == [s EXCEPT !.seen = @ \cup {e}, !.boot = FALSE] IN
          IF e > s.cursor THEN Saves(RequestRefresh([t EXCEPT !.cursor = e], {e}))
          ELSE /\ sync' = RequestRefresh(t, {e})
               /\ taken' = taken \cup {e}
               /\ UNCHANGED <<log, stored, loads>>

\* source.onerror.
StreamFailed ==
  /\ sync.source # "none"
  /\ Becomes([SchedulePoll([CloseStream(sync) EXCEPT !.status = "offline"], "now")
                EXCEPT !.reconnect = "armed"])

\* scheduleEventReconnect's timer, of 1.5 seconds or more: a poll scheduled at
\* once is made before.
ReconnectDue ==
  /\ sync.reconnect = "armed" /\ sync.timer # "now" /\ ~sync.hidden
  /\ Becomes(StartStream([sync EXCEPT !.reconnect = "zero"]))

-----------------------------------------------------------------------------
(* Polling *)

\* pollEvents up to its first await; on a hidden page the timer starts again.
PollDue ==
  /\ sync.timer # "none" /\ ~sync.hidden
  /\ Becomes(IF sync.flight THEN [sync EXCEPT !.timer = "none"]
             ELSE [sync EXCEPT !.timer = "none", !.flight = TRUE,
                               !.after = sync.cursor, !.found = {}])

\* The end of a poll.
PollEnds(s, caught) ==
  LET r == RequestRefresh([s EXCEPT !.flight = FALSE, !.status = "live",
                                    !.boot = @ /\ ~caught, !.found = {}], s.found) IN
  IF caught /\ r.reconnect = "zero" THEN StartStream(r) ELSE SchedulePoll(r, "later")

\* Mutant: the cursor jumps to the log's end.
PollToTheEnd(last, more) ==
  LET new == (sync.after + 1 .. last) \ sync.seen
      s == [sync EXCEPT !.seen = @ \cup new, !.cursor = log,
                        !.found = IF sync.boot THEN @ ELSE @ \cup new]
  IN
  /\ sync.flight /\ last >= sync.after
  /\ IF last < log /\ more THEN Saves([s EXCEPT !.after = last])
     ELSE Saves(PollEnds(s, last = log))

\* A page of events up to last is answered; the next one is asked for while
\* there are more, up to five.
PollReplied(last, more) ==
  LET new == (sync.after + 1 .. last) \ sync.seen
      s == [sync EXCEPT !.seen = @ \cup new, !.cursor = last,
                        !.found = IF sync.boot THEN @ ELSE @ \cup new]
  IN
  /\ sync.flight /\ last >= sync.after
  /\ IF last < log /\ more THEN Saves([s EXCEPT !.after = last])
     ELSE Saves(PollEnds(s, last = log))

PollFailed ==
  /\ sync.flight
  /\ Becomes(SchedulePoll([sync EXCEPT !.flight = FALSE, !.status = "offline", !.found = {},
                                       !.dropped = @ \cup sync.found], "later"))

PollRefused ==
  /\ sync.flight
  /\ Becomes(Expire([sync EXCEPT !.flight = FALSE, !.found = {}, !.dropped = @ \cup sync.found]))

-----------------------------------------------------------------------------
(* The page *)

\* requestRefresh's timer: the page loads its lists again.
RefreshDue ==
  /\ sync.refresh
  /\ Becomes([sync EXCEPT !.refreshed = @ \cup sync.pending, !.pending = {}, !.refresh = FALSE])

\* The account's entry is known: the cursor is read again, the stream goes on.
MeKnown ==
  /\ ~sync.me
  /\ Becomes(LoadCursor([sync EXCEPT !.me = TRUE], stored))

Hidden == ~sync.hidden /\ Becomes([sync EXCEPT !.hidden = TRUE])
Shown == sync.hidden /\ Becomes(StartStream([sync EXCEPT !.hidden = FALSE]))

\* pagehide: the stream and the timers stop; the page may come back.
PageHidden ==
  /\ ~sync.hidden
  /\ Becomes([ClearReconnect(CloseStream(sync)) EXCEPT !.hidden = TRUE, !.timer = "none",
                                                       !.refresh = FALSE])

\* The page is loaded again, in the middle of anything.
Reload ==
  /\ loads < MaxLoads
  /\ loads' = loads + 1
  /\ sync' = StartStream(NewPage(stored))
  /\ UNCHANGED <<log, stored, taken>>

EventLogged ==
  /\ log < MaxEvents
  /\ log' = log + 1
  /\ UNCHANGED <<stored, loads, taken, sync>>

-----------------------------------------------------------------------------
Next ==
  \/ StreamOpened \/ StreamEvent \/ StreamFailed \/ ReconnectDue
  \/ PollDue \/ PollFailed \/ PollRefused
  \/ \E last \in 0 .. log, more \in BOOLEAN : PollReplied(last, more)
  \/ RefreshDue \/ MeKnown \/ Hidden \/ Shown \/ PageHidden \/ Reload \/ EventLogged

\* Timers fire; a stream opened again and again delivers in the end, and a poll
\* made again and again is answered in the end with all that was logged.
Fairness ==
  /\ WF_vars(StreamOpened) /\ SF_vars(StreamEvent) /\ WF_vars(RefreshDue)
  /\ WF_vars(PollDue) /\ WF_vars(ReconnectDue)
  /\ WF_vars(PollFailed \/ PollRefused \/ \E more \in BOOLEAN : PollReplied(log, more))
  /\ SF_vars(\E more \in BOOLEAN : PollReplied(log, more))

Spec == Init /\ [][Next]_vars
FairSpec == Spec /\ Fairness

-----------------------------------------------------------------------------
Page ==
              [cursor : 0 .. MaxEvents, boot : BOOLEAN, seen : SUBSET Events,
               source : {"none", "connecting", "open"}, position : 0 .. MaxEvents,
               timer : {"none", "now", "later"}, flight : BOOLEAN, after : 0 .. MaxEvents,
               found : SUBSET Events, reconnect : {"zero", "armed", "cleared"},
               status : {"connecting", "live", "offline"}, expired : BOOLEAN,
               hidden : BOOLEAN, me : BOOLEAN, pending : SUBSET Events, refresh : BOOLEAN,
               refreshed : SUBSET Events, dropped : SUBSET Events]

TypeOK ==
  /\ log \in 0 .. MaxEvents /\ loads \in 1 .. MaxLoads /\ taken \in SUBSET Events
  /\ stored \in 0 .. MaxEvents
  /\ sync \in Page

\* However the stream, the polls and the loads of the page overlap, the cursor
\* saved never passes an event that no load of the page has taken: a load that
\* starts from it misses none.
NothingSkipped == \A e \in Events : e <= stored => e \in taken

\* An event logged after the page has read its account's past refreshes the
\* page, unless it is hidden, its session expires or it is loaded again - or a
\* later page of the poll that found it fails, which loses the refresh.
EventsArrive ==
  \A e \in Events, n \in 1 .. MaxLoads :
    (/\ e <= log /\ e \notin taken /\ ~sync.boot /\ loads = n /\ sync.me)
      ~> (e \in sync.refreshed \cup sync.dropped \/ sync.expired \/ sync.hidden \/ loads # n)
=============================================================================
