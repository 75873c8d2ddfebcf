--------------------------- MODULE GroupMediaClient ---------------------------
(***************************************************************************)
(* The audio and video sessions of a group's page (group_v3_app.js):        *)
(* creating, joining, rejecting, leaving and ending a session, the dialog  *)
(* that prepares the devices, the connection to the provider and its      *)
(* reconnections, and the refreshes that load the session meanwhile.      *)
(* mediaMutationEpoch and mediaSessionLoadSequence are modelled by what    *)
(* they decide of a load, mediaGeneration by the room of the attempt.      *)
(***************************************************************************)
EXTENDS Naturals

CONSTANTS
  Limit,         \* attempts to reconnect (three in the code)
  MaxSessions    \* bound on the sessions of the space

MediaAssumption == Limit \in Nat \ {0} /\ MaxSessions \in Nat \ {0}

VARIABLES
  server,  \* external: the latest session, whether it is live, this member's status
  page,    \* the page's state
  op,      \* mediaAction or createMedia under way (mediaActionInFlight)
  task,    \* mediaConnectTask
  load     \* the load of the session that no mutation and no newer load overtook

vars == <<server, page, op, task, load>>
Ids == 1 .. MaxSessions

NoOp == [at |-> "none", kind |-> "none", id |-> 0]
NoTask == [at |-> "none", id |-> 0, away |-> FALSE, spoiled |-> FALSE, by |-> {}]
NoLoad == [at |-> "none", id |-> 0, mine |-> "none"]

\* The surface; mediaSession by its id and this member's status in it; mediaRoom
\* and mediaConnected; the local stream; prejoinOpen and prejoinConfirmed; the devices that
\* the dialog, or one given up since, waits for; whether the end of a connection is
\* being reported; deviceLost; whether mediaReconnectState is "reconnecting" (nothing asks for its
\* other states), the attempts and the timer.  A task is spoiled when a load that failed or another surface has hidden its session.
Init ==
  /\ server = [id |-> 0, live |-> FALSE, mine |-> "none"]
  /\ page = [away |-> FALSE, id |-> 0, mine |-> "none", room |-> FALSE, up |-> FALSE,
             stream |-> FALSE, pre |-> FALSE, sure |-> FALSE, lost |-> FALSE,
             rc |-> FALSE, attempts |-> 0, timer |-> FALSE, prep |-> FALSE, gone |-> FALSE]
  /\ op = NoOp /\ task = NoTask
  /\ load = NoLoad

\* clearMediaReconnect
Cleared(p) == [p EXCEPT !.timer = FALSE, !.attempts = 0, !.rc = FALSE]
\* disconnectMedia
Disconnected(p) == [Cleared(p) EXCEPT !.room = FALSE, !.up = FALSE, !.stream = FALSE]
\* closePrejoin with the stream released
PrejoinClosed(p) == [p EXCEPT !.pre = FALSE, !.sure = FALSE, !.stream = FALSE]
Spoiled == [task EXCEPT !.spoiled = task # NoTask]
\* Mutant of Mutated: a mutation does not overtake the loads under way.
NoMutation == UNCHANGED load
\* markMediaMutation: a load asked before shows nothing, so it is dropped at once.
Mutated == load' = NoLoad
\* mediaContextCurrent
Current == task.id = page.id /\ task.away = page.away

-----------------------------------------------------------------------------
(* Loading the session *)

\* A refresh, also one the group's events ask for.  A load that a mutation, a newer
\* load or another surface overtakes shows nothing, so what matters of the others is
\* when the server answers them.
LoadServed ==
  /\ ~page.away
  /\ load' = [at |-> "served", id |-> IF server.live THEN server.id ELSE 0, mine |-> server.mine]
  /\ UNCHANGED <<server, page, op, task>>

\* mergeMediaSessionSnapshot: a joined member is not shown as invited again.
Merged(id, mine) ==
  IF id = page.id /\ page.mine = "joined" /\ mine = "invited" THEN "joined" ELSE mine

LoadReplied ==
  /\ load.at = "served"
  /\ page' = IF page.away THEN page ELSE [page EXCEPT !.id = load.id, !.mine = Merged(load.id, load.mine)]
  /\ load' = NoLoad
  /\ UNCHANGED <<server, op, task>>

\* A load that fails finds no session; nor does one on the surface of the other kind of
\* call, where the browser's history takes the session along.
LoadFailed ==
  /\ page' = [page EXCEPT !.id = 0, !.mine = "none"]
  /\ task' = Spoiled
  /\ load' = NoLoad
  /\ UNCHANGED <<server, op>>

-----------------------------------------------------------------------------
(* createMedia and mediaAction *)

OpClicked(kind) ==
  /\ ~page.away /\ op = NoOp
  /\ IF kind = "create" THEN page.id = 0 ELSE page.id # 0
  /\ kind \in {"join", "reject"} => page.mine = "invited"
  /\ kind \in {"leave", "end"} => page.mine = "joined"
  /\ op' = [at |-> "asked", kind |-> kind, id |-> page.id]
  /\ UNCHANGED <<server, page, task, load>>

\* The session ends: who was in it makes no difference any more.
Over == server' = [server EXCEPT !.live = FALSE, !.mine = "none"]

\* At the server: a member joins, rejects or leaves the live session it was shown when
\* it clicked; the last one to leave ends it.
Accepted(kind) ==
  /\ IF kind = "create" THEN ~server.live /\ server.id < MaxSessions
     ELSE server.live /\ server.id = op.id
  /\ \/ /\ kind = "create"
        /\ server' = [id |-> server.id + 1, live |-> TRUE, mine |-> "joined"]
     \/ kind = "join" /\ server' = [server EXCEPT !.mine = "joined"]
     \/ kind \in {"leave", "reject"} /\ server' = [server EXCEPT !.mine = "left"]
     \/ kind \in {"leave", "reject", "end"} /\ Over

\* The replies to create and join are handled alike, and those to leave and end.
Reply(kind) == CASE kind = "create" -> "join" [] kind = "end" -> "leave" [] OTHER -> kind

OpServed ==
  /\ op.at = "asked"
  /\ \/ /\ Accepted(op.kind)
        /\ op' = [at |-> "served", kind |-> Reply(op.kind), id |-> IF server'.live THEN server'.id ELSE 0]
     \/ UNCHANGED server /\ op' = NoOp
  /\ UNCHANGED <<page, task, load>>

\* The reply is shown, on whatever surface the page is by then; a created or joined
\* session goes on to its devices.
OpReplied ==
  LET mine == IF op.id = 0 THEN "none" ELSE IF op.kind = "join" THEN "joined" ELSE "left"
      shown == [page EXCEPT !.id = op.id, !.mine = mine] IN
  /\ op.at = "served"
  /\ Mutated
  /\ page' = IF op.kind = "leave" THEN Disconnected(PrejoinClosed(shown)) ELSE shown
  /\ op' = IF op.kind = "join" THEN [NoOp EXCEPT !.at = "devices"] ELSE NoOp
  /\ UNCHANGED <<server, task>>

\* openPrejoin
PrejoinOpened(p) == IF p.id = 0 THEN p ELSE [p EXCEPT !.pre = TRUE, !.sure = FALSE]

\* connectMedia: joins the task under way or starts one (connectMediaOnce).
Connect(p, who) ==
  LET done == IF "timer" \in who THEN [p EXCEPT !.attempts = 0, !.rc = FALSE] ELSE p IN
  \/ /\ task # NoTask
     /\ page' = p /\ task' = [task EXCEPT !.by = @ \cup who] /\ UNCHANGED load
  \/ /\ task = NoTask /\ (p.id = 0 \/ p.mine # "joined")
     /\ page' = done /\ UNCHANGED <<task, load>>
  \/ /\ task = NoTask /\ p.id # 0 /\ p.mine = "joined" /\ (p.lost \/ (~p.sure /\ ~p.stream))
     /\ page' = PrejoinOpened([done EXCEPT !.lost = FALSE, !.rc = @ /\ ~p.lost])
     /\ UNCHANGED <<task, load>>
  \/ /\ task = NoTask /\ p.id # 0 /\ p.mine = "joined" /\ ~p.lost /\ (p.sure \/ p.stream)
     /\ page' = p
     /\ task' = [NoTask EXCEPT !.at = "connecting", !.id = p.id, !.away = p.away, !.by = who]
     /\ Mutated

\* trySavedDeviceStream: with devices chosen before, the session connects at once;
\* else openPrejoin.
SavedDevices(ok) ==
  /\ op.at = "devices"
  /\ IF ok THEN Connect([page EXCEPT !.stream = TRUE, !.sure = TRUE, !.pre = FALSE], {})
     ELSE /\ \/ page' = PrejoinOpened(page)
             \/ page' = PrejoinOpened([page EXCEPT !.stream = FALSE, !.sure = FALSE])
          /\ UNCHANGED <<task, load>>
  /\ op' = IF ok THEN [op EXCEPT !.at = "connecting"] ELSE NoOp
  /\ UNCHANGED server

OpConnected ==
  /\ op.at = "connecting" /\ task = NoTask
  /\ op' = NoOp
  /\ UNCHANGED <<server, page, task, load>>

ConnectClicked ==
  /\ ~page.away /\ op = NoOp /\ page.mine = "joined"
  /\ IF ~page.pre /\ ~page.sure
     THEN op' = [NoOp EXCEPT !.at = "devices"] /\ UNCHANGED <<page, task, load>>
     ELSE op' = [NoOp EXCEPT !.at = "connecting"] /\ Connect(page, {})
  /\ UNCHANGED server

\* The dialog: its devices are acquired, confirmed or given up.  A permission that comes
\* after the dialog was given up is taken all the same.  Bound: one is waited for at a
\* time, by a dialog that was opened again too.
PrejoinPrepares ==
  /\ page.pre /\ ~page.prep /\ page.id # 0
  /\ page' = [page EXCEPT !.prep = TRUE]
  /\ UNCHANGED <<server, op, task, load>>

PrejoinPrepared(ok) ==
  /\ page.prep
  /\ page' = [page EXCEPT !.stream = ok, !.prep = FALSE]
  /\ UNCHANGED <<server, op, task, load>>

PrejoinConfirmed ==
  /\ page.pre /\ page.stream /\ ~page.prep
  /\ Connect([page EXCEPT !.sure = TRUE, !.pre = FALSE], {"confirm"})
  /\ UNCHANGED <<server, op>>

PrejoinCancelled ==
  /\ page.pre
  /\ page' = PrejoinClosed(page)
  /\ UNCHANGED <<server, op, task, load>>

-----------------------------------------------------------------------------
(* connectMediaOnce *)

\* updateMediaConnectionState: the server takes the state of a member of the session.
Posted(ok) == ok => server.live /\ server.id = task.id /\ server.mine = "joined"
\* Its reply shows the session, when the context is still current.
Shown(p) == IF Current THEN [p EXCEPT !.mine = "joined"] ELSE p
Overtaking == IF Current THEN Mutated ELSE UNCHANGED load

\* scheduleMediaReconnect
Rescheduled(p) ==
  IF p.id = 0 \/ p.up \/ p.lost \/ p.timer THEN p
  ELSE IF p.attempts >= Limit THEN p
  ELSE [p EXCEPT !.attempts = @ + 1, !.rc = TRUE, !.timer = TRUE]

\* The task fails: the dialog that confirmed it opens again, the timer tries again.
Rejected(p) ==
  LET q == IF "confirm" \in task.by THEN [p EXCEPT !.pre = TRUE, !.sure = FALSE] ELSE p IN
  /\ page' = IF "timer" \in task.by THEN Rescheduled(q) ELSE q
  /\ task' = NoTask

\* A failure is told to the server first, while the context is current.
Failing(p) ==
  LET q == [p EXCEPT !.rc = FALSE] IN
  IF Current THEN page' = q /\ task' = [task EXCEPT !.at = "failed"] ELSE Rejected(q)

ConnectingPosted(ok) ==
  /\ task.at = "connecting" /\ Posted(ok)
  /\ IF ok THEN task' = [task EXCEPT !.at = "posted"] /\ UNCHANGED page ELSE Rejected(page)
  /\ UNCHANGED <<server, op, load>>

ConnectingShown ==
  /\ task.at = "posted"
  /\ page' = Shown(page) /\ Overtaking
  /\ task' = [task EXCEPT !.at = "grant"]
  /\ UNCHANGED <<server, op>>

\* The grant; connectWithGrant closes what was connected, keeping the stream.
GrantReplied(ok) ==
  /\ task.at = "grant"
  /\ IF ok /\ Current
     THEN /\ page' = [(IF page.rc THEN page ELSE Cleared(page)) EXCEPT !.room = TRUE, !.up = FALSE]
          /\ task' = [task EXCEPT !.at = IF page.stream THEN "room" ELSE "mic"]
     ELSE Failing(page)
  /\ UNCHANGED <<server, op, load>>

\* connectWithGrant fails: its own room is closed; when another generation has
\* closed it before, the tracks are stopped.
RoomFailed ==
  Failing(IF ~page.room THEN [page EXCEPT !.stream = FALSE]
          ELSE IF page.rc THEN [page EXCEPT !.room = FALSE, !.up = FALSE, !.stream = FALSE]
          ELSE Disconnected(page))

MicAcquired(ok) ==
  /\ task.at = "mic"
  /\ IF ok /\ page.room
     THEN page' = [page EXCEPT !.stream = TRUE] /\ task' = [task EXCEPT !.at = "room"]
     ELSE RoomFailed
  /\ UNCHANGED <<server, op, load>>

RoomConnected(ok) ==
  /\ task.at = "room"
  /\ IF ~ok \/ ~page.room THEN RoomFailed
     ELSE IF Current THEN page' = [page EXCEPT !.up = TRUE] /\ task' = [task EXCEPT !.at = "connected"]
     ELSE Failing(Disconnected(page))
  /\ UNCHANGED <<server, op, load>>

ConnectedPosted(ok) ==
  /\ task.at = "connected" /\ Posted(ok)
  /\ IF ok THEN task' = [task EXCEPT !.at = "confirmed"] /\ UNCHANGED page ELSE Failing(page)
  /\ UNCHANGED <<server, op, load>>

ConnectedShown ==
  /\ task.at = "confirmed"
  /\ page' = Cleared(Shown(page)) /\ Overtaking
  /\ task' = NoTask
  /\ UNCHANGED <<server, op>>

FailedPosted(ok) ==
  /\ task.at = "failed" /\ Posted(ok)
  /\ Rejected(IF ok THEN Shown(page) ELSE page)
  /\ IF ok THEN Overtaking ELSE UNCHANGED load
  /\ UNCHANGED <<server, op>>

-----------------------------------------------------------------------------
(* Events of the provider and of the devices, and the timer *)

Reconnecting ==
  /\ page.room /\ page.up
  /\ page' = Rescheduled([page EXCEPT !.up = FALSE, !.rc = TRUE])
  /\ UNCHANGED <<server, op, task, load>>

Reconnected ==
  /\ page.room /\ ~page.up /\ page.rc /\ task.at # "room"
  /\ page' = [Cleared(page) EXCEPT !.up = TRUE]
  /\ UNCHANGED <<server, op, task, load>>

\* The provider ends the connection.  That is reported first, and what is connected when
\* the report is over is closed, another room too.  What the replies to the reports of
\* these events show is left out.  Bound: one end is being reported.
ProviderGone ==
  /\ page.room /\ ~page.gone
  /\ page' = [Cleared(page) EXCEPT !.up = FALSE, !.gone = TRUE]
  /\ UNCHANGED <<server, op, task, load>>

ProviderReported ==
  /\ page.gone
  /\ page' = [Disconnected(page) EXCEPT !.gone = FALSE]
  /\ UNCHANGED <<server, op, task, load>>

TimerFires ==
  /\ page.timer
  /\ IF page.id = 0 \/ page.up \/ page.lost
     THEN page' = [page EXCEPT !.timer = FALSE] /\ UNCHANGED <<task, load>>
     ELSE Connect([page EXCEPT !.timer = FALSE], {"timer"})
  /\ UNCHANGED <<server, op>>

\* devicechange while connected, or a published track that ends.
DeviceLost(ended) ==
  /\ page.room /\ page.up /\ (ended \/ (~page.pre /\ page.id # 0))
  /\ page' = IF ended THEN [Disconnected(page) EXCEPT !.lost = TRUE, !.sure = FALSE]
             ELSE [page EXCEPT !.lost = TRUE]
  /\ UNCHANGED <<server, op, task, load>>

Hidden == [Disconnected(PrejoinClosed(page)) EXCEPT !.id = 0, !.mine = "none"]

\* updateSurface: what was shown and connected is dropped, and the loads under way.
\* selectSpace leaves the joined session at the server first.
SurfaceLeft ==
  /\ ~page.away
  /\ page' = [Hidden EXCEPT !.away = TRUE]
  /\ task' = Spoiled
  /\ load' = NoLoad
  /\ \/ UNCHANGED server
     \/ page.mine = "joined" /\ server.live /\ server.id = page.id /\ server' = [server EXCEPT !.mine = "left"]
  /\ UNCHANGED op

\* Coming back loads the session again.
SurfaceEntered ==
  /\ page.away
  /\ page' = [Hidden EXCEPT !.away = FALSE]
  /\ task' = Spoiled
  /\ load' = NoLoad
  /\ UNCHANGED <<server, op>>

\* popstate: the surface changes with nothing else, and the refresh comes later.
SurfacePopped ==
  /\ page' = [page EXCEPT !.away = ~@]
  /\ UNCHANGED <<server, op, task, load>>

\* External: another member creates a session with this one, or ends it.
Others ==
  /\ \/ ~server.live /\ server.id < MaxSessions
        /\ server' = [id |-> server.id + 1, live |-> TRUE, mine |-> "invited"]
     \/ server.live /\ Over
  /\ UNCHANGED <<page, op, task, load>>

Next ==
  \/ LoadServed \/ LoadReplied \/ LoadFailed
  \/ \E kind \in {"create", "join", "reject", "leave", "end"} : OpClicked(kind)
  \/ OpServed \/ OpReplied \/ OpConnected \/ ConnectClicked
  \/ PrejoinPrepares \/ PrejoinConfirmed \/ PrejoinCancelled
  \/ \E ok \in BOOLEAN :
       \/ SavedDevices(ok) \/ PrejoinPrepared(ok) \/ ConnectingPosted(ok) \/ GrantReplied(ok) \/ MicAcquired(ok)
       \/ RoomConnected(ok) \/ ConnectedPosted(ok) \/ FailedPosted(ok) \/ DeviceLost(ok)
  \/ ConnectingShown \/ ConnectedShown \/ Reconnecting \/ Reconnected
  \/ ProviderGone \/ ProviderReported \/ TimerFires \/ SurfaceLeft \/ SurfaceEntered \/ SurfacePopped \/ Others

Spec == Init /\ [][Next]_vars

-----------------------------------------------------------------------------
Mine == {"none", "invited", "joined", "left"}

TypeOK ==
  /\ server \in [id : 0 .. MaxSessions, live : BOOLEAN, mine : Mine]
  /\ page \in [away : BOOLEAN, id : 0 .. MaxSessions, mine : Mine, room : BOOLEAN, up : BOOLEAN,
               stream : BOOLEAN, pre : BOOLEAN, sure : BOOLEAN, lost : BOOLEAN,
               rc : BOOLEAN, attempts : 0 .. Limit, timer : BOOLEAN,
               prep : BOOLEAN, gone : BOOLEAN]
  /\ op \in [at : {"none", "asked", "served", "devices", "connecting"},
             kind : {"none", "create", "join", "reject", "leave", "end"}, id : 0 .. MaxSessions]
  /\ task \in [at : {"none", "connecting", "posted", "grant", "mic", "room", "connected", "confirmed", "failed"},
               id : 0 .. MaxSessions, away : BOOLEAN, spoiled : BOOLEAN,
               by : SUBSET {"confirm", "timer"}]
  /\ load \in [at : {"none", "served"}, id : 0 .. MaxSessions, mine : Mine]

\* A refresh does not cancel a connection: while one is made to a session that is
\* live and joined at the server, the page shows that session, however late the
\* loads asked before it come.  A load that fails is left out: optional() answers
\* for it with no session, which hides the session that is connecting.
RefreshKeepsConnection ==
  task # NoTask /\ ~task.spoiled /\ server.live /\ server.id = task.id /\ server.mine = "joined"
    => page.id = task.id /\ page.mine = "joined"
=============================================================================
