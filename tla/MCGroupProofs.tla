---------------------------- MODULE MCGroupProofs ----------------------------
(***************************************************************************)
(* The call or video session, the Radio, the panel of translations and the  *)
(* own data of a group's page, for any number of sessions, of bursts and of *)
(* changes.  The page's record is one of many: the server has its own, and  *)
(* starts, stops, loads and losses of the device that are under way hold    *)
(* what they read before.  The invariants say, row by row, what each may    *)
(* still find when it settles.                                              *)
(* Last, the theorems that every part of the pages has a share in.          *)
(***************************************************************************)
EXTENDS MCRecordersProofs

-----------------------------------------------------------------------------
(* The call or video session of a group's page. *)

MediaIds == 0 .. MediaSessions
MediaPages ==
  [away : BOOLEAN, id : MediaIds, mine : Media!Mine, room : BOOLEAN, up : BOOLEAN, stream : BOOLEAN,
   pre : BOOLEAN, sure : BOOLEAN, lost : BOOLEAN, rc : BOOLEAN, attempts : 0 .. Limit, timer : BOOLEAN,
   prep : BOOLEAN, gone : BOOLEAN]
MediaOps ==
  [at : {"none", "asked", "served", "devices", "connecting"},
   kind : {"none", "create", "join", "reject", "leave", "end"}, id : MediaIds]
MediaTasks ==
  [at : {"none", "connecting", "posted", "grant", "mic", "room", "connected", "confirmed", "failed"},
   id : MediaIds, away : BOOLEAN, spoiled : BOOLEAN, by : SUBSET {"confirm", "timer"}]
MediaLoads == [at : {"none", "served"}, id : MediaIds, mine : Media!Mine]
Latest == [id : MediaIds, live : BOOLEAN, mine : Media!Mine]

\* This member has joined the session, and may have left it since.
Member == {"joined", "left"}

\* A member's status goes from invited to joined to left: what x says of the live
\* session is no later than what the server says, and an invitation is out of date
\* only until the operation that answered it has replied.
Follows(x, s, o) ==
  s.live /\ x.id = s.id =>
    /\ x.mine = "joined" => s.mine \in Member
    /\ x.mine = "left" => s.mine = "left"
    /\ x.mine = "invited" => s.mine = "invited" \/ o.at = "served"

\* Only an invited member asks to join; what was served, the server has done.
Asks(o, s) == o.at = "asked" /\ o.kind = "join" /\ s.live /\ o.id = s.id => s.mine = "invited"
Done(o, s) ==
  o.at = "served" /\ s.live =>
    /\ o.kind = "join" => (s.mine = "joined" => o.id = s.id) /\ (o.id = s.id => s.mine \in Member)
    /\ o.kind # "join" => s.mine # "joined" /\ (o.id = s.id => s.mine = "left")

\* A connection is made to a session the member joined, and nothing that was loaded
\* since it began says otherwise.
Connects(t, s, p, l) ==
  t # Media!NoTask =>
    /\ s.live /\ t.id = s.id => s.mine \in Member
    /\ ~t.spoiled /\ s.live /\ s.id = t.id /\ s.mine = "joined" =>
         /\ p.id = t.id /\ p.mine = "joined"
         /\ l.at = "served" => l.id = t.id /\ l.mine = "joined"

MediaTyped == v1 \in Latest /\ v2 \in MediaPages /\ v3 \in MediaOps /\ v4 \in MediaTasks /\ v5 \in MediaLoads
MediaRows ==
  /\ v2.id <= v1.id /\ v5.id <= v1.id /\ v3.id <= v1.id /\ v4.id <= v1.id /\ (v1.live => v1.id # 0)
  /\ Follows(v2, v1, v3) /\ Follows(v5, v1, v3) /\ Asks(v3, v1) /\ Done(v3, v1) /\ Connects(v4, v1, v2, v5)
MediaInv == MediaTyped /\ MediaRows

\* What a page does that leaves its session as it is.
SameSession(p, q) == q \in MediaPages /\ q.id = p.id /\ q.mine = p.mine

LEMMA MediaConsts ==
  /\ 0 \in MediaIds /\ 0 \in 0 .. Limit /\ Limit \in Nat /\ MediaIds \subseteq Nat
  /\ \A n \in MediaIds : n < MediaSessions => n + 1 \in MediaIds
  /\ Media!NoTask \in MediaTasks /\ Media!NoTask.at = "none" /\ Media!NoTask.id = 0
  /\ Media!NoOp \in MediaOps /\ Media!NoOp.at = "none" /\ Media!NoOp.id = 0
  /\ Media!NoLoad \in MediaLoads /\ Media!NoLoad.at = "none" /\ Media!NoLoad.id = 0
  BY PagesConstants
  DEF Media!MediaAssumption, MediaIds, Media!NoTask, MediaTasks, Media!NoOp, MediaOps, Media!NoLoad,
      MediaLoads, Media!Mine

LEMMA PageHelpers ==
  ASSUME NEW p \in MediaPages
  PROVE  /\ SameSession(p, Media!Cleared(p)) /\ SameSession(p, Media!Disconnected(p))
         /\ SameSession(p, Media!PrejoinClosed(p)) /\ SameSession(p, Media!PrejoinOpened(p))
         /\ SameSession(p, Media!Rescheduled(p))
<1> USE MediaConsts
<1>1. SameSession(p, Media!Cleared(p))  BY DEF SameSession, MediaPages, Media!Cleared
<1>2. SameSession(p, Media!Disconnected(p))  BY DEF SameSession, MediaPages, Media!Cleared, Media!Disconnected
<1>3. SameSession(p, Media!PrejoinClosed(p))  BY DEF SameSession, MediaPages, Media!PrejoinClosed
<1>4. SameSession(p, Media!PrejoinOpened(p))  BY DEF SameSession, MediaPages, Media!PrejoinOpened
<1>5. SameSession(p, Media!Rescheduled(p))
  <2>1. p.attempts < Limit => p.attempts + 1 \in 0 .. Limit  BY DEF MediaPages
  <2>2. p.attempts < Limit => SameSession(p, [p EXCEPT !.attempts = @ + 1, !.rc = TRUE, !.timer = TRUE])
    <3> DEFINE n == p.attempts + 1
    <3>1. SUFFICES ASSUME p.attempts < Limit
                   PROVE  SameSession(p, [p EXCEPT !.attempts = n, !.rc = TRUE, !.timer = TRUE])
      OBVIOUS
    <3>2. n \in 0 .. Limit  BY <2>1, <3>1
    <3> HIDE DEF n
    <3> QED  BY <3>2 DEF SameSession, MediaPages
  <2>3. p.attempts < Limit \/ p.attempts >= Limit  BY DEF MediaPages
  <2> QED  BY <2>2, <2>3 DEF Media!Rescheduled, SameSession
<1> QED  BY <1>1, <1>2, <1>3, <1>4, <1>5

\* A step that leaves the session as it is, drops the loads under way or not, and ends the
\* task or goes on with it.
LEMMA QuietKeeps ==
  ASSUME MediaInv, v1' = v1, SameSession(v2, v2'),
         v3' \in MediaOps, v3' = v3 \/ (v3.at # "served" /\ v3'.at \notin {"asked", "served"} /\ v3'.id \in {0, v3.id}),
         v4' \in MediaTasks,
         v4' = Media!NoTask \/ v4' = v4 \/ (v4 # Media!NoTask /\ v4'.id = v4.id /\ v4'.spoiled = v4.spoiled),
         v5' = v5 \/ v5' = Media!NoLoad
  PROVE  MediaInv'
<1>1. MediaTyped'
  BY MediaConsts DEF MediaInv, MediaTyped, SameSession
<1>2. v2'.id <= v1'.id /\ v5'.id <= v1'.id /\ v3'.id <= v1'.id /\ v4'.id <= v1'.id /\ (v1'.live => v1'.id # 0)
  <2>1. v1'.id = v1.id /\ v1.id \in Nat /\ v2'.id = v2.id /\ v5'.id \in {v5.id, 0} /\ v3'.id \in {v3.id, 0}
    BY MediaConsts DEF MediaInv, MediaTyped, Latest, SameSession
  <2>2. v4'.id \in {v4.id, 0}  BY MediaConsts
  <2> QED  BY <2>1, <2>2 DEF MediaInv, MediaRows
<1>3. Follows(v2', v1', v3') /\ Follows(v5', v1', v3')
  <2>1. v3.at = "served" => v3'.at = "served"  OBVIOUS
  <2>2. Follows(v2, v1, v3) /\ Follows(v5, v1, v3) /\ (v1.live => v1.id # 0)
    BY DEF MediaInv, MediaRows
  <2>3. Follows(v2', v1', v3')  BY <2>1, <2>2 DEF Follows, SameSession
  <2>4. ASSUME v5' = v5 PROVE Follows(v5', v1', v3')  BY <2>1, <2>2, <2>4 DEF Follows
  <2>5. ASSUME v5' = Media!NoLoad PROVE Follows(v5', v1', v3')
    BY <2>2, <2>5, MediaConsts DEF Follows
  <2> QED  BY <2>3, <2>4, <2>5
<1>4. Asks(v3', v1') /\ Done(v3', v1')
  BY DEF MediaInv, MediaRows, Asks, Done
<1>5. Connects(v4', v1', v2', v5')
  BY MediaConsts DEF MediaInv, MediaRows, Connects, SameSession
<1> QED  BY <1>1, <1>2, <1>3, <1>4, <1>5 DEF MediaInv, MediaRows

\* connectMedia: what starts a connection drops the loads under way.
LEMMA ConnectKeeps ==
  ASSUME MediaInv, NEW p, SameSession(v2, p), NEW who \in SUBSET {"confirm", "timer"}, Media!Connect(p, who),
         v1' = v1, v3' \in MediaOps,
         v3' = v3 \/ (v3.at # "served" /\ v3'.at \notin {"asked", "served"} /\ v3'.id \in {0, v3.id})
  PROVE  MediaInv'
<1> DEFINE done == IF "timer" \in who THEN [p EXCEPT !.attempts = 0, !.rc = FALSE] ELSE p
<1>1. p \in MediaPages /\ p.id = v2.id /\ p.mine = v2.mine
  BY DEF SameSession
<1>2. v4 \in MediaTasks  BY DEF MediaInv, MediaTyped
<1>3. SameSession(v2, done)  BY <1>1, MediaConsts DEF SameSession, MediaPages
<1>4. CASE v4 # Media!NoTask /\ v2' = p /\ v4' = [v4 EXCEPT !.by = @ \cup who] /\ UNCHANGED v5
  <2>1. v4' \in MediaTasks /\ v4'.id = v4.id /\ v4'.spoiled = v4.spoiled  BY <1>2, <1>4 DEF MediaTasks
  <2> QED  BY <1>4, <2>1, QuietKeeps
<1>5. CASE v2' = done /\ UNCHANGED <<v4, v5>>
  BY <1>2, <1>3, <1>5, QuietKeeps
<1>6. CASE v2' = Media!PrejoinOpened([done EXCEPT !.lost = FALSE, !.rc = @ /\ ~p.lost]) /\ UNCHANGED <<v4, v5>>
  <2> DEFINE r == done.rc /\ ~p.lost
             d == [done EXCEPT !.lost = FALSE, !.rc = r]
  <2>1. r \in BOOLEAN  OBVIOUS
  <2>2. v2' = Media!PrejoinOpened(d)  BY <1>3, <1>6 DEF SameSession, MediaPages
  <2>3. SameSession(done, d)
    <3> HIDE DEF r, done
    <3> QED  BY <1>3, <2>1 DEF SameSession, MediaPages
  <2> HIDE DEF d, done
  <2>4. SameSession(d, v2')  BY <2>2, <2>3, PageHelpers DEF SameSession
  <2>5. SameSession(v2, v2')  BY <1>3, <2>3, <2>4 DEF SameSession
  <2> QED  BY <1>2, <1>6, <2>5, QuietKeeps
<1>7. CASE /\ v4 = Media!NoTask /\ p.id # 0 /\ p.mine = "joined" /\ v2' = p /\ v5' = Media!NoLoad
           /\ v4' = [Media!NoTask EXCEPT !.at = "connecting", !.id = p.id, !.away = p.away, !.by = who]
  <2>1. v4' \in MediaTasks /\ v4'.id = p.id
    <3>1. p.id \in MediaIds /\ p.away \in BOOLEAN  BY <1>1 DEF MediaPages
    <3> QED  BY <1>7, <3>1 DEF MediaTasks, Media!NoTask
  <2>2. MediaTyped'  BY <1>1, <1>7, <2>1, MediaConsts DEF MediaInv, MediaTyped
  <2>3. v1.id \in Nat /\ v2.id <= v1.id /\ v3.id <= v1.id /\ (v1.live => v1.id # 0)
    BY MediaConsts DEF MediaInv, MediaTyped, MediaRows, Latest
  <2>4. v2'.id <= v1'.id /\ v5'.id <= v1'.id /\ v3'.id <= v1'.id /\ v4'.id <= v1'.id /\ (v1'.live => v1'.id # 0)
    BY <1>1, <1>7, <2>1, <2>3, MediaConsts
  <2>5. Follows(v2, v1, v3)  BY DEF MediaInv, MediaRows
  <2>6. Follows(v2', v1', v3')  BY <1>1, <1>7, <2>5 DEF Follows
  <2>7. Follows(v5', v1', v3')  BY <1>7, <2>3, MediaConsts DEF Follows
  <2>8. Asks(v3', v1') /\ Done(v3', v1')  BY DEF MediaInv, MediaRows, Asks, Done
  <2>9. v1.live /\ p.id = v1.id => v1.mine \in Member  BY <1>1, <1>7, <2>5 DEF Follows
  <2>10. Connects(v4', v1', v2', v5')  BY <1>7, <2>1, <2>9, MediaConsts DEF Connects
  <2> QED  BY <2>2, <2>4, <2>6, <2>7, <2>8, <2>10 DEF MediaInv, MediaRows
<1> QED  BY <1>4, <1>5, <1>6, <1>7 DEF Media!Connect, Media!Mutated

\* The reply of updateMediaConnectionState shows the session as joined.
LEMMA ShownKeeps ==
  ASSUME MediaInv, v4 # Media!NoTask, NEW p, SameSession(v2, p), SameSession(Media!Shown(p), v2'),
         v1' = v1, v3' = v3, v4' \in MediaTasks,
         v4' = Media!NoTask \/ (v4'.id = v4.id /\ v4'.spoiled = v4.spoiled),
         v5' = v5 \/ v5' = Media!NoLoad
  PROVE  MediaInv'
<1>1. v3 \in MediaOps  BY DEF MediaInv, MediaTyped
<1>2. CASE Media!Shown(p) = p
  <2>1. SameSession(v2, v2')  BY <1>2 DEF SameSession
  <2> QED  BY <1>1, <2>1, QuietKeeps
<1>3. CASE v4.id = v2.id /\ Media!Shown(p) = [p EXCEPT !.mine = "joined"]
  <2>1. v2' \in MediaPages /\ v2'.id = v2.id /\ v2'.mine = "joined"
    BY <1>3 DEF SameSession, MediaPages
  <2>2. MediaTyped'  BY <2>1, MediaConsts DEF MediaInv, MediaTyped
  <2>3. v1.id \in Nat /\ v2.id <= v1.id /\ v3.id <= v1.id /\ v4.id <= v1.id /\ v5.id <= v1.id /\ (v1.live => v1.id # 0)
    BY MediaConsts DEF MediaInv, MediaTyped, MediaRows, Latest
  <2>4. v2'.id <= v1'.id /\ v5'.id <= v1'.id /\ v3'.id <= v1'.id /\ v4'.id <= v1'.id /\ (v1'.live => v1'.id # 0)
    BY <2>1, <2>3, MediaConsts
  <2>5. v1.live /\ v4.id = v1.id => v1.mine \in Member  BY DEF MediaInv, MediaRows, Connects
  <2>6. Follows(v2', v1', v3')  BY <1>3, <2>1, <2>5 DEF Follows
  <2>7. Follows(v5', v1', v3')
    <3>1. Follows(v5, v1, v3)  BY DEF MediaInv, MediaRows
    <3> QED  BY <2>3, <3>1, MediaConsts DEF Follows
  <2>8. Asks(v3', v1') /\ Done(v3', v1')  BY DEF MediaInv, MediaRows, Asks, Done
  <2>9. Connects(v4', v1', v2', v5')
    <3>1. Connects(v4, v1, v2, v5)  BY DEF MediaInv, MediaRows
    <3> QED  BY <1>3, <2>1, <2>5, <3>1, MediaConsts DEF Connects
  <2> QED  BY <2>2, <2>4, <2>6, <2>7, <2>8, <2>9 DEF MediaInv, MediaRows
<1> QED  BY <1>2, <1>3 DEF Media!Shown, Media!Current

-----------------------------------------------------------------------------
(* The steps: those that leave the session as it is. *)

LEMMA SessionUntouched ==
  ASSUME MediaInv,
         \/ Media!PrejoinPrepares \/ Media!PrejoinCancelled \/ Media!Reconnecting \/ Media!Reconnected
         \/ Media!ProviderGone \/ Media!ProviderReported \/ Media!SurfacePopped
         \/ \E b \in BOOLEAN : Media!DeviceLost(b) \/ Media!PrejoinPrepared(b)
  PROVE  MediaInv'
<1>0. v2 \in MediaPages /\ v3 \in MediaOps /\ v4 \in MediaTasks  BY DEF MediaInv, MediaTyped
<1>1. UNCHANGED <<v1, v3, v4, v5>>
  BY DEF Media!PrejoinPrepares, Media!PrejoinPrepared, Media!PrejoinCancelled, Media!Reconnecting, Media!Reconnected,
         Media!ProviderGone, Media!ProviderReported, Media!SurfacePopped, Media!DeviceLost
<1>2. SameSession(v2, v2')
  <2>1. CASE Media!PrejoinPrepares \/ Media!SurfacePopped \/ \E b \in BOOLEAN : Media!PrejoinPrepared(b)
    BY <1>0, <2>1 DEF Media!PrejoinPrepares, Media!PrejoinPrepared, Media!SurfacePopped, SameSession, MediaPages
  <2>2. CASE Media!PrejoinCancelled
    BY <1>0, <2>2, PageHelpers DEF Media!PrejoinCancelled
  <2>6. CASE Media!ProviderGone
    <3> DEFINE p == Media!Cleared(v2)
    <3>1. SameSession(v2, p) /\ v2' = [p EXCEPT !.up = FALSE, !.gone = TRUE]
      BY <1>0, <2>6, PageHelpers DEF Media!ProviderGone
    <3> HIDE DEF p
    <3> QED  BY <1>0, <3>1 DEF SameSession, MediaPages
  <2>7. CASE Media!ProviderReported
    <3> DEFINE p == Media!Disconnected(v2)
    <3>1. SameSession(v2, p) /\ v2' = [p EXCEPT !.gone = FALSE]
      BY <1>0, <2>7, PageHelpers DEF Media!ProviderReported
    <3> HIDE DEF p
    <3> QED  BY <1>0, <3>1 DEF SameSession, MediaPages
  <2>3. CASE Media!Reconnecting
    <3> DEFINE p == [v2 EXCEPT !.up = FALSE, !.rc = TRUE]
    <3>1. SameSession(v2, p)  BY <1>0 DEF SameSession, MediaPages
    <3>2. v2' = Media!Rescheduled(p)  BY <2>3 DEF Media!Reconnecting
    <3> HIDE DEF p
    <3> QED  BY <3>1, <3>2, PageHelpers DEF SameSession
  <2>4. CASE Media!Reconnected
    <3> DEFINE p == Media!Cleared(v2)
    <3>1. SameSession(v2, p)  BY <1>0, PageHelpers
    <3>2. v2' = [p EXCEPT !.up = TRUE]  BY <2>4 DEF Media!Reconnected
    <3> HIDE DEF p
    <3> QED  BY <3>1, <3>2 DEF SameSession, MediaPages
  <2>5. ASSUME NEW ended \in BOOLEAN, Media!DeviceLost(ended) PROVE SameSession(v2, v2')
    <3> DEFINE p == Media!Disconnected(v2)
    <3>1. SameSession(v2, p)  BY <1>0, PageHelpers
    <3>2. v2' = [p EXCEPT !.lost = TRUE, !.sure = FALSE] \/ v2' = [v2 EXCEPT !.lost = TRUE]
      BY <2>5 DEF Media!DeviceLost
    <3> HIDE DEF p
    <3> QED  BY <1>0, <3>1, <3>2 DEF SameSession, MediaPages
  <2> QED  BY <2>1, <2>2, <2>3, <2>4, <2>5, <2>6, <2>7
<1> QED  BY <1>0, <1>1, <1>2, QuietKeeps

LEMMA ConnectionsKeep ==
  ASSUME MediaInv,
         \/ Media!OpConnected \/ Media!ConnectClicked \/ Media!PrejoinConfirmed \/ Media!TimerFires
         \/ \E ok \in BOOLEAN : Media!SavedDevices(ok)
  PROVE  MediaInv'
<1>0. v2 \in MediaPages /\ v3 \in MediaOps /\ v4 \in MediaTasks /\ SameSession(v2, v2)
  BY DEF MediaInv, MediaTyped, SameSession
<1>1. /\ [Media!NoOp EXCEPT !.at = "devices"] \in MediaOps
      /\ [Media!NoOp EXCEPT !.at = "connecting"] \in MediaOps
      /\ [v3 EXCEPT !.at = "connecting"] \in MediaOps
  BY <1>0, MediaConsts DEF MediaOps
<1>2. CASE Media!OpConnected
  <2>1. v3' = Media!NoOp /\ v3.at # "served" /\ UNCHANGED <<v1, v2, v4, v5>>  BY <1>2 DEF Media!OpConnected
  <2> QED  BY <1>0, <2>1, QuietKeeps, MediaConsts
<1>3. CASE Media!ConnectClicked
  <2>1. v3 = Media!NoOp /\ v1' = v1  BY <1>3 DEF Media!ConnectClicked
  <2>2. CASE v3' = [Media!NoOp EXCEPT !.at = "devices"] /\ UNCHANGED <<v2, v4, v5>>
    <3>1. v3' \in MediaOps /\ v3'.at = "devices" /\ v3'.id = 0  BY <1>1, <2>2, MediaConsts DEF MediaOps
    <3> QED  BY <1>0, <2>1, <2>2, <3>1, QuietKeeps, MediaConsts
  <2>3. CASE v3' = [Media!NoOp EXCEPT !.at = "connecting"] /\ Media!Connect(v2, {})
    <3>1. v3' \in MediaOps /\ v3'.at = "connecting" /\ v3'.id = 0  BY <1>1, <2>3, MediaConsts DEF MediaOps
    <3> QED  BY <1>0, <2>1, <2>3, <3>1, ConnectKeeps, MediaConsts
  <2> QED  BY <1>3, <2>2, <2>3 DEF Media!ConnectClicked
<1>4. CASE Media!PrejoinConfirmed
  <2> DEFINE p == [v2 EXCEPT !.sure = TRUE, !.pre = FALSE]
  <2>1. SameSession(v2, p)  BY <1>0 DEF SameSession, MediaPages
  <2>2. Media!Connect(p, {"confirm"}) /\ UNCHANGED <<v1, v3>>  BY <1>4 DEF Media!PrejoinConfirmed
  <2> HIDE DEF p
  <2> QED  BY <1>0, <2>1, <2>2, ConnectKeeps
<1>5. CASE Media!TimerFires
  <2> DEFINE p == [v2 EXCEPT !.timer = FALSE]
  <2>1. SameSession(v2, p)  BY <1>0 DEF SameSession, MediaPages
  <2>2. /\ (v2' = p /\ UNCHANGED <<v4, v5>>) \/ Media!Connect(p, {"timer"})
        /\ UNCHANGED <<v1, v3>>
    BY <1>5 DEF Media!TimerFires
  <2> HIDE DEF p
  <2>3. CASE v2' = p /\ UNCHANGED <<v4, v5>>  BY <1>0, <2>1, <2>2, <2>3, QuietKeeps
  <2> QED  BY <1>0, <2>1, <2>2, <2>3, ConnectKeeps
<1>6. ASSUME NEW ok \in BOOLEAN, Media!SavedDevices(ok) PROVE MediaInv'
  <2>1. v3.at = "devices" /\ v1' = v1  BY <1>6 DEF Media!SavedDevices
  <2>2. CASE ok
    <3> DEFINE p == [v2 EXCEPT !.stream = TRUE, !.sure = TRUE, !.pre = FALSE]
    <3>1. SameSession(v2, p)  BY <1>0 DEF SameSession, MediaPages
    <3>2. Media!Connect(p, {}) /\ v3' = [v3 EXCEPT !.at = "connecting"]  BY <1>6, <2>2 DEF Media!SavedDevices
    <3>3. v3' \in MediaOps /\ v3'.at = "connecting" /\ v3'.id = v3.id  BY <1>0, <3>2 DEF MediaOps
    <3> HIDE DEF p
    <3> QED  BY <2>1, <3>1, <3>2, <3>3, ConnectKeeps
  <2>3. CASE ~ok
    <3> DEFINE p == [v2 EXCEPT !.stream = FALSE, !.sure = FALSE]
    <3>1. SameSession(v2, p)  BY <1>0 DEF SameSession, MediaPages
    <3>2. v2' \in {Media!PrejoinOpened(v2), Media!PrejoinOpened(p)} /\ v3' = Media!NoOp /\ UNCHANGED <<v4, v5>>
      BY <1>6, <2>3 DEF Media!SavedDevices
    <3> HIDE DEF p
    <3>3. SameSession(v2, v2')  BY <1>0, <3>1, <3>2, PageHelpers DEF SameSession
    <3> QED  BY <1>0, <2>1, <3>2, <3>3, QuietKeeps, MediaConsts
  <2> QED  BY <2>2, <2>3
<1> QED  BY <1>2, <1>3, <1>4, <1>5, <1>6

-----------------------------------------------------------------------------
(* The steps of the connection. *)

LEMMA RejectedStays ==
  ASSUME NEW p \in MediaPages, Media!Rejected(p) PROVE SameSession(p, v2') /\ v4' = Media!NoTask
<1> DEFINE q == IF "confirm" \in v4.by THEN [p EXCEPT !.pre = TRUE, !.sure = FALSE] ELSE p
<1>1. SameSession(p, q)  BY DEF SameSession, MediaPages
<1>2. v2' \in {q, Media!Rescheduled(q)} /\ v4' = Media!NoTask  BY DEF Media!Rejected
<1> HIDE DEF q
<1> QED  BY <1>1, <1>2, PageHelpers DEF SameSession

\* A step of the task goes on with it.
GoesOn == v4' \in MediaTasks /\ v4'.id = v4.id /\ v4'.spoiled = v4.spoiled

LEMMA TaskGoesOn ==
  ASSUME v4 \in MediaTasks,
         NEW s \in {"posted", "grant", "mic", "room", "connected", "confirmed", "failed"},
         v4' = [v4 EXCEPT !.at = s]
  PROVE  GoesOn
  BY DEF GoesOn, MediaTasks

LEMMA FailingStays ==
  ASSUME v4 \in MediaTasks, NEW p \in MediaPages, Media!Failing(p)
  PROVE  SameSession(p, v2') /\ (v4' = Media!NoTask \/ GoesOn)
<1> DEFINE q == [p EXCEPT !.rc = FALSE]
<1>1. SameSession(p, q)  BY DEF SameSession, MediaPages
<1>2. CASE v2' = q /\ v4' = [v4 EXCEPT !.at = "failed"]
  BY <1>1, <1>2, TaskGoesOn
<1>3. CASE Media!Rejected(q)
  <2> HIDE DEF q
  <2> QED  BY <1>1, <1>3, RejectedStays DEF SameSession
<1> QED  BY <1>2, <1>3 DEF Media!Failing

LEMMA RoomFailedStays ==
  ASSUME v2 \in MediaPages, v4 \in MediaTasks, Media!RoomFailed
  PROVE  SameSession(v2, v2') /\ (v4' = Media!NoTask \/ GoesOn)
<1> DEFINE p == IF ~v2.room THEN [v2 EXCEPT !.stream = FALSE]
                ELSE IF v2.rc THEN [v2 EXCEPT !.room = FALSE, !.up = FALSE, !.stream = FALSE]
                ELSE Media!Disconnected(v2)
<1>1. SameSession(v2, p)
  <2>1. SameSession(v2, [v2 EXCEPT !.stream = FALSE])  BY DEF SameSession, MediaPages
  <2>2. SameSession(v2, [v2 EXCEPT !.room = FALSE, !.up = FALSE, !.stream = FALSE])
    BY DEF SameSession, MediaPages
  <2> QED  BY <2>1, <2>2, PageHelpers
<1>2. Media!Failing(p)  BY DEF Media!RoomFailed
<1> HIDE DEF p
<1> QED  BY <1>1, <1>2, FailingStays DEF SameSession

LEMMA TaskKeeps ==
  ASSUME MediaInv,
         \/ Media!ConnectingShown \/ Media!ConnectedShown
         \/ \E ok \in BOOLEAN :
              \/ Media!ConnectingPosted(ok) \/ Media!GrantReplied(ok) \/ Media!MicAcquired(ok)
              \/ Media!RoomConnected(ok) \/ Media!ConnectedPosted(ok) \/ Media!FailedPosted(ok)
  PROVE  MediaInv'
<1>0. v2 \in MediaPages /\ v3 \in MediaOps /\ v4 \in MediaTasks /\ SameSession(v2, v2)
  BY DEF MediaInv, MediaTyped, SameSession
<1>1. v4.at # "none" => v4 # Media!NoTask  BY MediaConsts
<1>2. ASSUME UNCHANGED <<v1, v3>>, v4.at # "none", SameSession(v2, v2'), v4' = Media!NoTask \/ GoesOn,
             v5' = v5 \/ v5' = Media!NoLoad
      PROVE  MediaInv'
  BY <1>0, <1>1, <1>2, QuietKeeps, MediaConsts DEF GoesOn
<1>3. ASSUME UNCHANGED <<v1, v3>>, v4.at # "none", v4' = Media!NoTask \/ GoesOn, v5' = v5 \/ v5' = Media!NoLoad,
             NEW p, SameSession(v2, p), SameSession(Media!Shown(p), v2')
      PROVE  MediaInv'
  BY <1>0, <1>1, <1>3, ShownKeeps, MediaConsts DEF GoesOn
<1>4. ASSUME NEW p, SameSession(v2, p) PROVE Media!Shown(p) \in MediaPages
  BY <1>4 DEF SameSession, Media!Shown, MediaPages, Media!Mine
<1>5. Media!Overtaking => v5' = v5 \/ v5' = Media!NoLoad  BY DEF Media!Overtaking, Media!Mutated
<1>6. CASE Media!ConnectingShown
  <2>1. /\ v2' = Media!Shown(v2) /\ v4' = [v4 EXCEPT !.at = "grant"] /\ v4.at = "posted"
        /\ UNCHANGED <<v1, v3>> /\ Media!Overtaking
    BY <1>6 DEF Media!ConnectingShown
  <2> QED  BY <1>0, <1>3, <1>4, <1>5, <2>1, TaskGoesOn DEF SameSession
<1>7. CASE Media!ConnectedShown
  <2>1. /\ v2' = Media!Cleared(Media!Shown(v2)) /\ v4' = Media!NoTask /\ v4.at = "confirmed"
        /\ UNCHANGED <<v1, v3>> /\ Media!Overtaking
    BY <1>7 DEF Media!ConnectedShown
  <2> QED  BY <1>0, <1>3, <1>4, <1>5, <2>1, PageHelpers
<1>8. ASSUME NEW ok \in BOOLEAN, Media!ConnectingPosted(ok) PROVE MediaInv'
  <2>1. v4.at = "connecting" /\ UNCHANGED <<v1, v3, v5>>  BY <1>8 DEF Media!ConnectingPosted
  <2>2. \/ v4' = [v4 EXCEPT !.at = "posted"] /\ v2' = v2
        \/ Media!Rejected(v2)
    BY <1>8 DEF Media!ConnectingPosted
  <2>3. SameSession(v2, v2') /\ (v4' = Media!NoTask \/ GoesOn)  BY <1>0, <2>2, TaskGoesOn, RejectedStays
  <2> QED  BY <1>2, <2>1, <2>3
<1>9. ASSUME NEW ok \in BOOLEAN, Media!GrantReplied(ok) PROVE MediaInv'
  <2> DEFINE q == IF v2.rc THEN v2 ELSE Media!Cleared(v2)
  <2>1. v4.at = "grant" /\ UNCHANGED <<v1, v3, v5>>  BY <1>9 DEF Media!GrantReplied
  <2>2. SameSession(v2, q)  BY <1>0, PageHelpers
  <2>3. \/ /\ v2' = [q EXCEPT !.room = TRUE, !.up = FALSE]
           /\ v4' = [v4 EXCEPT !.at = "room"] \/ v4' = [v4 EXCEPT !.at = "mic"]
        \/ Media!Failing(v2)
    BY <1>9 DEF Media!GrantReplied
  <2> HIDE DEF q
  <2>4. SameSession(q, [q EXCEPT !.room = TRUE, !.up = FALSE])  BY <2>2 DEF SameSession, MediaPages
  <2>5. SameSession(v2, [q EXCEPT !.room = TRUE, !.up = FALSE])  BY <2>2, <2>4 DEF SameSession
  <2>6. SameSession(v2, v2') /\ (v4' = Media!NoTask \/ GoesOn)
    BY <1>0, <2>3, <2>5, TaskGoesOn, FailingStays
  <2> QED  BY <1>2, <2>1, <2>6
<1>10. ASSUME NEW ok \in BOOLEAN, Media!MicAcquired(ok) PROVE MediaInv'
  <2>1. v4.at = "mic" /\ UNCHANGED <<v1, v3, v5>>  BY <1>10 DEF Media!MicAcquired
  <2>2. \/ v2' = [v2 EXCEPT !.stream = TRUE] /\ v4' = [v4 EXCEPT !.at = "room"]
        \/ Media!RoomFailed
    BY <1>10 DEF Media!MicAcquired
  <2>3. SameSession(v2, [v2 EXCEPT !.stream = TRUE])  BY <1>0 DEF SameSession, MediaPages
  <2>4. SameSession(v2, v2') /\ (v4' = Media!NoTask \/ GoesOn)
    BY <1>0, <2>2, <2>3, TaskGoesOn, RoomFailedStays
  <2> QED  BY <1>2, <2>1, <2>4
<1>11. ASSUME NEW ok \in BOOLEAN, Media!RoomConnected(ok) PROVE MediaInv'
  <2> DEFINE p == Media!Disconnected(v2)
  <2>1. v4.at = "room" /\ UNCHANGED <<v1, v3, v5>>  BY <1>11 DEF Media!RoomConnected
  <2>2. \/ v2' = [v2 EXCEPT !.up = TRUE] /\ v4' = [v4 EXCEPT !.at = "connected"]
        \/ Media!RoomFailed \/ Media!Failing(p)
    BY <1>11 DEF Media!RoomConnected
  <2>3. SameSession(v2, [v2 EXCEPT !.up = TRUE])  BY <1>0 DEF SameSession, MediaPages
  <2>4. SameSession(v2, p)  BY <1>0, PageHelpers
  <2> HIDE DEF p
  <2>5. Media!Failing(p) => SameSession(v2, v2') /\ (v4' = Media!NoTask \/ GoesOn)
    BY <1>0, <2>4, FailingStays DEF SameSession
  <2>6. SameSession(v2, v2') /\ (v4' = Media!NoTask \/ GoesOn)
    BY <1>0, <2>2, <2>3, <2>5, TaskGoesOn, RoomFailedStays
  <2> QED  BY <1>2, <2>1, <2>6
<1>12. ASSUME NEW ok \in BOOLEAN, Media!ConnectedPosted(ok) PROVE MediaInv'
  <2>1. v4.at = "connected" /\ UNCHANGED <<v1, v3, v5>>  BY <1>12 DEF Media!ConnectedPosted
  <2>2. (v4' = [v4 EXCEPT !.at = "confirmed"] /\ v2' = v2) \/ Media!Failing(v2)
    BY <1>12 DEF Media!ConnectedPosted
  <2>3. SameSession(v2, v2') /\ (v4' = Media!NoTask \/ GoesOn)  BY <1>0, <2>2, TaskGoesOn, FailingStays
  <2> QED  BY <1>2, <2>1, <2>3
<1>13. ASSUME NEW ok \in BOOLEAN, Media!FailedPosted(ok) PROVE MediaInv'
  <2>1. v4.at = "failed" /\ UNCHANGED <<v1, v3>>  BY <1>13 DEF Media!FailedPosted
  <2>2. CASE ok
    <3>1. Media!Rejected(Media!Shown(v2)) /\ Media!Overtaking  BY <1>13, <2>2 DEF Media!FailedPosted
    <3>2. SameSession(Media!Shown(v2), v2') /\ v4' = Media!NoTask  BY <1>0, <1>4, <3>1, RejectedStays
    <3> QED  BY <1>0, <1>3, <1>5, <2>1, <3>1, <3>2
  <2>3. CASE ~ok
    <3>1. Media!Rejected(v2) /\ v5' = v5  BY <1>13, <2>3 DEF Media!FailedPosted
    <3> QED  BY <1>0, <1>2, <2>1, <3>1, RejectedStays
  <2> QED  BY <2>2, <2>3
<1> QED  BY <1>6, <1>7, <1>8, <1>9, <1>10, <1>11, <1>12, <1>13

-----------------------------------------------------------------------------
(* The loads, the operations, the surfaces and the other members. *)

LEMMA MediaFacts ==
  ASSUME MediaInv
  PROVE  /\ v1 \in Latest /\ v2 \in MediaPages /\ v3 \in MediaOps /\ v4 \in MediaTasks /\ v5 \in MediaLoads
         /\ v1.id \in Nat /\ v2.id \in Nat /\ v3.id \in Nat /\ v4.id \in Nat /\ v5.id \in Nat
         /\ v2.id <= v1.id /\ v5.id <= v1.id /\ v3.id <= v1.id /\ v4.id <= v1.id
         /\ v1.live => v1.id # 0
         /\ Follows(v2, v1, v3) /\ Follows(v5, v1, v3) /\ Asks(v3, v1) /\ Done(v3, v1) /\ Connects(v4, v1, v2, v5)
<1>1. v1.id \in Nat /\ v2.id \in Nat /\ v3.id \in Nat /\ v4.id \in Nat /\ v5.id \in Nat
  BY MediaConsts DEF MediaInv, MediaTyped, Latest, MediaPages, MediaOps, MediaTasks, MediaLoads
<1> QED  BY <1>1 DEF MediaInv, MediaTyped, MediaRows

LEMMA MediaOfFacts ==
  ASSUME /\ v1' \in Latest /\ v2' \in MediaPages /\ v3' \in MediaOps /\ v4' \in MediaTasks /\ v5' \in MediaLoads
         /\ v2'.id <= v1'.id /\ v5'.id <= v1'.id /\ v3'.id <= v1'.id /\ v4'.id <= v1'.id /\ (v1'.live => v1'.id # 0),
         Follows(v2', v1', v3'), Follows(v5', v1', v3'), Asks(v3', v1'), Done(v3', v1'), Connects(v4', v1', v2', v5')
  PROVE  MediaInv'
  BY DEF MediaInv, MediaTyped, MediaRows

LEMMA SpoiledTask ==
  ASSUME v4 \in MediaTasks
  PROVE  Media!Spoiled \in MediaTasks /\ Media!Spoiled.id = v4.id /\ (v4 # Media!NoTask => Media!Spoiled.spoiled)
         /\ (v4 = Media!NoTask => Media!Spoiled = Media!NoTask)
<1>1. CASE v4 = Media!NoTask
  <2>1. Media!Spoiled = [v4 EXCEPT !.spoiled = FALSE]  BY <1>1 DEF Media!Spoiled
  <2> QED  BY <1>1, <2>1 DEF Media!NoTask, MediaTasks
<1>2. CASE v4 # Media!NoTask
  <2>1. Media!Spoiled = [v4 EXCEPT !.spoiled = TRUE]  BY <1>2 DEF Media!Spoiled
  <2> QED  BY <1>2, <2>1 DEF MediaTasks
<1> QED  BY <1>1, <1>2

LEMMA LoadsKeep ==
  ASSUME MediaInv, Media!LoadServed \/ Media!LoadReplied \/ Media!LoadFailed PROVE MediaInv'
<1> USE MediaFacts, MediaConsts
<1>1. CASE Media!LoadServed
  <2> DEFINE i == IF v1.live THEN v1.id ELSE 0
  <2>1. i \in MediaIds /\ i <= v1.id /\ v1.mine \in Media!Mine /\ (v1.live => i = v1.id)  BY DEF Latest
  <2>2. v5' = [at |-> "served", id |-> i, mine |-> v1.mine] /\ UNCHANGED <<v1, v2, v3, v4>>
    BY <1>1 DEF Media!LoadServed
  <2> HIDE DEF i
  <2>3. v5' \in MediaLoads /\ v5'.id = i /\ v5'.mine = v1.mine  BY <2>1, <2>2 DEF MediaLoads
  <2>4. Follows(v5', v1', v3')  BY <2>2, <2>3 DEF Follows, Member
  <2>5. Connects(v4', v1', v2', v5')  BY <2>1, <2>2, <2>3 DEF Connects
  <2> QED  BY <2>1, <2>2, <2>3, <2>4, <2>5, MediaOfFacts
<1>2. CASE Media!LoadReplied
  <2> DEFINE m == Media!Merged(v5.id, v5.mine)
  <2>0. CASE v2.away
    <3>1. v2' = v2 /\ v5' = Media!NoLoad /\ UNCHANGED <<v1, v3, v4>>  BY <1>2, <2>0 DEF Media!LoadReplied
    <3>2. Follows(v2', v1', v3') /\ Follows(v5', v1', v3')  BY <3>1 DEF Follows
    <3>3. Connects(v4', v1', v2', v5') /\ Asks(v3', v1') /\ Done(v3', v1')  BY <3>1 DEF Connects
    <3> QED  BY <3>1, <3>2, <3>3, MediaOfFacts
  <2>a. SUFFICES ASSUME ~v2.away PROVE MediaInv'
    BY <2>0
  <2>1. m \in Media!Mine  BY DEF Media!Merged, Media!Mine, MediaLoads
  <2>2. v2' = [v2 EXCEPT !.id = v5.id, !.mine = m] /\ UNCHANGED <<v1, v3, v4>> /\ v5' = Media!NoLoad /\ v5.at = "served"
    BY <1>2, <2>a DEF Media!LoadReplied
  <2>3. m = v5.mine \/ (m = "joined" /\ v5.id = v2.id /\ v2.mine = "joined")  BY DEF Media!Merged
  <2> HIDE DEF m
  <2>4. v5.id \in MediaIds  BY DEF MediaLoads
  <2>5. v2' \in MediaPages /\ v2'.id = v5.id /\ v2'.mine = m  BY <2>1, <2>2, <2>4 DEF MediaPages
  <2>6. Follows(v2', v1', v3')  BY <2>2, <2>3, <2>5 DEF Follows
  <2>7. Follows(v5', v1', v3')  BY <2>2 DEF Follows
  <2>8. Connects(v4', v1', v2', v5')  BY <2>2, <2>3, <2>5 DEF Connects
  <2> QED  BY <2>2, <2>5, <2>6, <2>7, <2>8, MediaOfFacts
<1>3. CASE Media!LoadFailed
  <2>1. /\ v2' = [v2 EXCEPT !.id = 0, !.mine = "none"] /\ v4' = Media!Spoiled /\ v5' = Media!NoLoad
        /\ UNCHANGED <<v1, v3>>
    BY <1>3 DEF Media!LoadFailed
  <2>2. v2' \in MediaPages /\ v2'.id = 0  BY <2>1 DEF MediaPages, Media!Mine
  <2>3. Follows(v2', v1', v3') /\ Follows(v5', v1', v3')  BY <2>1, <2>2 DEF Follows
  <2>4. Connects(v4', v1', v2', v5')  BY <2>1, SpoiledTask DEF Connects
  <2> QED  BY <2>1, <2>2, <2>3, <2>4, SpoiledTask, MediaOfFacts
<1> QED  BY <1>1, <1>2, <1>3

LEMMA OpsKeep ==
  ASSUME MediaInv,
         \/ \E kind \in {"create", "join", "reject", "leave", "end"} : Media!OpClicked(kind)
         \/ Media!OpServed \/ Media!OpReplied
  PROVE  MediaInv'
<1> USE MediaFacts, MediaConsts
<1>1. ASSUME NEW kind \in {"create", "join", "reject", "leave", "end"}, Media!OpClicked(kind) PROVE MediaInv'
  <2>1. /\ v3 = Media!NoOp /\ v3' = [at |-> "asked", kind |-> kind, id |-> v2.id] /\ UNCHANGED <<v1, v2, v4, v5>>
        /\ kind = "join" => v2.mine = "invited"
    BY <1>1 DEF Media!OpClicked
  <2>2. v3' \in MediaOps /\ v3'.at = "asked" /\ v3'.kind = kind /\ v3'.id = v2.id
    BY <2>1 DEF MediaOps, MediaPages
  <2>3. Follows(v2', v1', v3') /\ Follows(v5', v1', v3')  BY <2>1 DEF Follows
  <2>4. Asks(v3', v1')  BY <2>1, <2>2 DEF Follows, Asks
  <2>5. Done(v3', v1')  BY <2>1, <2>2 DEF Done
  <2> QED  BY <2>1, <2>2, <2>3, <2>4, <2>5, MediaOfFacts
<1>2. CASE Media!OpServed
  <2>0. v3.at = "asked" /\ UNCHANGED <<v2, v4, v5>>  BY <1>2 DEF Media!OpServed
  <2>1. CASE UNCHANGED v1 /\ v3' = Media!NoOp
    <3>1. Follows(v2', v1', v3') /\ Follows(v5', v1', v3')  BY <2>0, <2>1 DEF Follows
    <3>2. Asks(v3', v1') /\ Done(v3', v1')  BY <2>1 DEF Asks, Done
    <3> QED  BY <2>0, <2>1, <3>1, <3>2, MediaOfFacts
  <2>2. CASE Media!Accepted(v3.kind) /\ v3' = [at |-> "served", kind |-> Media!Reply(v3.kind),
                                               id |-> IF v1'.live THEN v1'.id ELSE 0]
    <3> DEFINE k == Media!Reply(v3.kind)
               i == IF v1'.live THEN v1'.id ELSE 0
    <3>1. /\ k \in {"none", "create", "join", "reject", "leave", "end"}
          /\ v3.kind \in {"create", "join"} => k = "join"
          /\ v3.kind \in {"reject", "leave", "end"} => k # "join"
      BY DEF Media!Reply, MediaOps
    <3>2. v1' \in Latest /\ v1.id <= v1'.id /\ (v1'.live => v1'.id # 0) /\ v1'.id \in MediaIds /\ v1'.id \in Nat
      <4>1. CASE v3.kind = "create"
        <5>1. v1.id < MediaSessions /\ v1' = [id |-> v1.id + 1, live |-> TRUE, mine |-> "joined"]
          BY <2>2, <4>1 DEF Media!Accepted
        <5>2. v1.id + 1 \in MediaIds  BY <5>1 DEF Latest
        <5> QED  BY <5>1, <5>2 DEF Latest, Media!Mine
      <4>2. CASE v3.kind # "create"
        <5>1. \/ v1' = [v1 EXCEPT !.mine = "joined"] \/ v1' = [v1 EXCEPT !.mine = "left"]
              \/ v1' = [v1 EXCEPT !.live = FALSE, !.mine = "none"]
          BY <2>2, <4>2 DEF Media!Accepted, Media!Over
        <5>2. v1'.id = v1.id /\ (v1'.live => v1.live)  BY <5>1 DEF Latest
        <5>3. v1' \in Latest  BY <5>1 DEF Latest, Media!Mine
        <5> QED  BY <5>2, <5>3 DEF Latest
      <4> QED  BY <4>1, <4>2
    <3>3. i \in MediaIds /\ i <= v1'.id /\ (v1'.live => i = v1'.id)
      <4>1. CASE v1'.live  BY <3>2, <4>1
      <4>2. CASE ~v1'.live  BY <3>2, <4>2
      <4> QED  BY <4>1, <4>2
    <3> HIDE DEF k, i
    <3>4. v3' \in MediaOps /\ v3'.at = "served" /\ v3'.kind = k /\ v3'.id = i
      BY <2>2, <3>1, <3>3 DEF MediaOps, k, i
    <3>5. CASE v3.kind = "create"
      <4>1. v1' = [id |-> v1.id + 1, live |-> TRUE, mine |-> "joined"]  BY <2>2, <3>5 DEF Media!Accepted
      <4>2. v1'.id > v1.id /\ v1'.mine = "joined"  BY <4>1
      <4>3. Follows(v2', v1', v3') /\ Follows(v5', v1', v3')  BY <2>0, <4>2, <3>4 DEF Follows
      <4>4. Asks(v3', v1') /\ Done(v3', v1')  BY <3>1, <3>3, <3>4, <3>5, <4>2 DEF Asks, Done, Member
      <4>5. Connects(v4', v1', v2', v5')  BY <2>0, <4>2 DEF Connects
      <4>6. v2'.id <= v1'.id /\ v5'.id <= v1'.id /\ v4'.id <= v1'.id /\ v3'.id <= v1'.id
        BY <2>0, <3>2, <3>3, <3>4
      <4> QED  BY <2>0, <3>2, <3>4, <4>3, <4>4, <4>5, <4>6, MediaOfFacts
    <3>6. CASE v3.kind = "join"
      <4>1. v1.live /\ v1.id = v3.id /\ v1' = [v1 EXCEPT !.mine = "joined"]
        BY <2>2, <3>6 DEF Media!Accepted
      <4>2. v1.live /\ v1.mine = "invited" /\ v1'.mine = "joined" /\ v1'.live /\ v1'.id = v1.id
        BY <2>0, <3>6, <4>1 DEF Asks, Latest
      <4>3. Follows(v2', v1', v3') /\ Follows(v5', v1', v3')
        BY <2>0, <4>2, <3>4 DEF Follows, Member
      <4>4. Asks(v3', v1') /\ Done(v3', v1')  BY <3>1, <3>3, <3>4, <3>6, <4>2 DEF Asks, Done, Member
      <4>5. Connects(v4', v1', v2', v5')  BY <2>0, <4>2 DEF Connects, Member
      <4>6. v2'.id <= v1'.id /\ v5'.id <= v1'.id /\ v4'.id <= v1'.id /\ v3'.id <= v1'.id
        BY <2>0, <3>2, <3>3, <3>4
      <4> QED  BY <2>0, <3>2, <3>4, <4>3, <4>4, <4>5, <4>6, MediaOfFacts
    <3>7. CASE v3.kind \in {"leave", "reject", "end"}
      <4>1. v1' = [v1 EXCEPT !.mine = "left"] \/ v1' = [v1 EXCEPT !.live = FALSE, !.mine = "none"]
        BY <2>2, <3>7 DEF Media!Accepted, Media!Over
      <4>2. v1'.id = v1.id /\ (v1'.live => v1.live /\ v1'.mine = "left")  BY <4>1 DEF Latest
      <4>3. Follows(v2', v1', v3') /\ Follows(v5', v1', v3')
        BY <2>0, <4>2, <3>4 DEF Follows, Member
      <4>4. Asks(v3', v1') /\ Done(v3', v1')  BY <3>1, <3>4, <3>7, <4>2 DEF Asks, Done
      <4>5. Connects(v4', v1', v2', v5')  BY <2>0, <4>2 DEF Connects, Member
      <4>6. v2'.id <= v1'.id /\ v5'.id <= v1'.id /\ v4'.id <= v1'.id /\ v3'.id <= v1'.id
        BY <2>0, <3>2, <3>3, <3>4
      <4> QED  BY <2>0, <3>2, <3>4, <4>3, <4>4, <4>5, <4>6, MediaOfFacts
    <3>8. v3.kind \in {"create", "join", "leave", "reject", "end"}  BY <2>2 DEF Media!Accepted
    <3> QED  BY <3>5, <3>6, <3>7, <3>8
  <2> QED  BY <1>2, <2>1, <2>2 DEF Media!OpServed
<1>3. CASE Media!OpReplied
  <2> DEFINE mine == IF v3.id = 0 THEN "none" ELSE IF v3.kind = "join" THEN "joined" ELSE "left"
             shown == [v2 EXCEPT !.id = v3.id, !.mine = mine]
  <2>1. /\ v3.at = "served" /\ v5' = Media!NoLoad /\ UNCHANGED <<v1, v4>>
        /\ v2' = shown \/ v2' = Media!Disconnected(Media!PrejoinClosed(shown))
        /\ v3' = [Media!NoOp EXCEPT !.at = "devices"] \/ v3' = Media!NoOp
    BY <1>3 DEF Media!OpReplied, Media!Mutated
  <2>2. mine \in Media!Mine /\ v3.id \in MediaIds /\ (v3.id # 0 => mine = IF v3.kind = "join" THEN "joined" ELSE "left")
    BY DEF Media!Mine, MediaOps
  <2> HIDE DEF mine
  <2>3. shown \in MediaPages /\ shown.id = v3.id /\ shown.mine = mine  BY <2>2 DEF MediaPages
  <2> HIDE DEF shown
  <2>4. v2' \in MediaPages /\ v2'.id = v3.id /\ v2'.mine = mine
    BY <2>1, <2>3, PageHelpers DEF SameSession
  <2>5. v3' \in MediaOps /\ v3'.at \notin {"asked", "served"} /\ v3'.id = 0
    BY <2>1 DEF MediaOps
  <2>6. Follows(v2', v1', v3')  BY <2>1, <2>2, <2>4 DEF Follows, Done
  <2>7. Follows(v5', v1', v3')  BY <2>1 DEF Follows
  <2>8. Asks(v3', v1') /\ Done(v3', v1')  BY <2>5 DEF Asks, Done
  <2>9. Connects(v4', v1', v2', v5')  BY <2>1, <2>2, <2>4 DEF Connects, Done
  <2> QED  BY <2>1, <2>2, <2>4, <2>5, <2>6, <2>7, <2>8, <2>9, MediaOfFacts
<1> QED  BY <1>1, <1>2, <1>3

LEMMA HiddenPage ==
  ASSUME NEW p \in MediaPages, v2 = p, NEW b \in BOOLEAN
  PROVE  [Media!Hidden EXCEPT !.away = b] \in MediaPages /\ [Media!Hidden EXCEPT !.away = b].id = 0
<1> DEFINE q == Media!Disconnected(Media!PrejoinClosed(p))
<1>1. q \in MediaPages  BY PageHelpers DEF SameSession
<1>2. Media!Hidden = [q EXCEPT !.id = 0, !.mine = "none"]  BY DEF Media!Hidden
<1> HIDE DEF q
<1>3. Media!Hidden \in MediaPages /\ Media!Hidden.id = 0
  BY <1>1, <1>2, MediaConsts DEF MediaPages, Media!Mine
<1> QED  BY <1>3 DEF MediaPages

LEMMA SurfacesKeep ==
  ASSUME MediaInv, Media!SurfaceLeft \/ Media!SurfaceEntered \/ Media!Others PROVE MediaInv'
<1> USE MediaFacts, MediaConsts
<1>1. CASE Media!SurfaceLeft \/ Media!SurfaceEntered
  <2>1. PICK b \in BOOLEAN : v2' = [Media!Hidden EXCEPT !.away = b]
    BY <1>1 DEF Media!SurfaceLeft, Media!SurfaceEntered
  <2>2. v2' \in MediaPages /\ v2'.id = 0  BY <2>1, HiddenPage
  <2>3. v4' = Media!Spoiled /\ v5' = Media!NoLoad /\ v3' = v3
    BY <1>1 DEF Media!SurfaceLeft, Media!SurfaceEntered
  <2>4. \/ v1' = v1
        \/ v2.mine = "joined" /\ v1.live /\ v1.id = v2.id /\ v1' = [v1 EXCEPT !.mine = "left"]
    BY <1>1 DEF Media!SurfaceLeft, Media!SurfaceEntered
  <2>5. /\ v1' \in Latest /\ v1'.id = v1.id /\ v1'.live = v1.live
        /\ v1'.mine = v1.mine \/ (v2.mine = "joined" /\ v1.live /\ v1.id = v2.id /\ v1'.mine = "left")
    BY <2>4 DEF Latest, Media!Mine
  <2>6. Follows(v2', v1', v3') /\ Follows(v5', v1', v3')  BY <2>2, <2>3, <2>5 DEF Follows
  <2>7. Asks(v3', v1') /\ Done(v3', v1')  BY <2>3, <2>5 DEF Asks, Done, Follows, Member
  <2>8. Connects(v4', v1', v2', v5')  BY <2>3, <2>5, SpoiledTask DEF Connects, Member
  <2> QED  BY <2>2, <2>3, <2>5, <2>6, <2>7, <2>8, SpoiledTask, MediaOfFacts
<1>2. CASE Media!Others
  <2>0. UNCHANGED <<v2, v3, v4, v5>>  BY <1>2 DEF Media!Others
  <2>1. CASE v1.id < MediaSessions /\ v1' = [id |-> v1.id + 1, live |-> TRUE, mine |-> "invited"]
    <3>1. v1.id + 1 \in MediaIds  BY <2>1 DEF Latest
    <3>2. v1' \in Latest /\ v1'.id \in Nat /\ v1'.id > v1.id /\ v1'.id # 0 /\ v1'.mine = "invited"
      BY <2>1, <3>1 DEF Latest, Media!Mine
    <3>3. Follows(v2', v1', v3') /\ Follows(v5', v1', v3')  BY <2>0, <3>2 DEF Follows
    <3>4. Asks(v3', v1') /\ Done(v3', v1')  BY <2>0, <3>2 DEF Asks, Done
    <3>5. Connects(v4', v1', v2', v5')  BY <2>0, <3>2 DEF Connects
    <3> QED  BY <2>0, <3>2, <3>3, <3>4, <3>5, MediaOfFacts
  <2>2. CASE v1' = [v1 EXCEPT !.live = FALSE, !.mine = "none"]
    <3>1. v1' \in Latest /\ v1'.id = v1.id /\ ~v1'.live  BY <2>2 DEF Latest, Media!Mine
    <3>2. Follows(v2', v1', v3') /\ Follows(v5', v1', v3')  BY <3>1 DEF Follows
    <3>3. Asks(v3', v1') /\ Done(v3', v1')  BY <3>1 DEF Asks, Done
    <3>4. Connects(v4', v1', v2', v5')  BY <2>0, <3>1 DEF Connects
    <3> QED  BY <2>0, <3>1, <3>2, <3>3, <3>4, MediaOfFacts
  <2> QED  BY <1>2, <2>1, <2>2 DEF Media!Others, Media!Over
<1> QED  BY <1>1, <1>2

LEMMA MediaInitEstablishes == ASSUME Media!Init PROVE MediaInv
<1>1. MediaTyped
  BY MediaConsts DEF Media!Init, MediaTyped, Latest, MediaPages, Media!Mine
<1>2. MediaRows
  BY MediaConsts DEF Media!Init, MediaRows, Follows, Asks, Done, Connects
<1> QED  BY <1>1, <1>2 DEF MediaInv

LEMMA MediaStepKeeps == ASSUME MediaInv, [Media!Next]_Media!vars PROVE MediaInv'
<1>1. CASE UNCHANGED Media!vars
  BY <1>1 DEF Media!vars, MediaInv, MediaTyped, MediaRows, Follows, Asks, Done, Connects
<1>2. CASE Media!Next
  BY <1>2, SessionUntouched, ConnectionsKeep, TaskKeeps, LoadsKeep, OpsKeep, SurfacesKeep DEF Media!Next
<1> QED  BY <1>1, <1>2

MediaPart == which = "media" => MediaInv

LEMMA MediaStart == Init => MediaPart
  BY PagesConstants, MediaInitEstablishes DEF Init, MediaPart

LEMMA MediaStep == MediaPart /\ [Next]_vars => MediaPart'
<1> SUFFICES ASSUME MediaPart, [Next]_vars PROVE MediaPart'
  OBVIOUS
<1>1. CASE which = "media"
  <2>1. [Media!Next]_Media!vars  BY <1>1 DEF Next, vars, Step, Media!vars
  <2>2. which' = "media"  BY <1>1 DEF Next, vars, Step
  <2> QED  BY <1>1, <2>1, <2>2, PagesConstants, MediaStepKeeps DEF MediaPart
<1>2. CASE which # "media"  BY <1>2 DEF Next, vars, Step, MediaPart
<1> QED  BY <1>1, <1>2

-----------------------------------------------------------------------------
(* The radio of a group's page. *)

FloorNumbers == 0 .. RadioBursts
BurstStates == {"unused", "talking", "released", "finalized", "returned", "suppressed", "expired"}
RadioPages ==
  [radio : BOOLEAN, session : BOOLEAN, token : FloorNumbers, preparing : BOOLEAN, stopping : BOOLEAN,
   lost : BOOLEAN, room : {"none", "listen", "talk"}, mic : BOOLEAN, rec : FloorNumbers, timer : BOOLEAN]
RadioOps == [at : Radio!OpStates, over : BOOLEAN, stale : BOOLEAN, floor : FloorNumbers]
StopTasks == [at : {"none", "stop", "grant", "connect"}, over : BOOLEAN, stale : BOOLEAN, floor : FloorNumbers]
Losses == [at : {"none", "recorder", "report"}, floor : FloorNumbers]

\* An attempt nothing overtook; one to talk; one that has the floor.
Going(o) == o.at # "none" /\ ~o.over
Starts(o) == Going(o) /\ o.at \in {"mic", "floor", "grantTalk", "connectTalk"}
Talks(o) == Going(o) /\ o.at \in {"grantTalk", "connectTalk"}

\* What the stop task, or the loss of the device, takes back.
FloorEnds(s, l, t) == (s.at = "stop" /\ s.floor = t) \/ l.floor = t

RadioTyped ==
  /\ v1 \in [Radio!Bursts -> BurstStates] /\ v2 \in RadioPages /\ v3 \in RadioOps /\ v4 \in StopTasks
  /\ v5 \in {"none", "stop", "request"} /\ v6 \in Losses /\ v7 \in FloorNumbers
  /\ v8 \in SUBSET Radio!Bursts /\ v9 \in BOOLEAN

\* What holds of every state: nobody knows of a floor that was not granted.
Known(s, b) == b # 0 => s[b] # "unused"
RadioRows ==
  /\ v3.at \in {"mic", "floor", "returnFloor"} => v2.token = 0
  /\ v6.at = "none" => v6.floor = 0
  /\ v4.at # "none" => v4.floor # 0
  /\ Known(v1, v2.token) /\ Known(v1, v7) /\ Known(v1, v4.floor) /\ Known(v1, v6.floor)
  /\ v5 = "request" => v2.rec = 0
  /\ v5 # "none" => ~Going(v3)

\* What holds until a late reply has ended a talk newer than its own.
RadioTalk(p, o, s, l, t) ==
  /\ Going(o) => p.preparing /\ p.radio
  /\ Starts(o) => p.session /\ ~p.timer
  /\ Talks(o) => p.token # 0 /\ p.token # t /\ ~FloorEnds(s, l, p.token)
  /\ p.token # 0 => p.session /\ p.radio
  /\ p.rec # 0 => p.token = p.rec
  /\ p.timer => p.token # 0
  /\ p.token # 0 /\ FloorEnds(s, l, p.token) => p.rec = 0 /\ ~p.timer

\* The floors that talk are in somebody's hands.
Held(s, p, o, u) ==
  \A b \in Radio!Bursts : s[b] = "talking" => p.token = b \/ (o.at = "returnFloor" /\ o.floor = b) \/ b \in u

RadioInv ==
  /\ RadioTyped /\ RadioRows
  /\ ~v9 => RadioTalk(v2, v3, v4, v6, v7) /\ Held(v1, v2, v3, v8)

LEMMA RadioConsts ==
  /\ 0 \in FloorNumbers /\ FloorNumbers \subseteq Nat /\ RadioBursts \in Nat /\ 0 \notin Radio!Bursts
  /\ Radio!Bursts \subseteq FloorNumbers /\ \A n \in FloorNumbers : n # 0 => n \in Radio!Bursts
  /\ Radio!NoOp \in RadioOps /\ Radio!NoOp \in StopTasks /\ Radio!NoOp.at = "none" /\ Radio!NoOp.floor = 0
  BY PagesConstants
  DEF Radio!RadioClientAssumption, FloorNumbers, Radio!Bursts, Radio!NoOp, RadioOps, StopTasks, Radio!OpStates

\* A floor not granted yet, if any, has a first one.
LEMMA FirstUnused ==
  ASSUME NEW s \in [Radio!Bursts -> BurstStates], \E n \in Radio!Bursts : s[n] = "unused",
         NEW b, b = CHOOSE n \in Radio!Bursts : s[n] = "unused" /\ \A m \in 1 .. n - 1 : s[m] # "unused"
  PROVE  b \in Radio!Bursts /\ s[b] = "unused"
<1> DEFINE T == {n \in Radio!Bursts : s[n] = "unused"}
<1>1. T \subseteq Nat /\ T # {}  BY RadioConsts
<1>2. PICK n \in T : \A m \in T : <<m, n>> \notin OpToRel(<, Nat)
  <2> HIDE DEF T
  <2> QED  BY <1>1, NatLessThanWellFounded, WFMin
<1>3. \A m \in 1 .. n - 1 : s[m] # "unused"
  <2> SUFFICES ASSUME NEW m \in 1 .. n - 1, s[m] = "unused" PROVE FALSE  OBVIOUS
  <2>1. n \in Nat /\ n <= RadioBursts  BY RadioConsts DEF Radio!Bursts
  <2>2. m \in T  BY <2>1, RadioConsts DEF Radio!Bursts
  <2>3. <<m, n>> \in OpToRel(<, Nat)  BY <2>1 DEF OpToRel
  <2> QED  BY <1>2, <2>2, <2>3
<1> QED  BY <1>2, <1>3

LEMMA OpRows ==
  ASSUME NEW o \in RadioOps
  PROVE  /\ Radio!Overtaken(o) \in RadioOps /\ Radio!Overtaken(o).at = o.at /\ Radio!Overtaken(o).floor = o.floor
         /\ ~Going(Radio!Overtaken(o))
         /\ Radio!Stale(o) \in RadioOps /\ Radio!Stale(o).at = o.at /\ Radio!Stale(o).floor = o.floor
         /\ Radio!Stale(o).over = o.over
<1> DEFINE a == (o.at # "none")
<1>1. a \in BOOLEAN  OBVIOUS
<1>2. Radio!Overtaken(o) = [o EXCEPT !.over = a] /\ Radio!Stale(o) = [o EXCEPT !.stale = a]
  BY DEF Radio!Overtaken, Radio!Stale
<1>3. a => o.at # "none"  OBVIOUS
<1>4. ~a => o.at = "none"  OBVIOUS
<1> HIDE DEF a
<1>5. LET q == [o EXCEPT !.over = a] IN
      q \in RadioOps /\ q.at = o.at /\ q.floor = o.floor /\ q.over = a
  BY <1>1 DEF RadioOps
<1>6. LET q == [o EXCEPT !.stale = a] IN
      q \in RadioOps /\ q.at = o.at /\ q.floor = o.floor /\ q.over = o.over
  BY <1>1 DEF RadioOps
<1> QED  BY <1>2, <1>3, <1>4, <1>5, <1>6 DEF Going

LEMMA StopRows ==
  ASSUME NEW o \in StopTasks
  PROVE  /\ Radio!Overtaken(o) \in StopTasks /\ Radio!Overtaken(o).at = o.at /\ Radio!Overtaken(o).floor = o.floor
         /\ Radio!Stale(o) \in StopTasks /\ Radio!Stale(o).at = o.at /\ Radio!Stale(o).floor = o.floor
<1> DEFINE a == (o.at # "none")
<1>1. Radio!Overtaken(o) = [o EXCEPT !.over = a] /\ Radio!Stale(o) = [o EXCEPT !.stale = a]
  BY DEF Radio!Overtaken, Radio!Stale
<1>2. a \in BOOLEAN  OBVIOUS
<1> HIDE DEF a
<1> QED  BY <1>1, <1>2 DEF StopTasks

LEMMA RadioPageRows ==
  ASSUME NEW p \in RadioPages
  PROVE  /\ Radio!Disconnected(p) \in RadioPages
         /\ LET q == Radio!Disconnected(p) IN
            /\ q.radio = p.radio /\ q.session = p.session /\ q.token = p.token /\ q.preparing = p.preparing
            /\ q.rec = p.rec /\ q.timer = p.timer /\ q.stopping = p.stopping
  BY DEF RadioPages, Radio!Disconnected

\* The parts of the invariant, and the numbers' types.
LEMMA RadioFacts ==
  ASSUME RadioInv
  PROVE  /\ RadioTyped /\ RadioRows
         /\ v2 \in RadioPages /\ v3 \in RadioOps /\ v4 \in StopTasks /\ v6 \in Losses
         /\ v9 \in BOOLEAN /\ (~v9 => RadioTalk(v2, v3, v4, v6, v7) /\ Held(v1, v2, v3, v8))
  BY DEF RadioInv, RadioTyped

\* What only ends things: no floor is granted or forgotten, no attempt begins, no task that
\* takes a floor back begins or ends one.
Granting(s, t) ==
  \A b \in Radio!Bursts : /\ t[b] = "talking" => s[b] = "talking"
                          /\ s[b] # "unused" => t[b] # "unused"
SamePage(p, q) ==
  /\ q.token = p.token /\ q.rec \in {p.rec, 0} /\ (q.timer => p.timer) /\ (p.session => q.session) /\ q.radio = p.radio
OpGoesOn(p, o, q, r) ==
  /\ Going(r) => Going(o) /\ (p.preparing => q.preparing)
  /\ Starts(r) => Starts(o)
  /\ Talks(r) => Talks(o)
  /\ r.at \in {"mic", "floor", "returnFloor"} => o.at \in {"mic", "floor", "returnFloor"}
StopGoesOn(s, t) == /\ t.at = "stop" => s.at = "stop"
                    /\ t.floor \in {0, s.floor} /\ (t.at # "none" => s.at # "none" /\ t.floor = s.floor)
StillReturned(o, r, t, u) ==
  \A b \in Radio!Bursts : o.at = "returnFloor" /\ o.floor = b =>
    (r.at = "returnFloor" /\ r.floor = b) \/ t[b] # "talking" \/ b \in u

LEMMA RadioQuiet ==
  ASSUME RadioInv, v1' \in [Radio!Bursts -> BurstStates], v2' \in RadioPages, v3' \in RadioOps, v4' \in StopTasks,
         Granting(v1, v1'), SamePage(v2, v2'), OpGoesOn(v2, v3, v2', v3'), StopGoesOn(v4, v4'),
         v5' = v5, v6' = v6, v7' = v7 \/ v7' = 0, v8 \subseteq v8', v8' \in SUBSET Radio!Bursts,
         v9' \in BOOLEAN, ~v9' => ~v9, StillReturned(v3, v3', v1', v8')
  PROVE  RadioInv'
<1> USE RadioConsts, RadioFacts
<1>1. RadioTyped'  BY DEF RadioTyped
<1>2. RadioRows'
  <2>1. \A b \in FloorNumbers : Known(v1, b) => Known(v1', b)  BY DEF Granting, Known
  <2>2. v2.token \in FloorNumbers /\ v7 \in FloorNumbers /\ v4.floor \in FloorNumbers /\ v6.floor \in FloorNumbers
    BY DEF RadioTyped, RadioPages, StopTasks, Losses
  <2>3. Known(v1', v2'.token) /\ Known(v1', v6'.floor)  BY <2>1, <2>2 DEF RadioRows, SamePage
  <2>4. Known(v1', v7')  BY <2>1, <2>2 DEF RadioRows, Known
  <2>5. Known(v1', v4'.floor)  BY <2>1, <2>2 DEF RadioRows, Known, StopGoesOn
  <2>6. v3'.at \in {"mic", "floor", "returnFloor"} => v2'.token = 0  BY DEF RadioRows, OpGoesOn, SamePage
  <2>7. v4'.at # "none" => v4'.floor # 0  BY DEF RadioRows, StopGoesOn
  <2>8. (v5' = "request" => v2'.rec = 0) /\ (v5' # "none" => ~Going(v3'))
    BY DEF RadioRows, SamePage, OpGoesOn
  <2>9. v6'.at = "none" => v6'.floor = 0  BY DEF RadioRows
  <2> QED  BY <2>3, <2>4, <2>5, <2>6, <2>7, <2>8, <2>9 DEF RadioRows
<1>3. ASSUME ~v9' PROVE RadioTalk(v2', v3', v4', v6', v7')
  <2>1. RadioTalk(v2, v3, v4, v6, v7)  BY <1>3
  <2>2. FloorEnds(v4', v6', v2'.token) /\ v2'.token # 0 => FloorEnds(v4, v6, v2.token)
    BY DEF FloorEnds, StopGoesOn, SamePage
  <2>3. Going(v3') => v2'.preparing /\ v2'.radio  BY <2>1 DEF RadioTalk, OpGoesOn, SamePage
  <2>4. Starts(v3') => v2'.session /\ ~v2'.timer  BY <2>1 DEF RadioTalk, OpGoesOn, SamePage
  <2>5. Talks(v3') => v2'.token # 0 /\ v2'.token # v7' /\ ~FloorEnds(v4', v6', v2'.token)
    BY <2>1, <2>2 DEF RadioTalk, OpGoesOn, SamePage
  <2>6. v2'.token # 0 => v2'.session /\ v2'.radio  BY <2>1 DEF RadioTalk, SamePage
  <2>7. (v2'.rec # 0 => v2'.token = v2'.rec) /\ (v2'.timer => v2'.token # 0)  BY <2>1 DEF RadioTalk, SamePage
  <2>8. v2'.token # 0 /\ FloorEnds(v4', v6', v2'.token) => v2'.rec = 0 /\ ~v2'.timer
    BY <2>1, <2>2 DEF RadioTalk, SamePage
  <2> QED  BY <2>3, <2>4, <2>5, <2>6, <2>7, <2>8 DEF RadioTalk
<1>4. ASSUME ~v9' PROVE Held(v1', v2', v3', v8')
  BY <1>4 DEF Held, Granting, SamePage, StillReturned
<1> QED  BY <1>1, <1>2, <1>3, <1>4 DEF RadioInv

\* stopRadio begins: nothing is recorded any more.
LEMMA StopBegins ==
  ASSUME RadioInv, v2.token # 0, v1' = v1, v3' \in RadioOps, v6' = v6, v8' = v8, v7' \in FloorNumbers, Known(v1, v7'),
         v2' = [v2 EXCEPT !.stopping = TRUE, !.timer = FALSE, !.rec = 0],
         v4' = [Radio!NoOp EXCEPT !.at = "stop", !.floor = v2.token],
         v5' = v5 \/ v5' = "stop", v5' # "none" => ~Going(v3'),
         ~v9' => ~v9 /\ ~Talks(v3'), v9' \in BOOLEAN,
         Going(v3') => Going(v3), Starts(v3') => Starts(v3),
         v3'.at \notin {"mic", "floor", "returnFloor"}, v3.at # "returnFloor"
  PROVE  RadioInv'
<1> USE RadioConsts, RadioFacts
<1>1. v2.token \in FloorNumbers  BY DEF RadioPages
<1>2. v4' \in StopTasks /\ v4'.at = "stop" /\ v4'.floor = v2.token
  BY <1>1 DEF StopTasks, Radio!NoOp
<1>3. /\ v2' \in RadioPages /\ v2'.token = v2.token /\ v2'.rec = 0 /\ ~v2'.timer
      /\ v2'.preparing = v2.preparing /\ v2'.radio = v2.radio /\ v2'.session = v2.session
  BY DEF RadioPages
<1>4. RadioTyped'  BY <1>2, <1>3 DEF RadioTyped
<1>5. RadioRows'  BY <1>2, <1>3 DEF RadioRows
<1>6. ASSUME ~v9' PROVE RadioTalk(v2', v3', v4', v6', v7')
  BY <1>2, <1>3, <1>6 DEF RadioTalk
<1>7. ASSUME ~v9' PROVE Held(v1', v2', v3', v8')  BY <1>3, <1>7 DEF Held
<1> QED  BY <1>4, <1>5, <1>6, <1>7 DEF RadioInv

-----------------------------------------------------------------------------
(* The steps that only go on with what is under way. *)

LEMMA OpMoves ==
  ASSUME RadioInv, UNCHANGED <<v1, v5, v6, v7, v8, v9>>, v2' \in RadioPages, SamePage(v2, v2'),
         v4' = v4 \/ v4' = Radio!Stale(v4), v3.at \notin {"none", "returnFloor"},
         \/ v3' = Radio!NoOp
         \/ /\ v3' \in RadioOps /\ v3'.over = v3.over /\ v2'.preparing = v2.preparing
            /\ v3'.at \in {"mic", "floor", "grantTalk", "connectTalk"} => v3.at \in {"mic", "floor", "grantTalk", "connectTalk"}
            /\ v3'.at \in {"grantTalk", "connectTalk"} => v3.at \in {"grantTalk", "connectTalk"}
            /\ v3'.at \in {"mic", "floor", "returnFloor"} => v3.at \in {"mic", "floor", "returnFloor"}
  PROVE  RadioInv'
<1> USE RadioConsts, RadioFacts
<1>1. Granting(v1, v1') /\ StillReturned(v3, v3', v1', v8')  BY DEF Granting, StillReturned
<1>2. v4' \in StopTasks /\ StopGoesOn(v4, v4')  BY StopRows DEF StopGoesOn
<1>3. OpGoesOn(v2, v3, v2', v3')  BY DEF OpGoesOn, Going, Starts, Talks
<1>4. v1' \in [Radio!Bursts -> BurstStates] /\ v8 \subseteq v8' /\ v8' \in SUBSET Radio!Bursts /\ v3' \in RadioOps
  BY DEF RadioTyped
<1> QED  BY <1>1, <1>2, <1>3, <1>4, RadioQuiet

LEMMA FinishedRows ==
  ASSUME NEW p \in RadioPages, Radio!Finished(p, v3)
  PROVE  v3' = Radio!NoOp /\ v2' \in RadioPages /\ SamePage(p, v2')
  BY DEF Radio!Finished, RadioPages, SamePage

\* The operation's attempt goes on to a step s.
LEMMA OpAt ==
  ASSUME v3 \in RadioOps, NEW s \in Radio!OpStates
  PROVE  /\ [v3 EXCEPT !.at = s] \in RadioOps /\ [v3 EXCEPT !.at = s].at = s
         /\ [v3 EXCEPT !.at = s].over = v3.over
         /\ [v3 EXCEPT !.at = s, !.stale = FALSE] \in RadioOps /\ [v3 EXCEPT !.at = s, !.stale = FALSE].at = s
         /\ [v3 EXCEPT !.at = s, !.stale = FALSE].over = v3.over
  BY DEF RadioOps

LEMMA JoinKeeps ==
  ASSUME RadioInv,
         \/ Radio!OutputChosen \/ Radio!RoomReturned
         \/ \E ok \in BOOLEAN : Radio!JoinReplied(ok) \/ Radio!JoinConnected(ok)
  PROVE  RadioInv'
<1> USE RadioFacts
<1>0. UNCHANGED <<v1, v5, v6, v7, v8, v9>>
  BY DEF Radio!OutputChosen, Radio!RoomReturned, Radio!JoinReplied, Radio!JoinConnected
<1>1. SamePage(v2, v2) /\ "join" \in Radio!OpStates /\ "returnRoom" \in Radio!OpStates /\ "grantJoin" \in Radio!OpStates
  BY DEF SamePage, Radio!OpStates, Radio!Joining
<1>2. CASE Radio!OutputChosen
  <2>1. v3.at = "output" /\ v4' = v4  BY <1>2 DEF Radio!OutputChosen
  <2>2. Radio!Finished(v2, v3) \/ (v3' = [v3 EXCEPT !.at = "join"] /\ v2' = v2)  BY <1>2 DEF Radio!OutputChosen
  <2>3. CASE Radio!Finished(v2, v3)  BY <1>0, <2>1, <2>3, FinishedRows, OpMoves
  <2>4. CASE v3' = [v3 EXCEPT !.at = "join"] /\ v2' = v2
    <3>1. v3' \in RadioOps /\ v3'.at = "join" /\ v3'.over = v3.over  BY <1>1, <2>4, OpAt
    <3> QED  BY <1>0, <1>1, <2>1, <2>4, <3>1, OpMoves
  <2> QED  BY <2>2, <2>3, <2>4
<1>3. CASE Radio!RoomReturned
  <2>1. v3.at = "returnRoom" /\ v4' = v4 /\ Radio!Finished(v2, v3)  BY <1>3 DEF Radio!RoomReturned
  <2> QED  BY <1>0, <2>1, FinishedRows, OpMoves
<1>4. ASSUME NEW ok \in BOOLEAN, Radio!JoinReplied(ok) PROVE RadioInv'
  <2>1. v3.at = "join" /\ v4' = v4  BY <1>4 DEF Radio!JoinReplied
  <2>2. CASE Radio!Finished(v2, v3)  BY <1>0, <2>1, <2>2, FinishedRows, OpMoves
  <2>3. CASE v3' = [v3 EXCEPT !.at = "returnRoom"] /\ v2' = v2
    <3>1. v3' \in RadioOps /\ v3'.at = "returnRoom" /\ v3'.over = v3.over  BY <1>1, <2>3, OpAt
    <3> QED  BY <1>0, <1>1, <2>1, <2>3, <3>1, OpMoves
  <2>4. CASE v3' = [v3 EXCEPT !.at = "grantJoin"] /\ v2' = [v2 EXCEPT !.session = TRUE, !.lost = FALSE]
    <3>1. v3' \in RadioOps /\ v3'.at = "grantJoin" /\ v3'.over = v3.over  BY <1>1, <2>4, OpAt
    <3>2. v2' \in RadioPages /\ SamePage(v2, v2') /\ v2'.preparing = v2.preparing
      BY <2>4 DEF SamePage, RadioPages
    <3> QED  BY <1>0, <2>1, <3>1, <3>2, OpMoves
  <2> QED  BY <1>4, <2>2, <2>3, <2>4 DEF Radio!JoinReplied
<1>5. ASSUME NEW ok \in BOOLEAN, Radio!JoinConnected(ok) PROVE RadioInv'
  <2>1. v3.at = "connectJoin" /\ (v4' = v4 \/ v4' = Radio!Stale(v4))  BY <1>5 DEF Radio!JoinConnected
  <2> DEFINE d == Radio!Disconnected(v2)
             l == [v2 EXCEPT !.room = "listen"]
  <2>2. d \in RadioPages /\ SamePage(v2, d)  BY RadioPageRows DEF SamePage
  <2>3. l \in RadioPages /\ SamePage(v2, l)  BY DEF SamePage, RadioPages
  <2>4. Radio!Finished(l, v3) \/ Radio!Finished(v2, v3) \/ Radio!Finished(d, v3)
    BY <1>5 DEF Radio!JoinConnected
  <2> HIDE DEF d, l
  <2>5. v3' = Radio!NoOp /\ v2' \in RadioPages /\ SamePage(v2, v2')
    BY <2>2, <2>3, <2>4, FinishedRows DEF SamePage
  <2> QED  BY <1>0, <2>1, <2>5, OpMoves
<1> QED  BY <1>2, <1>3, <1>4, <1>5

LEMMA TalkSteps ==
  ASSUME RadioInv,
         Radio!StartStopped \/ \E ok \in BOOLEAN : Radio!MicAcquired(ok) \/ Radio!GrantReplied(ok) \/ Radio!FloorReturned(ok)
  PROVE  RadioInv'
<1> USE RadioFacts
<1>1. /\ SamePage(v2, v2) /\ "floor" \in Radio!OpStates /\ "failed" \in Radio!OpStates
      /\ "connectJoin" \in Radio!OpStates /\ "connectTalk" \in Radio!OpStates
  BY DEF SamePage, Radio!OpStates, Radio!Joining
<1>2. CASE Radio!StartStopped
  <2>1. /\ v3.at = "stopping" /\ UNCHANGED <<v1, v4, v5, v6, v7, v8, v9>> /\ Radio!Finished(v2, v3)
    BY <1>2 DEF Radio!StartStopped
  <2> QED  BY <2>1, FinishedRows, OpMoves
<1>3. ASSUME NEW ok \in BOOLEAN, Radio!MicAcquired(ok) PROVE RadioInv'
  <2>1. v3.at = "mic" /\ UNCHANGED <<v1, v4, v5, v6, v7, v8, v9>>  BY <1>3 DEF Radio!MicAcquired
  <2>2. CASE Radio!Finished(v2, v3)  BY <2>1, <2>2, FinishedRows, OpMoves
  <2>3. CASE v3' = [v3 EXCEPT !.at = "floor"] /\ v2' = [v2 EXCEPT !.mic = TRUE]
    <3>1. v3' \in RadioOps /\ v3'.at = "floor" /\ v3'.over = v3.over  BY <1>1, <2>3, OpAt
    <3>2. v2' \in RadioPages /\ SamePage(v2, v2') /\ v2'.preparing = v2.preparing
      BY <2>3 DEF SamePage, RadioPages
    <3> QED  BY <2>1, <3>1, <3>2, OpMoves
  <2>4. CASE v3' = [v3 EXCEPT !.at = "failed"] /\ v2' = v2
    <3>1. v3' \in RadioOps /\ v3'.at = "failed" /\ v3'.over = v3.over  BY <1>1, <2>4, OpAt
    <3> QED  BY <1>1, <2>1, <2>4, <3>1, OpMoves
  <2> QED  BY <1>3, <2>2, <2>3, <2>4 DEF Radio!MicAcquired
<1>4. ASSUME NEW ok \in BOOLEAN, Radio!GrantReplied(ok) PROVE RadioInv'
  <2>1. /\ v3.at \in {"grantJoin", "grantTalk"} /\ UNCHANGED <<v1, v5, v6, v7, v8, v9>>
        /\ v4' = v4 \/ v4' = Radio!Stale(v4)
    BY <1>4 DEF Radio!GrantReplied
  <2>2. CASE Radio!Finished(v2, v3)  BY <2>1, <2>2, FinishedRows, OpMoves
  <2>3. CASE v3' = [v3 EXCEPT !.at = "failed"] /\ v2' = v2
    <3>1. v3' \in RadioOps /\ v3'.at = "failed" /\ v3'.over = v3.over  BY <1>1, <2>3, OpAt
    <3> QED  BY <1>1, <2>1, <2>3, <3>1, OpMoves
  <2>4. CASE /\ v3' = [v3 EXCEPT !.at = IF v3.at = "grantJoin" THEN "connectJoin" ELSE "connectTalk", !.stale = FALSE]
             /\ v2' = [v2 EXCEPT !.room = "none", !.mic = v3.at = "grantTalk" /\ v2.mic]
    <3> DEFINE s == IF v3.at = "grantJoin" THEN "connectJoin" ELSE "connectTalk"
               m == (v3.at = "grantTalk" /\ v2.mic)
    <3>1. s \in Radio!OpStates /\ (s = "connectTalk" => v3.at = "grantTalk") /\ s \in {"connectJoin", "connectTalk"}
      BY <1>1, <2>1
    <3>2. m \in BOOLEAN  OBVIOUS
    <3>3. v3' = [v3 EXCEPT !.at = s, !.stale = FALSE] /\ v2' = [v2 EXCEPT !.room = "none", !.mic = m]
      BY <2>4
    <3> HIDE DEF s, m
    <3>4. v3' \in RadioOps /\ v3'.at = s /\ v3'.over = v3.over  BY <3>1, <3>3, OpAt
    <3>5. v2' \in RadioPages /\ SamePage(v2, v2') /\ v2'.preparing = v2.preparing
      BY <3>2, <3>3 DEF SamePage, RadioPages
    <3> QED  BY <2>1, <3>1, <3>4, <3>5, OpMoves
  <2> QED  BY <1>4, <2>2, <2>3, <2>4 DEF Radio!GrantReplied
<1>5. ASSUME NEW ok \in BOOLEAN, Radio!FloorReturned(ok) PROVE RadioInv'
  <2>1. /\ v3.at = "returnFloor" /\ UNCHANGED <<v4, v5, v6, v7, v9>>
        /\ v1' = Radio!Released(v3.floor, ok, "returned") /\ v8' = Radio!GivenUp(v3.floor, ok)
    BY <1>5 DEF Radio!FloorReturned
  <2>2. v1' \in [Radio!Bursts -> BurstStates] /\ Granting(v1, v1')
    BY <2>1 DEF Radio!Released, RadioTyped, BurstStates, Granting
  <2>3. v3.floor \in FloorNumbers  BY DEF RadioOps
  <2>4. v8 \subseteq v8' /\ v8' \in SUBSET Radio!Bursts
    BY <2>1, <2>3, RadioConsts DEF Radio!GivenUp, RadioTyped
  <2>5. StillReturned(v3, v3', v1', v8')
    BY <2>1, RadioConsts DEF StillReturned, Radio!GivenUp, Radio!Released, RadioTyped, BurstStates
  <2>6. /\ v2' \in RadioPages /\ SamePage(v2, v2') /\ v3' \in RadioOps /\ OpGoesOn(v2, v3, v2', v3')
    <3>1. CASE Radio!Finished(v2, v3)
      BY <3>1, FinishedRows, RadioConsts DEF OpGoesOn, Going, Starts, Talks
    <3>2. CASE v3' = [v3 EXCEPT !.at = "failed"] /\ v2' = v2
      <4>1. v3' \in RadioOps /\ v3'.at = "failed" /\ v3'.over = v3.over  BY <1>1, <3>2, OpAt
      <4> QED  BY <1>1, <2>1, <3>2, <4>1 DEF OpGoesOn, Going, Starts, Talks
    <3> QED  BY <1>5, <3>1, <3>2 DEF Radio!FloorReturned
  <2>7. StopGoesOn(v4, v4')  BY <2>1 DEF StopGoesOn
  <2> QED  BY <2>1, <2>2, <2>4, <2>5, <2>6, <2>7, RadioQuiet
<1> QED  BY <1>2, <1>3, <1>4, <1>5

-----------------------------------------------------------------------------
(* Talking, and giving the floor back. *)

\* What goes on beside the operation: its connection may be overtaken.
LEMMA BesideKeeps ==
  ASSUME RadioInv, v1' \in [Radio!Bursts -> BurstStates], Granting(v1, v1'), v2' \in RadioPages, SamePage(v2, v2'),
         v2'.preparing = v2.preparing, v3' = v3 \/ v3' = Radio!Stale(v3), v4' \in StopTasks, StopGoesOn(v4, v4'),
         UNCHANGED <<v5, v6, v8>>, v7' = v7 \/ v7' = 0, v9' \in BOOLEAN, ~v9' => ~v9
  PROVE  RadioInv'
<1>1. v3' \in RadioOps /\ OpGoesOn(v2, v3, v2', v3') /\ StillReturned(v3, v3', v1', v8')
  BY RadioFacts, OpRows DEF OpGoesOn, StillReturned, Going, Starts, Talks
<1>2. v8 \subseteq v8' /\ v8' \in SUBSET Radio!Bursts  BY RadioFacts DEF RadioTyped
<1> QED  BY <1>1, <1>2, RadioQuiet

LEMMA TalkConnectedKeeps == ASSUME RadioInv, NEW ok \in BOOLEAN, Radio!TalkConnected(ok) PROVE RadioInv'
<1> USE RadioFacts
<1>1. v3.at = "connectTalk" /\ UNCHANGED <<v1, v5, v6, v7, v8, v9>>  BY DEF Radio!TalkConnected
<1>2. "failed" \in Radio!OpStates  BY DEF Radio!OpStates
<1> DEFINE d == Radio!Disconnected(v2)
           t == [v2 EXCEPT !.room = "talk"]
           m == [v2 EXCEPT !.mic = FALSE]
           r == [v2 EXCEPT !.room = "talk", !.rec = v2.token, !.timer = TRUE]
<1>3. /\ d \in RadioPages /\ SamePage(v2, d) /\ d.preparing = v2.preparing
      /\ t \in RadioPages /\ SamePage(v2, t) /\ t.preparing = v2.preparing
      /\ m \in RadioPages /\ SamePage(v2, m) /\ m.preparing = v2.preparing
  BY RadioPageRows DEF SamePage, RadioPages
<1>4. CASE ~v3.over /\ Radio!Finished(r, v3) /\ v4' = v4
  <2>1. /\ r \in RadioPages /\ r.token = v2.token /\ r.rec = v2.token /\ r.session = v2.session
        /\ r.radio = v2.radio /\ r.preparing = v2.preparing
    BY DEF RadioPages
  <2> HIDE DEF r
  <2>2. v3' = Radio!NoOp /\ v2' \in RadioPages /\ SamePage(r, v2')  BY <1>4, <2>1, FinishedRows
  <2>3. v2'.token = v2.token /\ v2'.rec \in {v2.token, 0} /\ (v2.session => v2'.session) /\ v2'.radio = v2.radio
    BY <2>1, <2>2 DEF SamePage
  <2>4. Talks(v3) /\ Going(v3) /\ ~Going(v3') /\ v3'.at = "none"
    BY <1>1, <1>4, <2>2, RadioConsts DEF Talks, Going
  <2>5. RadioTyped'  BY <1>1, <1>4, <2>2, RadioConsts DEF RadioTyped
  <2>6. RadioRows'
    BY <1>1, <1>4, <2>3, <2>4 DEF RadioRows
  <2>7. ASSUME ~v9' PROVE RadioTalk(v2', v3', v4', v6', v7')
    <3>1. RadioTalk(v2, v3, v4, v6, v7)  BY <1>1, <2>7
    <3> QED  BY <1>1, <1>4, <2>3, <2>4, <3>1 DEF RadioTalk, Starts, Talks
  <2>8. ASSUME ~v9' PROVE Held(v1', v2', v3', v8')
    BY <1>1, <2>3, <2>8 DEF Held
  <2> QED  BY <2>5, <2>6, <2>7, <2>8 DEF RadioInv
<1>5. CASE v3' = [v3 EXCEPT !.at = "failed"] /\ v2' \in {t, m, d} /\ (v4' = v4 \/ v4' = Radio!Stale(v4))
  <2>1. v3' \in RadioOps /\ v3'.at = "failed" /\ v3'.over = v3.over  BY <1>2, <1>5, OpAt
  <2> HIDE DEF d, t, m
  <2> QED  BY <1>1, <1>3, <1>5, <2>1, OpMoves
<1>6. CASE Radio!Finished(t, v3) /\ v4' = v4
  <2> HIDE DEF t
  <2>1. v3' = Radio!NoOp /\ v2' \in RadioPages /\ SamePage(v2, v2')
    BY <1>3, <1>6, FinishedRows DEF SamePage
  <2> QED  BY <1>1, <1>6, <2>1, OpMoves
<1> QED  BY <1>4, <1>5, <1>6 DEF Radio!TalkConnected

LEMMA StopBeginsAgain ==
  ASSUME RadioInv, Radio!CanStop PROVE v2.token # 0 /\ v3.at \notin {"mic", "floor", "returnFloor"}
  BY RadioFacts DEF Radio!CanStop, RadioRows

LEMMA StartFailedKeeps == ASSUME RadioInv, Radio!StartFailed PROVE RadioInv'
<1> USE RadioFacts, RadioConsts
<1>1. v3.at = "failed" /\ UNCHANGED <<v1, v5, v6, v7, v8, v9>>  BY DEF Radio!StartFailed
<1>2. "stopping" \in Radio!OpStates  BY DEF Radio!OpStates
<1> DEFINE q == [v2 EXCEPT !.rec = 0]
<1>3. q \in RadioPages /\ SamePage(v2, q) /\ q.preparing = v2.preparing  BY DEF SamePage, RadioPages
<1>4. CASE Radio!Finished(q, v3) /\ v4' = v4
  <2> HIDE DEF q
  <2>1. v3' = Radio!NoOp /\ v2' \in RadioPages /\ SamePage(v2, v2')
    BY <1>3, <1>4, FinishedRows DEF SamePage
  <2> QED  BY <1>1, <1>4, <2>1, OpMoves
<1>5. CASE v3' = [v3 EXCEPT !.at = "stopping"] /\ v4' = v4 /\ v2' = q
  <2>1. v3' \in RadioOps /\ v3'.at = "stopping" /\ v3'.over = v3.over  BY <1>2, <1>5, OpAt
  <2> QED  BY <1>1, <1>3, <1>5, <2>1, OpMoves
<1>6. CASE /\ v3' = [v3 EXCEPT !.at = "stopping"] /\ v2.token # 0 /\ ~v3.over
           /\ v4' = [Radio!NoOp EXCEPT !.at = "stop", !.floor = v2.token]
           /\ v2' = [v2 EXCEPT !.rec = 0, !.stopping = TRUE, !.timer = FALSE]
  <2>1. v3' \in RadioOps /\ v3'.at = "stopping" /\ v3'.over = v3.over  BY <1>2, <1>6, OpAt
  <2>2. v2' = [v2 EXCEPT !.stopping = TRUE, !.timer = FALSE, !.rec = 0]  BY <1>6 DEF RadioPages
  <2>3. v7' \in FloorNumbers /\ Known(v1, v7')  BY <1>1 DEF RadioTyped, RadioRows
  <2>4. /\ Going(v3') => Going(v3)
        /\ ~Starts(v3') /\ ~Talks(v3')
        /\ (v5' # "none" => ~Going(v3'))
    BY <1>1, <2>1 DEF Going, Starts, Talks, RadioRows
  <2> QED  BY <1>1, <1>6, <2>1, <2>2, <2>3, <2>4, StopBegins
<1> QED  BY <1>4, <1>5, <1>6 DEF Radio!StartFailed

LEMMA StopClickedKeeps == ASSUME RadioInv, Radio!StopClicked PROVE RadioInv'
<1> USE RadioFacts
<1>1. /\ UNCHANGED <<v1, v3, v5, v6, v7, v8, v9>> /\ Radio!CanStop /\ ~v2.preparing /\ Radio!StopTask
  BY DEF Radio!StopClicked, Radio!Controls
<1>2. v7' \in FloorNumbers /\ Known(v1, v7')  BY <1>1 DEF RadioTyped, RadioRows
<1>3. ~v9' => ~v9 /\ ~Talks(v3')  BY <1>1 DEF RadioTalk, Talks
<1>4. v5' # "none" => ~Going(v3')  BY <1>1 DEF RadioRows
<1> QED  BY <1>1, <1>2, <1>3, <1>4, StopBegins, StopBeginsAgain DEF Radio!StopTask

LEMMA StopRepliedKeeps == ASSUME RadioInv, NEW ok \in BOOLEAN, Radio!StopReplied(ok) PROVE RadioInv'
<1> USE RadioFacts, RadioConsts
<1> DEFINE b == v4.floor
<1>1. /\ v4.at = "stop" /\ v3' = Radio!Stale(v3) /\ UNCHANGED <<v5, v6, v7, v8>>
      /\ v9' = (v9 \/ (ok /\ v2.token \notin {0, b}))
  BY DEF Radio!StopReplied
<1>2. b \in Radio!Bursts  BY <1>1 DEF RadioRows, StopTasks
<1>3. v4' \in StopTasks /\ StopGoesOn(v4, v4') /\ v4'.at # "stop"
  <2>1. v4' = Radio!NoOp \/ v4' = [v4 EXCEPT !.at = "grant", !.over = FALSE]  BY DEF Radio!StopReplied
  <2> QED  BY <1>1, <2>1 DEF StopTasks, StopGoesOn
<1>4. CASE ~ok
  <2>1. v1' = v1 /\ v2' = [Radio!Disconnected(v2) EXCEPT !.token = v2.token, !.stopping = FALSE]
    BY <1>4 DEF Radio!StopReplied
  <2>2. v2' \in RadioPages /\ SamePage(v2, v2') /\ v2'.preparing = v2.preparing
    BY <2>1, RadioPageRows DEF RadioPages, SamePage
  <2>3. v1' \in [Radio!Bursts -> BurstStates] /\ Granting(v1, v1')  BY <2>1 DEF RadioTyped, Granting
  <2>4. v9' \in BOOLEAN /\ (~v9' => ~v9)  BY <1>1
  <2> QED  BY <1>1, <1>3, <2>2, <2>3, <2>4, BesideKeeps
<1>5. CASE ok
  <2>1. v1' \in [Radio!Bursts -> BurstStates] /\ Granting(v1, v1') /\ v1'[b] # "talking"
    <3>1. v1 \in [Radio!Bursts -> BurstStates]  BY DEF RadioTyped
    <3> DEFINE f == Radio!Released(b, ok, "released")
    <3>2. f \in [Radio!Bursts -> BurstStates] /\ Granting(v1, f) /\ f[b] # "talking"
      BY <1>2, <1>5, <3>1 DEF Radio!Released, Granting, BurstStates
    <3>3. v1' = f \/ v1' = [v1 EXCEPT ![b] = "finalized"] \/ (v1' = v1 /\ f[b] # "released")
      BY <1>5 DEF Radio!StopReplied
    <3>4. v1' = v1 /\ f[b] # "released" => v1[b] # "talking"
      BY <1>2, <1>5, <3>1 DEF Radio!Released
    <3> HIDE DEF f
    <3>5. CASE v1' = f  BY <3>2, <3>5
    <3>6. CASE v1' = [v1 EXCEPT ![b] = "finalized"]  BY <1>2, <3>1, <3>6 DEF Granting, BurstStates
    <3>7. CASE v1' = v1 /\ f[b] # "released"  BY <3>1, <3>4, <3>7 DEF Granting
    <3> QED  BY <3>3, <3>5, <3>6, <3>7
  <2>2. v2' = [Radio!Disconnected(v2) EXCEPT !.token = 0, !.stopping = FALSE]
    BY <1>5 DEF Radio!StopReplied
  <2>3. /\ v2' \in RadioPages /\ v2'.token = 0 /\ v2'.rec = v2.rec /\ v2'.timer = v2.timer
        /\ v2'.preparing = v2.preparing /\ v2'.radio = v2.radio /\ v2'.session = v2.session
    BY <2>2, RadioPageRows DEF RadioPages
  <2>4. /\ v3' \in RadioOps /\ v3'.at = v3.at /\ v3'.floor = v3.floor /\ v3'.over = v3.over
    BY <1>1, OpRows
  <2>5. RadioTyped'  BY <1>1, <1>3, <2>1, <2>3, <2>4 DEF RadioTyped
  <2>6. RadioRows'
    <3>1. \A n \in FloorNumbers : Known(v1, n) => Known(v1', n)  BY <2>1 DEF Granting, Known
    <3>2. v7 \in FloorNumbers /\ v4.floor \in FloorNumbers /\ v6.floor \in FloorNumbers
      BY DEF RadioTyped, StopTasks, Losses
    <3>3. Known(v1', v7) /\ Known(v1', v4'.floor) /\ Known(v1', v6.floor)
      BY <1>3, <3>1, <3>2 DEF RadioRows, StopGoesOn, Known
    <3> QED  BY <1>1, <1>3, <2>3, <2>4, <3>3 DEF RadioRows, StopGoesOn, Known, Going
  <2>7. ASSUME ~v9' PROVE RadioTalk(v2', v3', v4', v6', v7') /\ Held(v1', v2', v3', v8')
    <3>1. RadioTalk(v2, v3, v4, v6, v7) /\ Held(v1, v2, v3, v8) /\ v2.token \in {0, b}
      BY <1>1, <1>5, <2>7
    <3>2. v2.token # 0 => FloorEnds(v4, v6, v2.token)  BY <1>1, <3>1 DEF FloorEnds
    <3>3. ~Talks(v3) /\ v2.rec = 0 /\ ~v2.timer  BY <3>1, <3>2 DEF RadioTalk
    <3>4. (Going(v3') <=> Going(v3)) /\ (Starts(v3') <=> Starts(v3)) /\ (Talks(v3') <=> Talks(v3))
      BY <2>4 DEF Going, Starts, Talks
    <3>5. RadioTalk(v2', v3', v4', v6', v7')
      BY <2>3, <3>1, <3>3, <3>4 DEF RadioTalk
    <3>6. Held(v1', v2', v3', v8')
      BY <1>1, <2>1, <2>3, <2>4, <3>1, RadioConsts DEF Held, Granting
    <3> QED  BY <3>5, <3>6
  <2> QED  BY <2>5, <2>6, <2>7 DEF RadioInv
<1> QED  BY <1>4, <1>5

LEMMA ListenKeeps ==
  ASSUME RadioInv, Radio!LeaseExpires \/ \E ok \in BOOLEAN : Radio!ListenGranted(ok) \/ Radio!ListenConnected(ok)
  PROVE  RadioInv'
<1> USE RadioFacts, RadioConsts
<1>1. v1 \in [Radio!Bursts -> BurstStates] /\ Granting(v1, v1) /\ SamePage(v2, v2) /\ StopGoesOn(v4, v4)
  BY DEF RadioTyped, Granting, SamePage, StopGoesOn
<1>2. CASE Radio!LeaseExpires
  <2>1. PICK b \in Radio!Bursts : v1[b] = "talking" /\ v1' = [v1 EXCEPT ![b] = "expired"]
    BY <1>2 DEF Radio!LeaseExpires
  <2>2. v1' \in [Radio!Bursts -> BurstStates] /\ Granting(v1, v1')  BY <1>1, <2>1 DEF Granting, BurstStates
  <2>3. UNCHANGED <<v2, v3, v4, v5, v6, v7, v8, v9>>  BY <1>2 DEF Radio!LeaseExpires
  <2> QED  BY <1>1, <2>2, <2>3, BesideKeeps
<1> DEFINE d == Radio!Disconnected(v2)
<1>3. d \in RadioPages /\ SamePage(v2, d) /\ d.preparing = v2.preparing  BY RadioPageRows DEF SamePage
<1>4. LET e == [d EXCEPT !.stopping = FALSE] IN
      e \in RadioPages /\ SamePage(v2, e) /\ e.preparing = v2.preparing
  <2> HIDE DEF d
  <2> QED  BY <1>3 DEF SamePage, RadioPages
<1>5. LET e == [v2 EXCEPT !.room = "listen", !.stopping = FALSE] IN
      e \in RadioPages /\ SamePage(v2, e) /\ e.preparing = v2.preparing
  BY DEF SamePage, RadioPages
<1>6. ASSUME v4.at # "none", v4' = Radio!NoOp \/ v4' = [v4 EXCEPT !.at = "connect", !.stale = FALSE]
      PROVE  v4' \in StopTasks /\ StopGoesOn(v4, v4')
  BY <1>6 DEF StopTasks, StopGoesOn
<1>7. ASSUME v4.at # "none", v1' = v1 \/ v1' = Radio!Finalized(v4.floor)
      PROVE  v1' \in [Radio!Bursts -> BurstStates] /\ Granting(v1, v1')
  <2>1. v4.floor \in Radio!Bursts  BY <1>7 DEF RadioRows, StopTasks
  <2> QED  BY <1>1, <1>7, <2>1 DEF Radio!Finalized, Granting, BurstStates
<1>8. ASSUME NEW ok \in BOOLEAN, Radio!ListenGranted(ok) PROVE RadioInv'
  <2>1. /\ v4.at # "none" /\ UNCHANGED <<v5, v6, v7, v8, v9>> /\ (v3' = v3 \/ v3' = Radio!Stale(v3))
        /\ v4' = Radio!NoOp \/ v4' = [v4 EXCEPT !.at = "connect", !.stale = FALSE]
        /\ v1' = v1 \/ v1' = Radio!Finalized(v4.floor)
        /\ v2' \in {v2, d, [d EXCEPT !.stopping = FALSE]}
    BY <1>8 DEF Radio!ListenGranted
  <2> HIDE DEF d
  <2>2. v2' \in RadioPages /\ SamePage(v2, v2') /\ v2'.preparing = v2.preparing  BY <1>1, <1>3, <1>4, <2>1
  <2> QED  BY <1>6, <1>7, <2>1, <2>2, BesideKeeps
<1>9. ASSUME NEW ok \in BOOLEAN, Radio!ListenConnected(ok) PROVE RadioInv'
  <2>1. /\ v4.at # "none" /\ UNCHANGED <<v5, v6, v7, v8, v9>> /\ (v3' = v3 \/ v3' = Radio!Stale(v3))
        /\ v4' = Radio!NoOp
        /\ v1' = v1 \/ v1' = Radio!Finalized(v4.floor)
        /\ v2' \in {[v2 EXCEPT !.room = "listen", !.stopping = FALSE], [d EXCEPT !.stopping = FALSE]}
    BY <1>9 DEF Radio!ListenConnected
  <2> HIDE DEF d
  <2>2. v2' \in RadioPages /\ SamePage(v2, v2') /\ v2'.preparing = v2.preparing  BY <1>4, <1>5, <2>1
  <2> QED  BY <1>6, <1>7, <2>1, <2>2, BesideKeeps
<1> QED  BY <1>2, <1>8, <1>9

-----------------------------------------------------------------------------
(* Clicks, the floor's grant, the heartbeat. *)

LEMMA ClicksBegin == ASSUME RadioInv, Radio!JoinClicked \/ Radio!StartClicked PROVE RadioInv'
<1> USE RadioFacts, RadioConsts
<1>1. /\ UNCHANGED <<v1, v5, v6, v7, v8, v9>> /\ v2.radio /\ v3.at = "none" /\ v5 = "none"
      /\ v2' = [v2 EXCEPT !.preparing = TRUE] /\ v4' = Radio!Overtaken(v4)
  BY DEF Radio!JoinClicked, Radio!StartClicked
<1>2. PICK s \in {"output", "mic", "floor"} :
        /\ v3' = [Radio!NoOp EXCEPT !.at = s]
        /\ s \in {"mic", "floor"} => v2.token = 0 /\ v2.session
  <2>1. CASE Radio!JoinClicked  BY <2>1 DEF Radio!JoinClicked
  <2>2. CASE Radio!StartClicked
    <3>1. v2.token = 0 /\ v2.session  BY <2>2 DEF Radio!StartClicked, Radio!Controls
    <3>2. v3' = [Radio!NoOp EXCEPT !.at = IF v2.mic THEN "floor" ELSE "mic"]  BY <2>2 DEF Radio!StartClicked
    <3> QED  BY <3>1, <3>2
  <2> QED  BY <2>1, <2>2
<1>3. v3' \in RadioOps /\ v3'.at = s /\ ~v3'.over
  BY <1>2 DEF RadioOps, Radio!NoOp, Radio!OpStates, Radio!Joining
<1>4. /\ v2' \in RadioPages /\ v2'.token = v2.token /\ v2'.rec = v2.rec /\ v2'.timer = v2.timer
      /\ v2'.preparing /\ v2'.radio /\ v2'.session = v2.session
  BY <1>1 DEF RadioPages
<1>5. v4' \in StopTasks /\ v4'.at = v4.at /\ v4'.floor = v4.floor  BY <1>1, StopRows
<1>6. RadioTyped'  BY <1>1, <1>3, <1>4, <1>5 DEF RadioTyped
<1>7. RadioRows'  BY <1>1, <1>2, <1>3, <1>4, <1>5 DEF RadioRows
<1>8. ASSUME ~v9' PROVE RadioTalk(v2', v3', v4', v6', v7') /\ Held(v1', v2', v3', v8')
  <2>1. RadioTalk(v2, v3, v4, v6, v7) /\ Held(v1, v2, v3, v8)  BY <1>1, <1>8
  <2>2. Held(v1', v2', v3', v8')  BY <1>1, <1>4, <2>1 DEF Held
  <2>3. RadioTalk(v2', v3', v4', v6', v7')
    BY <1>1, <1>2, <1>3, <1>4, <1>5, <2>1 DEF RadioTalk, Starts, Talks, FloorEnds
  <2> QED  BY <2>2, <2>3
<1> QED  BY <1>6, <1>7, <1>8 DEF RadioInv

LEMMA FloorRepliedKeeps ==
  ASSUME RadioInv, NEW answer \in {"granted", "refused", "lost"}, Radio!FloorReplied(answer) PROVE RadioInv'
<1> USE RadioFacts, RadioConsts
<1> DEFINE b == CHOOSE n \in Radio!Bursts : v1[n] = "unused" /\ \A m \in 1 .. n - 1 : v1[m] # "unused"
           granted == [v1 EXCEPT ![b] = "talking"]
<1>1. v3.at = "floor" /\ UNCHANGED <<v4, v5, v6, v7, v9>> /\ v1 \in [Radio!Bursts -> BurstStates]
  BY DEF Radio!FloorReplied, RadioTyped
<1>2. v2.token = 0  BY <1>1 DEF RadioRows
<1>3. "failed" \in Radio!OpStates /\ "returnFloor" \in Radio!OpStates /\ "grantTalk" \in Radio!OpStates
  BY DEF Radio!OpStates
<1>4. CASE answer = "refused"
  <2>1. UNCHANGED <<v1, v2, v8>> /\ v3' = [v3 EXCEPT !.at = "failed"]  BY <1>4 DEF Radio!FloorReplied
  <2>2. v3' \in RadioOps /\ v3'.at = "failed" /\ v3'.over = v3.over  BY <1>3, <2>1, OpAt
  <2>3. SamePage(v2, v2)  BY DEF SamePage
  <2> QED  BY <1>1, <2>1, <2>2, <2>3, OpMoves
<1>5. CASE answer # "refused"
  <2>1. (\E n \in Radio!Bursts : v1[n] = "unused") /\ v1' = granted
    BY <1>5 DEF Radio!FloorReplied
  <2>2. b \in Radio!Bursts /\ v1[b] = "unused"  BY <1>1, <2>1, FirstUnused
  <2>3. /\ v8' = IF answer = "lost" THEN v8 \cup {b} ELSE v8
        /\ \/ answer = "lost" /\ v3' = [v3 EXCEPT !.at = "failed"] /\ v2' = v2
           \/ answer = "granted" /\ v3.over /\ v3' = [v3 EXCEPT !.at = "returnFloor", !.floor = b] /\ v2' = v2
           \/ answer = "granted" /\ ~v3.over /\ v3' = [v3 EXCEPT !.at = "grantTalk"] /\ v2' = [v2 EXCEPT !.token = b]
    BY <1>5 DEF Radio!FloorReplied
  <2> HIDE DEF b
  <2>4. /\ v1' \in [Radio!Bursts -> BurstStates] /\ v1'[b] = "talking"
        /\ \A n \in Radio!Bursts : n # b => v1'[n] = v1[n]
    BY <1>1, <2>1, <2>2 DEF BurstStates
  <2> HIDE DEF granted
  <2>5. \A n \in FloorNumbers : Known(v1, n) => Known(v1', n) /\ (n # 0 => n # b)
    BY <1>1, <2>2, <2>4 DEF Known
  <2>6. v8' \in SUBSET Radio!Bursts  BY <2>2, <2>3 DEF RadioTyped
  <2>7. v7 \in FloorNumbers /\ v4.floor \in FloorNumbers /\ v6.floor \in FloorNumbers /\ b \in FloorNumbers
    BY <2>2 DEF RadioTyped, StopTasks, Losses
  <2>8. /\ Known(v1, v7) /\ Known(v1, v4.floor) /\ Known(v1, v6.floor)
        /\ Known(v1', v7) /\ Known(v1', v4.floor) /\ Known(v1', v6.floor)
        /\ v7 # b /\ v4.floor # b /\ v6.floor # b /\ b # 0
    BY <2>2, <2>5, <2>7 DEF RadioRows
  <2>9. Known(v1', 0) /\ Known(v1', b)  BY <2>4 DEF Known
  <2>10. CASE answer = "lost" /\ v3' = [v3 EXCEPT !.at = "failed"] /\ v2' = v2
    <3>1. v3' \in RadioOps /\ v3'.at = "failed" /\ v3'.over = v3.over  BY <1>3, <2>10, OpAt
    <3>2. RadioTyped'  BY <1>1, <2>4, <2>6, <2>10, <3>1 DEF RadioTyped
    <3>3. RadioRows'  BY <1>1, <1>2, <2>8, <2>9, <2>10, <3>1 DEF RadioRows, Going
    <3>4. ASSUME ~v9' PROVE RadioTalk(v2', v3', v4', v6', v7')
      BY <1>1, <2>10, <3>1, <3>4 DEF RadioTalk, Going, Starts, Talks
    <3>5. ASSUME ~v9' PROVE Held(v1', v2', v3', v8')
      BY <1>1, <2>3, <2>4, <2>10, <3>5 DEF Held
    <3> QED  BY <3>2, <3>3, <3>4, <3>5 DEF RadioInv
  <2>11. CASE answer = "granted" /\ v3.over /\ v3' = [v3 EXCEPT !.at = "returnFloor", !.floor = b] /\ v2' = v2
    <3>1. v3' \in RadioOps /\ v3'.at = "returnFloor" /\ v3'.over /\ v3'.floor = b
      BY <1>3, <2>7, <2>11 DEF RadioOps
    <3>2. RadioTyped'  BY <1>1, <2>4, <2>6, <2>11, <3>1 DEF RadioTyped
    <3>3. RadioRows'  BY <1>1, <1>2, <2>8, <2>9, <2>11, <3>1 DEF RadioRows, Going
    <3>4. ASSUME ~v9' PROVE RadioTalk(v2', v3', v4', v6', v7')
      BY <1>1, <2>11, <3>1, <3>4 DEF RadioTalk, Going, Starts, Talks
    <3>5. ASSUME ~v9' PROVE Held(v1', v2', v3', v8')
      BY <1>1, <2>3, <2>4, <2>11, <3>1, <3>5 DEF Held
    <3> QED  BY <3>2, <3>3, <3>4, <3>5 DEF RadioInv
  <2>12. CASE answer = "granted" /\ ~v3.over /\ v3' = [v3 EXCEPT !.at = "grantTalk"] /\ v2' = [v2 EXCEPT !.token = b]
    <3>1. v3' \in RadioOps /\ v3'.at = "grantTalk" /\ v3'.over = v3.over  BY <1>3, <2>12, OpAt
    <3>2. /\ v2' \in RadioPages /\ v2'.token = b /\ v2'.rec = v2.rec /\ v2'.timer = v2.timer
          /\ v2'.preparing = v2.preparing /\ v2'.radio = v2.radio /\ v2'.session = v2.session
      BY <2>7, <2>12 DEF RadioPages
    <3>3. RadioTyped'  BY <1>1, <2>4, <2>6, <3>1, <3>2 DEF RadioTyped
    <3>4. RadioRows'
      BY <1>1, <2>8, <2>9, <2>12, <3>1, <3>2 DEF RadioRows, Going
    <3>5. ASSUME ~v9' PROVE RadioTalk(v2', v3', v4', v6', v7')
      <4>1. RadioTalk(v2, v3, v4, v6, v7)  BY <1>1, <3>5
      <4>2. Going(v3) /\ Starts(v3)  BY <1>1, <2>12 DEF Going, Starts
      <4>3. v2.rec = 0 /\ ~v2.timer /\ v2.session /\ v2.radio /\ v2.preparing
        BY <1>2, <4>1, <4>2 DEF RadioTalk
      <4> QED  BY <1>1, <2>8, <3>2, <4>3 DEF RadioTalk, FloorEnds
    <3>6. ASSUME ~v9' PROVE Held(v1', v2', v3', v8')
      BY <1>1, <1>2, <2>2, <2>3, <2>4, <2>12, <3>2, <3>6 DEF Held
    <3> QED  BY <3>3, <3>4, <3>5, <3>6 DEF RadioInv
  <2> QED  BY <2>3, <2>10, <2>11, <2>12
<1> QED  BY <1>4, <1>5

LEMMA HeartbeatKeeps == ASSUME RadioInv, Radio!Heartbeat \/ Radio!HeartbeatReplied PROVE RadioInv'
<1> USE RadioFacts, RadioConsts
<1>1. v1 \in [Radio!Bursts -> BurstStates] /\ Granting(v1, v1) /\ SamePage(v2, v2) /\ StopGoesOn(v4, v4)
  BY DEF RadioTyped, Granting, SamePage, StopGoesOn
<1>2. CASE Radio!Heartbeat
  <2>1. UNCHANGED <<v1, v2, v3, v4, v5, v6, v8, v9>> /\ v2.timer /\ v7' = v2.token
    BY <1>2 DEF Radio!Heartbeat
  <2>2. RadioTyped'  BY <2>1 DEF RadioTyped, RadioPages
  <2>3. RadioRows'  BY <2>1 DEF RadioRows
  <2>4. ASSUME ~v9' PROVE RadioTalk(v2', v3', v4', v6', v7') /\ Held(v1', v2', v3', v8')
    BY <2>1, <2>4 DEF RadioTalk, Starts, Talks, Held
  <2> QED  BY <2>2, <2>3, <2>4 DEF RadioInv
<1>3. CASE Radio!HeartbeatReplied
  <2>1. UNCHANGED <<v1, v3, v5, v6, v8>> /\ v7 # 0 /\ v7' = 0  BY <1>3 DEF Radio!HeartbeatReplied
  <2>2. \/ UNCHANGED <<v2, v4>> /\ (v9' = v9 \/ v9' = (v9 \/ v2.token \notin {0, v7}))
        \/ Radio!CanStop /\ Radio!StopTask /\ v9' = (v9 \/ v2.token \notin {0, v7})
    BY <1>3 DEF Radio!HeartbeatReplied
  <2>3. CASE UNCHANGED <<v2, v4>> /\ (v9' = v9 \/ v9' = (v9 \/ v2.token \notin {0, v7}))
    <3>1. v9' \in BOOLEAN /\ (~v9' => ~v9)  BY <2>3
    <3> QED  BY <1>1, <2>1, <2>3, <3>1, BesideKeeps
  <2>4. CASE Radio!CanStop /\ Radio!StopTask /\ v9' = (v9 \/ v2.token \notin {0, v7})
    <3>1. v2.token # 0 /\ v3.at \notin {"mic", "floor", "returnFloor"}  BY <2>4, StopBeginsAgain
    <3>2. ~v9' => ~v9 /\ ~Talks(v3)
      <4>1. SUFFICES ASSUME ~v9' PROVE ~v9 /\ ~Talks(v3)  OBVIOUS
      <4>2. ~v9 /\ v2.token = v7  BY <2>4, <3>1, <4>1
      <4> QED  BY <4>2 DEF RadioTalk
    <3>3. v9' \in BOOLEAN  BY <2>4
    <3>4. v7' \in FloorNumbers /\ Known(v1, v7')  BY <2>1 DEF Known
    <3>5. v5' # "none" => ~Going(v3')  BY <2>1 DEF RadioRows
    <3> QED  BY <2>1, <2>4, <3>1, <3>2, <3>3, <3>4, <3>5, StopBegins DEF Radio!StopTask
  <2> QED  BY <2>2, <2>3, <2>4
<1> QED  BY <1>2, <1>3

-----------------------------------------------------------------------------
(* The loss of the device. *)

\* A loss is told to the server, or the recorder stops first.
LEMMA LossBegins ==
  ASSUME RadioInv, UNCHANGED <<v1, v5, v8>>, v7' = v7 \/ v7' = 0,
         v2' = v2 \/ v2' = [v2 EXCEPT !.timer = FALSE, !.rec = 0],
         v3' = v3 \/ v3' = Radio!Overtaken(v3), v4' = v4 \/ v4' = Radio!Overtaken(v4),
         NEW s \in {"recorder", "report"}, v6' = [at |-> s, floor |-> v2.token], v9' \in BOOLEAN,
         ~v9' => ~v9 /\ ~v2'.timer /\ v2'.rec = 0 /\ ~Talks(v3')
  PROVE  RadioInv'
<1> USE RadioFacts, RadioConsts
<1>1. /\ v2' \in RadioPages /\ v2'.token = v2.token /\ v2'.rec \in {v2.rec, 0}
      /\ v2'.preparing = v2.preparing /\ v2'.radio = v2.radio /\ v2'.session = v2.session
  BY DEF RadioPages
<1>2. /\ v3' \in RadioOps /\ v3'.at = v3.at /\ v3'.floor = v3.floor
      /\ Going(v3') => Going(v3)
  BY OpRows DEF Going
<1>3. v4' \in StopTasks /\ v4'.at = v4.at /\ v4'.floor = v4.floor  BY StopRows
<1>4. v2.token \in FloorNumbers  BY DEF RadioPages
<1>5. v6' \in Losses /\ v6'.at = s /\ v6'.floor = v2.token  BY <1>4 DEF Losses
<1>6. RadioTyped'  BY <1>1, <1>2, <1>3, <1>5 DEF RadioTyped
<1>7. RadioRows'
  <2>1. Known(v1', v7')  BY DEF RadioRows, Known
  <2> QED  BY <1>1, <1>2, <1>3, <1>5, <2>1 DEF RadioRows
<1>8. ASSUME ~v9' PROVE RadioTalk(v2', v3', v4', v6', v7') /\ Held(v1', v2', v3', v8')
  <2>1. RadioTalk(v2, v3, v4, v6, v7) /\ Held(v1, v2, v3, v8)  BY <1>8
  <2>2. Held(v1', v2', v3', v8')  BY <1>1, <1>2, <2>1 DEF Held
  <2>3. Starts(v3') => Starts(v3)  BY <1>2 DEF Starts
  <2>4. RadioTalk(v2', v3', v4', v6', v7')
    BY <1>1, <1>2, <1>8, <2>1, <2>3 DEF RadioTalk
  <2> QED  BY <2>2, <2>4
<1> QED  BY <1>6, <1>7, <1>8 DEF RadioInv

\* The loss ends: what the page holds by then is given up.
LEMMA LossEndsKeeps ==
  ASSUME RadioInv, v1' \in [Radio!Bursts -> BurstStates], Granting(v1, v1'), v8 \subseteq v8', v8' \in SUBSET Radio!Bursts,
         v5' = v5, v7' = v7 \/ v7' = 0,
         NEW p, p = v2 \/ p = [v2 EXCEPT !.timer = FALSE, !.rec = 0],
         NEW o, o = v3 \/ o = Radio!Overtaken(v3), NEW s, s = v4 \/ s = Radio!Overtaken(v4),
         Radio!LossEnds(p, o, s),
         ~v9 /\ v2.token # 0 /\ v2.token = v6.floor => v1'[v2.token] # "talking" \/ v2.token \in v8'
  PROVE  RadioInv'
<1> USE RadioFacts, RadioConsts
<1>1. /\ p \in RadioPages /\ p.token = v2.token /\ p.rec \in {v2.rec, 0} /\ (p.timer => v2.timer)
      /\ p.radio = v2.radio /\ p.session = v2.session
  BY DEF RadioPages
<1>2. /\ o \in RadioOps /\ o.at = v3.at /\ o.floor = v3.floor /\ (Going(o) => Going(v3))
      /\ s \in StopTasks /\ s.at = v4.at /\ s.floor = v4.floor
  BY OpRows, StopRows DEF Going
<1>3. /\ v6' = [at |-> "none", floor |-> 0]
      /\ v9' = (v9 \/ p.token \notin {0, v6.floor} \/ (o.at # "none" /\ ~o.over))
      /\ v3' = Radio!Stale(o) /\ v4' = Radio!Stale(s)
      /\ v2' = [Radio!Disconnected(p) EXCEPT !.token = 0, !.preparing = FALSE, !.lost = TRUE]
  BY DEF Radio!LossEnds
<1>4. /\ v3' \in RadioOps /\ v3'.at = v3.at /\ v3'.floor = v3.floor /\ (Going(v3') <=> Going(o))
      /\ v4' \in StopTasks /\ v4'.at = v4.at /\ v4'.floor = v4.floor
  BY <1>2, <1>3, OpRows, StopRows DEF Going
<1>5. /\ v2' \in RadioPages /\ v2'.token = 0 /\ v2'.rec = p.rec /\ v2'.timer = p.timer
      /\ v2'.radio = p.radio /\ v2'.session = p.session
  <2> DEFINE d == Radio!Disconnected(p)
  <2>1. /\ d \in RadioPages /\ d.radio = p.radio /\ d.session = p.session /\ d.rec = p.rec /\ d.timer = p.timer
    BY <1>1, RadioPageRows
  <2> HIDE DEF d
  <2> QED  BY <1>3, <2>1 DEF RadioPages, d
<1>6. v6' \in Losses /\ v6'.at = "none" /\ v6'.floor = 0 /\ v9' \in BOOLEAN  BY <1>3 DEF Losses
<1>7. RadioTyped'  BY <1>4, <1>5, <1>6 DEF RadioTyped
<1>8. RadioRows'
  <2>1. \A n \in FloorNumbers : Known(v1, n) => Known(v1', n)  BY DEF Granting, Known
  <2>2. v7 \in FloorNumbers /\ v4.floor \in FloorNumbers  BY DEF RadioTyped, StopTasks
  <2>3. Known(v1', v7') /\ Known(v1', v4'.floor) /\ Known(v1', 0)
    BY <1>4, <2>1, <2>2 DEF RadioRows, Known
  <2>4. v5' = "request" => v2'.rec = 0  BY <1>1, <1>5 DEF RadioRows
  <2>5. v5' # "none" => ~Going(v3')  BY <1>2, <1>4 DEF RadioRows
  <2> QED  BY <1>4, <1>5, <1>6, <2>3, <2>4, <2>5 DEF RadioRows
<1>9. ASSUME ~v9' PROVE RadioTalk(v2', v3', v4', v6', v7') /\ Held(v1', v2', v3', v8')
  <2>1. /\ ~v9 /\ RadioTalk(v2, v3, v4, v6, v7) /\ Held(v1, v2, v3, v8) /\ v2.token \in {0, v6.floor} /\ ~Going(o)
    BY <1>1, <1>3, <1>9 DEF Going
  <2>2. v2.token # 0 => FloorEnds(v4, v6, v2.token)  BY <2>1 DEF FloorEnds
  <2>3. v2.rec = 0 /\ ~v2.timer  BY <2>1, <2>2 DEF RadioTalk
  <2>4. RadioTalk(v2', v3', v4', v6', v7')
    BY <1>1, <1>4, <1>5, <2>1, <2>3 DEF RadioTalk, Starts, Talks
  <2>5. ASSUME NEW b \in Radio!Bursts, v1'[b] = "talking"
        PROVE  (v3'.at = "returnFloor" /\ v3'.floor = b) \/ b \in v8'
    <3>1. v1[b] = "talking"  BY <2>5 DEF Granting
    <3>2. v2.token = b \/ (v3.at = "returnFloor" /\ v3.floor = b) \/ b \in v8  BY <2>1, <3>1 DEF Held
    <3>3. v2.token = b => b \in v8'  BY <2>1, <2>5
    <3> QED  BY <1>4, <3>2, <3>3
  <2>6. Held(v1', v2', v3', v8')  BY <2>5 DEF Held
  <2> QED  BY <2>4, <2>6
<1> QED  BY <1>7, <1>8, <1>9 DEF RadioInv

\* radioDeviceLost, called by an event of the devices or a heartbeat that failed.
LEMMA DeviceLostKeeps ==
  ASSUME RadioInv, Radio!DeviceLost, UNCHANGED <<v1, v5, v8>>, v7' = v7 \/ v7' = 0
  PROVE  RadioInv'
<1> USE RadioFacts, RadioConsts
<1> DEFINE p == [v2 EXCEPT !.timer = FALSE, !.rec = 0]
<1>1. v6.at = "none" /\ v6.floor = 0  BY DEF Radio!DeviceLost, RadioRows
<1>2. ~p.timer /\ p.rec = 0 /\ p.token = v2.token /\ p.session = v2.session  BY DEF RadioPages
<1>3. ~Talks(Radio!Overtaken(v3))  BY OpRows DEF Talks
<1>4. v9 \in BOOLEAN /\ v1 \in [Radio!Bursts -> BurstStates] /\ Granting(v1, v1)
      /\ v8 \subseteq v8 /\ v8 \in SUBSET Radio!Bursts
  BY DEF RadioTyped, Granting
<1>5. CASE v2.rec # 0
  <2>1. /\ v6' = [at |-> "recorder", floor |-> v2.token] /\ v3' = Radio!Overtaken(v3) /\ v4' = Radio!Overtaken(v4)
        /\ v2' = p /\ v9' = v9
    BY <1>1, <1>5 DEF Radio!DeviceLost
  <2> HIDE DEF p
  <2> QED  BY <1>2, <1>3, <1>4, <2>1, LossBegins DEF p
<1>6. CASE v2.rec = 0
  <2>1. Radio!Report(p, Radio!Overtaken(v3), Radio!Overtaken(v4))
    BY <1>6 DEF Radio!DeviceLost
  <2>2. CASE v2.token # 0 /\ v2.session
    <3>1. /\ v6' = [at |-> "report", floor |-> v2.token] /\ v3' = Radio!Overtaken(v3) /\ v4' = Radio!Overtaken(v4)
          /\ v2' = p /\ v9' = v9
      BY <1>1, <1>2, <2>1, <2>2 DEF Radio!Report
    <3> HIDE DEF p
    <3> QED  BY <1>2, <1>3, <1>4, <3>1, LossBegins DEF p
  <2>3. CASE ~(v2.token # 0 /\ v2.session)
    <3>1. Radio!LossEnds(p, Radio!Overtaken(v3), Radio!Overtaken(v4))
      BY <1>2, <2>1, <2>3 DEF Radio!Report
    <3> QED  BY <1>1, <1>4, <3>1, LossEndsKeeps
  <2> QED  BY <2>2, <2>3
<1> QED  BY <1>5, <1>6

LEMMA LossesKeep ==
  ASSUME RadioInv,
         \/ Radio!DeviceEvent \/ Radio!HeartbeatFailed \/ Radio!RecorderStopped
         \/ \E ok \in BOOLEAN : Radio!LossReported(ok)
  PROVE  RadioInv'
<1> USE RadioFacts, RadioConsts
<1>1. CASE Radio!DeviceEvent  BY <1>1, DeviceLostKeeps DEF Radio!DeviceEvent
<1>2. CASE Radio!HeartbeatFailed  BY <1>2, DeviceLostKeeps DEF Radio!HeartbeatFailed
<1>3. CASE Radio!RecorderStopped
  <2>1. v6.at = "recorder" /\ Radio!Report(v2, v3, v4) /\ UNCHANGED <<v1, v5, v7, v8>>
    BY <1>3 DEF Radio!RecorderStopped
  <2>2. v9 \in BOOLEAN /\ v1 \in [Radio!Bursts -> BurstStates] /\ Granting(v1, v1)
        /\ v8 \subseteq v8 /\ v8 \in SUBSET Radio!Bursts
    BY DEF RadioTyped, Granting
  <2>3. CASE v2.token # 0 /\ v2.session
    <3>1. /\ v6' = [at |-> "report", floor |-> v2.token] /\ UNCHANGED <<v2, v3, v4>>
          /\ v9' = (v9 \/ v2.token # v6.floor)
      BY <2>1, <2>3 DEF Radio!Report
    <3>2. ASSUME ~v9' PROVE ~v9 /\ ~v2'.timer /\ v2'.rec = 0 /\ ~Talks(v3')
      <4>1. ~v9 /\ v2.token = v6.floor  BY <3>1, <3>2
      <4>2. FloorEnds(v4, v6, v2.token)  BY <4>1 DEF FloorEnds
      <4> QED  BY <2>3, <3>1, <4>1, <4>2 DEF RadioTalk
    <3>3. v9' \in BOOLEAN  BY <3>1
    <3> QED  BY <2>1, <3>1, <3>2, <3>3, LossBegins
  <2>4. CASE ~(v2.token # 0 /\ v2.session)
    <3>1. Radio!LossEnds(v2, v3, v4)  BY <2>1, <2>4 DEF Radio!Report
    <3>2. ~v9 => v2.token = 0  BY <2>4 DEF RadioTalk
    <3> QED  BY <2>1, <2>2, <3>1, <3>2, LossEndsKeeps
  <2> QED  BY <2>3, <2>4
<1>4. ASSUME NEW ok \in BOOLEAN, Radio!LossReported(ok) PROVE RadioInv'
  <2>1. /\ v1' = Radio!Released(v6.floor, ok, "suppressed") /\ v8' = Radio!GivenUp(v6.floor, ok)
        /\ Radio!LossEnds(v2, v3, v4) /\ UNCHANGED <<v5, v7>>
    BY <1>4 DEF Radio!LossReported
  <2>2. v6.floor \in FloorNumbers /\ v1 \in [Radio!Bursts -> BurstStates] /\ v8 \in SUBSET Radio!Bursts
    BY DEF Losses, RadioTyped
  <2>3. v1' \in [Radio!Bursts -> BurstStates] /\ Granting(v1, v1')
    BY <2>1, <2>2 DEF Radio!Released, BurstStates, Granting
  <2>4. v8 \subseteq v8' /\ v8' \in SUBSET Radio!Bursts
    BY <2>1, <2>2 DEF Radio!GivenUp
  <2>5. v6.floor # 0 => v1'[v6.floor] # "talking" \/ v6.floor \in v8'
    BY <2>1, <2>2 DEF Radio!Released, Radio!GivenUp, BurstStates
  <2> QED  BY <2>1, <2>3, <2>4, <2>5, LossEndsKeeps
<1> QED  BY <1>1, <1>2, <1>3, <1>4

-----------------------------------------------------------------------------
(* Leaving. *)

LEMMA LeaveKeeps ==
  ASSUME RadioInv, Radio!LeaveClicked \/ Radio!LeaveStopped \/ Radio!LeaveReplied PROVE RadioInv'
<1> USE RadioFacts, RadioConsts
<1> DEFINE q == [v2 EXCEPT !.rec = 0]
<1>0. /\ q \in RadioPages /\ q.token = v2.token /\ q.rec = 0 /\ q.timer = v2.timer /\ q.preparing = v2.preparing
      /\ q.radio = v2.radio /\ q.session = v2.session
  BY DEF RadioPages
<1>1. CASE Radio!LeaveClicked
  <2>1. UNCHANGED <<v1, v6, v7, v8, v9>> /\ v5 = "none" /\ v3' = Radio!Overtaken(v3)
    BY <1>1 DEF Radio!LeaveClicked
  <2>2. v3' \in RadioOps /\ v3'.at = v3.at /\ v3'.floor = v3.floor /\ ~Going(v3') /\ ~Starts(v3') /\ ~Talks(v3')
    BY <2>1, OpRows DEF Starts, Talks
  <2>3. CASE Radio!CanStop
    <3>1. /\ v4' = [Radio!NoOp EXCEPT !.at = "stop", !.floor = v2.token] /\ v5' = "stop"
          /\ v2' = [v2 EXCEPT !.stopping = TRUE, !.timer = FALSE, !.rec = 0]
      BY <1>1, <2>3 DEF Radio!LeaveClicked
    <3>2. v7' \in FloorNumbers /\ Known(v1, v7')  BY <2>1 DEF RadioTyped, RadioRows
    <3> QED  BY <2>1, <2>2, <2>3, <3>1, <3>2, StopBegins, StopBeginsAgain
  <2>4. CASE ~Radio!CanStop
    <3>0. /\ v4' = Radio!Overtaken(v4)
          /\ IF v4.at # "none" /\ v2.token # 0
             THEN v5' = "stop" /\ UNCHANGED v2
             ELSE v5' = "request" /\ v2' = [v2 EXCEPT !.rec = 0]
      BY <1>1, <2>4 DEF Radio!LeaveClicked
    <3>1. v4' = Radio!Overtaken(v4) /\ ((v5' = "stop" /\ v2' = v2) \/ (v5' = "request" /\ v2' = q))
      <4>1. CASE v4.at # "none" /\ v2.token # 0  BY <3>0, <4>1
      <4>2. CASE ~(v4.at # "none" /\ v2.token # 0)  BY <3>0, <4>2
      <4> QED  BY <4>1, <4>2
    <3> HIDE DEF q
    <3>2. v4' \in StopTasks /\ v4'.at = v4.at /\ v4'.floor = v4.floor  BY <3>1, StopRows
    <3>3. /\ v2' \in RadioPages /\ v2'.token = v2.token /\ v2'.rec \in {v2.rec, 0} /\ v2'.timer = v2.timer
          /\ v2'.radio = v2.radio /\ v2'.session = v2.session /\ (v5' = "request" => v2'.rec = 0)
      BY <1>0, <3>1
    <3>4. RadioTyped'  BY <2>1, <2>2, <3>1, <3>2, <3>3 DEF RadioTyped
    <3>5. RadioRows'  BY <2>1, <2>2, <3>2, <3>3 DEF RadioRows
    <3>6. ASSUME ~v9' PROVE RadioTalk(v2', v3', v4', v6', v7') /\ Held(v1', v2', v3', v8')
      <4>1. RadioTalk(v2, v3, v4, v6, v7) /\ Held(v1, v2, v3, v8)  BY <2>1, <3>6
      <4>2. Held(v1', v2', v3', v8')  BY <2>1, <2>2, <3>3, <4>1 DEF Held
      <4>3. RadioTalk(v2', v3', v4', v6', v7')  BY <2>1, <2>2, <3>2, <3>3, <4>1 DEF RadioTalk, FloorEnds
      <4> QED  BY <4>2, <4>3
    <3> QED  BY <3>4, <3>5, <3>6 DEF RadioInv
  <2> QED  BY <2>3, <2>4
<1>2. CASE Radio!LeaveStopped
  <2>1. UNCHANGED <<v1, v3, v4, v6, v7, v8, v9>> /\ v5 = "stop" /\ v5' = "request" /\ v2' = q
    BY <1>2 DEF Radio!LeaveStopped
  <2> HIDE DEF q
  <2>2. RadioTyped'  BY <1>0, <2>1 DEF RadioTyped
  <2>3. RadioRows'  BY <1>0, <2>1 DEF RadioRows
  <2>4. ASSUME ~v9' PROVE RadioTalk(v2', v3', v4', v6', v7') /\ Held(v1', v2', v3', v8')
    BY <1>0, <2>1, <2>4 DEF RadioTalk, Held
  <2> QED  BY <2>2, <2>3, <2>4 DEF RadioInv
<1>3. CASE Radio!LeaveReplied
  <2>1. /\ UNCHANGED <<v1, v6, v7, v9>> /\ v5 = "request" /\ v5' = "none" /\ v8' = v8 \cup ({v2.token} \ {0})
        /\ v3' = Radio!Stale(v3) /\ v4' = Radio!Stale(v4)
        /\ v2' = [v2 EXCEPT !.radio = FALSE, !.session = FALSE, !.token = 0, !.preparing = FALSE,
                            !.stopping = FALSE, !.lost = FALSE, !.room = "none", !.mic = FALSE, !.timer = FALSE]
    BY <1>3 DEF Radio!LeaveReplied
  <2>2. ~Going(v3) /\ v2.rec = 0  BY <2>1 DEF RadioRows
  <2>3. v3' \in RadioOps /\ v3'.at = v3.at /\ v3'.floor = v3.floor /\ ~Going(v3') /\ ~Starts(v3') /\ ~Talks(v3')
    BY <2>1, <2>2, OpRows DEF Going, Starts, Talks
  <2>4. v4' \in StopTasks /\ v4'.at = v4.at /\ v4'.floor = v4.floor  BY <2>1, StopRows
  <2>5. v2' \in RadioPages /\ v2'.token = 0 /\ v2'.rec = 0 /\ ~v2'.timer  BY <2>1, <2>2 DEF RadioPages
  <2>6. v2.token \in FloorNumbers  BY DEF RadioPages
  <2>7. RadioTyped'  BY <2>1, <2>3, <2>4, <2>5, <2>6 DEF RadioTyped
  <2>8. RadioRows'  BY <2>1, <2>3, <2>4, <2>5 DEF RadioRows, Known
  <2>9. ASSUME ~v9' PROVE RadioTalk(v2', v3', v4', v6', v7') /\ Held(v1', v2', v3', v8')
    <3>1. RadioTalk(v2', v3', v4', v6', v7')  BY <2>3, <2>5 DEF RadioTalk
    <3>2. Held(v1', v2', v3', v8')  BY <2>1, <2>3, <2>9 DEF Held
    <3> QED  BY <3>1, <3>2
  <2> QED  BY <2>7, <2>8, <2>9 DEF RadioInv
<1> QED  BY <1>1, <1>2, <1>3

LEMMA RadioSurfacesKeep == ASSUME RadioInv, Radio!SurfaceLeft \/ Radio!SurfaceEntered PROVE RadioInv'
<1> USE RadioFacts, RadioConsts
<1>1. UNCHANGED <<v1, v5, v6, v7, v8, v9>> /\ v3' = Radio!Stale(v3) /\ v4' = Radio!Stale(v4)
  BY DEF Radio!SurfaceLeft, Radio!SurfaceEntered
<1>2. /\ v3' \in RadioOps /\ v3'.at = v3.at /\ v3'.floor = v3.floor /\ (Going(v3') => Going(v3))
      /\ v4' \in StopTasks /\ v4'.at = v4.at /\ v4'.floor = v4.floor
  BY <1>1, OpRows, StopRows DEF Going
<1>3. /\ v2' \in RadioPages /\ v2'.token = v2.token /\ v2'.rec = v2.rec /\ v2'.timer = v2.timer
      /\ (~v2.preparing /\ v2.token = 0) \/ ~v2.radio
  <2>1. CASE Radio!SurfaceLeft
    BY <2>1 DEF Radio!SurfaceLeft, RadioPages
  <2>2. CASE Radio!SurfaceEntered
    <3>1. PICK s \in BOOLEAN : v2' = [v2 EXCEPT !.radio = TRUE, !.session = s, !.room = "none", !.mic = FALSE]
      BY <2>2 DEF Radio!SurfaceEntered
    <3> QED  BY <2>2, <3>1 DEF Radio!SurfaceEntered, RadioPages
  <2> QED  BY <2>1, <2>2
<1>4. RadioTyped'  BY <1>1, <1>2, <1>3 DEF RadioTyped
<1>5. RadioRows'  BY <1>1, <1>2, <1>3 DEF RadioRows
<1>6. ASSUME ~v9' PROVE RadioTalk(v2', v3', v4', v6', v7') /\ Held(v1', v2', v3', v8')
  <2>1. RadioTalk(v2, v3, v4, v6, v7) /\ Held(v1, v2, v3, v8)  BY <1>1, <1>6
  <2>2. ~Going(v3) /\ v2.token = 0 /\ v2.rec = 0 /\ ~v2.timer  BY <1>3, <2>1 DEF RadioTalk
  <2>3. RadioTalk(v2', v3', v4', v6', v7')  BY <1>2, <1>3, <2>2 DEF RadioTalk, Starts, Talks
  <2>4. Held(v1', v2', v3', v8')  BY <1>1, <1>2, <1>3, <2>1 DEF Held
  <2> QED  BY <2>3, <2>4
<1> QED  BY <1>4, <1>5, <1>6 DEF RadioInv

LEMMA RadioInitEstablishes == ASSUME Radio!Init PROVE RadioInv
<1>1. RadioTyped
  BY RadioConsts
  DEF Radio!Init, RadioTyped, BurstStates, RadioPages, RadioOps, StopTasks, Losses, Radio!OpStates
<1>2. RadioRows  BY DEF Radio!Init, RadioRows, Known, Going
<1>3. RadioTalk(v2, v3, v4, v6, v7)  BY DEF Radio!Init, RadioTalk, Going, Starts, Talks
<1>4. Held(v1, v2, v3, v8)  BY DEF Radio!Init, Held
<1> QED  BY <1>1, <1>2, <1>3, <1>4 DEF RadioInv

LEMMA RadioStepKeeps == ASSUME RadioInv, [Radio!Next]_Radio!vars PROVE RadioInv'
<1>1. CASE UNCHANGED Radio!vars
  BY <1>1 DEF Radio!vars, RadioInv, RadioTyped, RadioRows, Held
<1>2. CASE Radio!Next
  BY <1>2, JoinKeeps, TalkSteps, TalkConnectedKeeps, StartFailedKeeps, StopClickedKeeps, StopRepliedKeeps,
         ListenKeeps,
     ClicksBegin, FloorRepliedKeeps, HeartbeatKeeps, LossesKeep, LeaveKeeps, RadioSurfacesKeep
  DEF Radio!Next
<1> QED  BY <1>1, <1>2

RadioPart == which = "radio" => RadioInv

LEMMA RadioStart == Init => RadioPart
  BY PagesConstants, RadioInitEstablishes DEF Init, RadioPart

LEMMA RadioStep == RadioPart /\ [Next]_vars => RadioPart'
<1> SUFFICES ASSUME RadioPart, [Next]_vars PROVE RadioPart'
  OBVIOUS
<1>1. CASE which = "radio"
  <2>1. [Radio!Next]_Radio!vars  BY <1>1 DEF Next, vars, Step, Radio!vars
  <2>2. which' = "radio"  BY <1>1 DEF Next, vars, Step
  <2> QED  BY <1>1, <2>1, <2>2, PagesConstants, RadioStepKeeps DEF RadioPart
<1>2. CASE which # "radio"  BY <1>2 DEF Next, vars, Step, RadioPart
<1> QED  BY <1>1, <1>2


-----------------------------------------------------------------------------
(* The translation panel of a group's call or Radio. *)

PanelNumbers == 0 .. PanelChanges
PanelServers == [version : PanelNumbers, told : PanelNumbers, available : BOOLEAN]
PanelStates ==
  [shown : PanelNumbers, loaded : BOOLEAN, submitting : BOOLEAN, recording : BOOLEAN, intent : BOOLEAN,
   due : BOOLEAN, timer : BOOLEAN, attempts : 0 .. Convergence]
PanelOps == [at : {"none", "text", "profile", "recording", "upload", "served", "reload"}, load : 0 .. PanelLoads]
PanelReads == [at : {"none", "asked", "served"}, version : PanelNumbers, fresh : BOOLEAN, last : BOOLEAN]

PanelTyped ==
  /\ v1 \in PanelServers /\ v2 \in PanelStates /\ v3 \in PanelOps /\ v4 \in [Panel!Loads -> PanelReads]
  /\ v5 \in BOOLEAN

\* A read that counts has what the events told, or another is asked after it.
ReadsKnow(s, p, ls) ==
  \A n \in Panel!Loads : ls[n].at = "served" /\ ls[n].last /\ ls[n].fresh => ls[n].version >= s.told \/ p.intent

Waits(ls) == \E n \in Panel!Loads : ls[n].at # "none" /\ ls[n].last
Comes(ls) == \E n \in Panel!Loads : ls[n].at # "none" /\ ls[n].last /\ ls[n].fresh

\* What was told and is not shown is asked for, or will be by what holds it back.
ToldComes(s, p, o, ls, m) ==
  ~m => \/ p.shown >= s.told \/ p.due
        \/ p.intent /\ (p.submitting \/ p.recording \/ Waits(ls))
        \/ o.at \in {"recording", "upload", "served"} \/ Comes(ls)

PanelInv ==
  /\ PanelTyped /\ v1.told <= v1.version /\ (v3.at # "none" => v2.submitting)
  /\ ReadsKnow(v1, v2, v4) /\ ToldComes(v1, v2, v3, v4, v5)

LEMMA PanelBounds ==
  /\ PanelChanges \in Nat /\ PanelLoads \in Nat \ {0} /\ Convergence \in Nat /\ 0 \in PanelNumbers
  /\ Panel!NoLoad \in PanelReads /\ Panel!NoLoad.at = "none" /\ Panel!NoOp \in PanelOps /\ Panel!NoOp.at = "none"
  /\ Panel!NewPanel \in PanelStates /\ ~Panel!NewPanel.submitting
<1>1. PanelChanges \in Nat /\ PanelLoads \in Nat \ {0} /\ Convergence \in Nat
  BY PagesConstants DEF Panel!PanelAssumption
<1>2. 0 \in PanelNumbers  BY <1>1 DEF PanelNumbers
<1> QED
  BY <1>1, <1>2 DEF Panel!NoLoad, Panel!NoOp, Panel!NewPanel, PanelReads, PanelOps, PanelStates, PanelNumbers

\* A load of the panel's own, the last one.
LEMMA FirstLoad ==
  ASSUME NEW ls \in [Panel!Loads -> PanelReads], NEW n \in Panel!Loads, NEW js,
         js = [ls EXCEPT ![n] = [Panel!NoLoad EXCEPT !.at = "asked", !.fresh = TRUE, !.last = TRUE]],
         \A k \in Panel!Loads \ {n} : ls[k].at = "none" \/ ~ls[k].last
  PROVE  js \in [Panel!Loads -> PanelReads] /\ Comes(js) /\ \A k \in Panel!Loads : js[k].last => js[k].at # "served"
<1> DEFINE r == [Panel!NoLoad EXCEPT !.at = "asked", !.fresh = TRUE, !.last = TRUE]
<1>1. r \in PanelReads /\ r.at = "asked" /\ r.fresh /\ r.last  BY PanelBounds DEF PanelReads
<1>2. js = [ls EXCEPT ![n] = r]  OBVIOUS
<1> HIDE DEF r
<1>3. js \in [Panel!Loads -> PanelReads] /\ js[n] = r /\ \A k \in Panel!Loads \ {n} : js[k] = ls[k]  BY <1>1, <1>2
<1>4. \A k \in Panel!Loads : js[k].last => js[k].at # "served"  BY <1>1, <1>3
<1> QED  BY <1>1, <1>3, <1>4 DEF Comes

LEMMA BegunIs ==
  ASSUME PanelTyped, NEW n \in Panel!Loads
  PROVE  /\ Panel!Begun(n) \in [Panel!Loads -> PanelReads] /\ Comes(Panel!Begun(n))
         /\ \A k \in Panel!Loads : Panel!Begun(n)[k].last => Panel!Begun(n)[k].at # "served"
<1> DEFINE r == [Panel!NoLoad EXCEPT !.at = "asked", !.fresh = TRUE, !.last = TRUE]
           g(m) == [v4[m] EXCEPT !.last = FALSE]
           b == Panel!Begun(n)
<1>1. r \in PanelReads /\ r.at = "asked" /\ r.fresh /\ r.last  BY PanelBounds DEF PanelReads
<1>2. \A m \in Panel!Loads : g(m) \in PanelReads /\ ~g(m).last  BY DEF PanelTyped, PanelReads
<1>3. b = [m \in Panel!Loads |-> IF m = n THEN r ELSE g(m)]  BY DEF Panel!Begun
<1> HIDE DEF r, g, b
<1>4. b \in [Panel!Loads -> PanelReads] /\ b[n] = r /\ \A m \in Panel!Loads \ {n} : b[m] = g(m)  BY <1>1, <1>2, <1>3
<1>5. \A k \in Panel!Loads : b[k].last => b[k].at # "served"  BY <1>1, <1>2, <1>4
<1>6. Comes(b)  BY <1>1, <1>4 DEF Comes
<1> QED  BY <1>4, <1>5, <1>6 DEF b

LEMMA PanelInitEstablishes == ASSUME Panel!Init PROVE PanelInv
<1> DEFINE none == [n \in Panel!Loads |-> Panel!NoLoad]
<1>1. /\ v1 = [version |-> 0, told |-> 0, available |-> TRUE] /\ v2 = Panel!NewPanel /\ v3 = Panel!NoOp /\ v5 = FALSE
      /\ v4 = [none EXCEPT ![1] = [Panel!NoLoad EXCEPT !.at = "asked", !.fresh = TRUE, !.last = TRUE]]
  BY DEF Panel!Init
<1>2. none \in [Panel!Loads -> PanelReads] /\ \A k \in Panel!Loads : none[k].at = "none"  BY PanelBounds
<1>3. 1 \in Panel!Loads  BY PanelBounds DEF Panel!Loads
<1> HIDE DEF none
<1>4. v4 \in [Panel!Loads -> PanelReads] /\ Comes(v4) /\ \A k \in Panel!Loads : v4[k].last => v4[k].at # "served"
  BY <1>1, <1>2, <1>3, FirstLoad
<1>5. v1 \in PanelServers /\ v1.told = 0 /\ v1.version = 0  BY <1>1, PanelBounds DEF PanelServers
<1>6. PanelTyped  BY <1>1, <1>4, <1>5, PanelBounds DEF PanelTyped
<1>7. v3.at = "none" /\ v1.told <= v1.version  BY <1>1, <1>5, PanelBounds
<1>8. ReadsKnow(v1, v2, v4) /\ ToldComes(v1, v2, v3, v4, v5)  BY <1>4 DEF ReadsKnow, ToldComes
<1> QED  BY <1>6, <1>7, <1>8 DEF PanelInv

\* A load with the media, or none without.
LEMMA LoadWithIs ==
  ASSUME PanelTyped, NEW p \in PanelStates, NEW o \in PanelOps, Panel!LoadWith(p, o)
  PROVE  /\ v2' = p /\ v3' \in PanelOps /\ v4' \in [Panel!Loads -> PanelReads] /\ v5' \in BOOLEAN
         /\ v3'.at = o.at \/ v3'.at = "none"
         /\ \/ ~v1.available /\ v5' /\ v4' = v4 /\ (o.at = "reload" => v3'.at = "none")
            \/ Comes(v4') /\ \A k \in Panel!Loads : v4'[k].last => v4'[k].at # "served"
<1>1. CASE ~v1.available
  <2>1. v2' = p /\ v5' = TRUE /\ v4' = v4 /\ v3' = IF o.at = "reload" THEN Panel!NoOp ELSE o
    BY <1>1 DEF Panel!LoadWith
  <2> QED  BY <1>1, <2>1, PanelBounds DEF PanelTyped
<1>2. CASE v1.available
  <2>1. PICK n \in Panel!Loads :
          /\ v4' = Panel!Begun(n) /\ v2' = p /\ v5' = v5
          /\ v3' = IF o.at = "reload" THEN [o EXCEPT !.load = n] ELSE o
    BY <1>2 DEF Panel!LoadWith
  <2>2. n \in 0 .. PanelLoads  BY PanelBounds DEF Panel!Loads
  <2>3. [o EXCEPT !.load = n] \in PanelOps /\ [o EXCEPT !.load = n].at = o.at  BY <2>2 DEF PanelOps
  <2>4. v3' \in PanelOps /\ v3'.at = o.at  BY <2>1, <2>3
  <2>5. v5' \in BOOLEAN  BY <2>1 DEF PanelTyped
  <2> QED  BY <2>1, <2>4, <2>5, BegunIs
<1> QED  BY <1>1, <1>2

\* The load keeps the invariant: nothing that counts was read, or the intent stays as it was.
LEMMA LoadWithKeeps ==
  ASSUME PanelInv, NEW p \in PanelStates, NEW o \in PanelOps, Panel!LoadWith(p, o),
         v1' \in PanelServers, v1'.told <= v1'.version,
         o.at # "none" => p.submitting \/ (o.at = "reload" /\ ~v1.available),
         ~Waits(v4) \/ (v1'.told = v1.told /\ p.intent = v2.intent)
  PROVE  PanelInv'
<1>1. /\ v2' = p /\ v3' \in PanelOps /\ v4' \in [Panel!Loads -> PanelReads] /\ v5' \in BOOLEAN
      /\ v3'.at = o.at \/ v3'.at = "none"
      /\ \/ ~v1.available /\ v5' /\ v4' = v4 /\ (o.at = "reload" => v3'.at = "none")
         \/ Comes(v4') /\ \A k \in Panel!Loads : v4'[k].last => v4'[k].at # "served"
  BY LoadWithIs DEF PanelInv
<1>2. PanelTyped'  BY <1>1 DEF PanelTyped
<1>3. v3'.at # "none" => v2'.submitting
  <2>1. CASE p.submitting  BY <1>1, <2>1
  <2>2. CASE o.at = "reload" /\ ~v1.available
    <3>1. v3'.at = "none"
      <4>1. v1.available \in BOOLEAN  BY DEF PanelInv, PanelTyped, PanelServers
      <4>2. v3' = Panel!NoOp  BY <2>2 DEF Panel!LoadWith
      <4> QED  BY <4>2, PanelBounds
    <3> QED  BY <3>1
  <2> QED  BY <1>1, <2>1, <2>2
<1>4. ReadsKnow(v1', v2', v4')
  <2>1. CASE v4' = v4 /\ ~Waits(v4)  BY <2>1 DEF ReadsKnow, Waits
  <2>2. CASE v4' = v4 /\ v1'.told = v1.told /\ p.intent = v2.intent  BY <1>1, <2>2 DEF PanelInv, ReadsKnow
  <2>3. CASE \A k \in Panel!Loads : v4'[k].last => v4'[k].at # "served"  BY <2>3 DEF ReadsKnow
  <2> QED  BY <1>1, <2>1, <2>2, <2>3
<1>5. ToldComes(v1', v2', v3', v4', v5')  BY <1>1 DEF ToldComes
<1> QED  BY <1>2, <1>3, <1>4, <1>5 DEF PanelInv

\* requestHistoryRefresh.
LEMMA PanelRefreshKeeps ==
  ASSUME PanelInv, NEW p \in PanelStates, Panel!Refresh(p), v1' \in PanelServers, v1'.told <= v1'.version,
         p.submitting = v2.submitting, p.recording = v2.recording
  PROVE  PanelInv'
<1>1. CASE p.submitting \/ p.recording \/ Panel!Pending
  <2>1. v2' = [p EXCEPT !.intent = TRUE] /\ UNCHANGED <<v3, v4, v5>>  BY <1>1 DEF Panel!Refresh, Panel!Requested
  <2>2. v2' \in PanelStates /\ v2'.intent /\ v2'.submitting = p.submitting /\ v2'.recording = p.recording
    BY <2>1 DEF PanelStates
  <2>3. PanelTyped'  BY <2>1, <2>2 DEF PanelInv, PanelTyped
  <2>4. p.submitting \/ p.recording \/ Waits(v4)  BY <1>1 DEF Panel!Pending, Waits
  <2> QED  BY <2>1, <2>2, <2>3, <2>4 DEF PanelInv, ReadsKnow, ToldComes
<1>2. CASE ~(p.submitting \/ p.recording \/ Panel!Pending)
  <2> DEFINE q == [p EXCEPT !.intent = FALSE]
  <2>1. Panel!LoadWith(q, v3)  BY <1>2 DEF Panel!Refresh, Panel!Requested
  <2>2. q \in PanelStates /\ q.submitting = p.submitting  BY DEF PanelStates
  <2> HIDE DEF q
  <2>3. v3 \in PanelOps /\ (v3.at # "none" => v2.submitting)  BY DEF PanelInv, PanelTyped
  <2>4. ~Waits(v4)  BY <1>2 DEF Panel!Pending, Waits
  <2> QED  BY <2>1, <2>2, <2>3, <2>4, LoadWithKeeps
<1> QED  BY <1>1, <1>2

LEMMA RefreshesKeep ==
  ASSUME PanelInv, Panel!EventArrives \/ Panel!Microtask \/ Panel!ConvergenceDue \/ Panel!ControlChanged
  PROVE  PanelInv'
<1>1. v1 \in PanelServers /\ v2 \in PanelStates /\ v3 \in PanelOps /\ v1.told <= v1.version
      /\ v1.version \in PanelNumbers /\ v1.version <= v1.version /\ (v3.at # "none" => v2.submitting)
  BY PanelBounds DEF PanelInv, PanelTyped, PanelServers, PanelNumbers
<1>2. CASE Panel!EventArrives
  <2> DEFINE n == v1.version
  <2>1. v1' = [v1 EXCEPT !.told = n] /\ Panel!Refresh(v2)  BY <1>2 DEF Panel!EventArrives
  <2>2. n \in PanelNumbers /\ n = v1.version /\ n <= n  BY <1>1
  <2> HIDE DEF n
  <2>3. v1' \in PanelServers /\ v1'.told = n /\ v1'.version = v1.version  BY <1>1, <2>1, <2>2 DEF PanelServers
  <2> QED  BY <1>1, <2>1, <2>2, <2>3, PanelRefreshKeeps
<1>3. CASE Panel!Microtask
  <2> DEFINE p == [v2 EXCEPT !.due = FALSE]
  <2>1. Panel!Refresh(p) /\ v1' = v1  BY <1>3 DEF Panel!Microtask
  <2>2. p \in PanelStates /\ p.submitting = v2.submitting /\ p.recording = v2.recording  BY <1>1 DEF PanelStates
  <2> HIDE DEF p
  <2> QED  BY <1>1, <2>1, <2>2, PanelRefreshKeeps
<1>4. CASE Panel!ConvergenceDue
  <2> DEFINE p == [v2 EXCEPT !.timer = FALSE]
  <2>1. Panel!Refresh(p) /\ v1' = v1  BY <1>4 DEF Panel!ConvergenceDue
  <2>2. p \in PanelStates /\ p.submitting = v2.submitting /\ p.recording = v2.recording  BY <1>1 DEF PanelStates
  <2> HIDE DEF p
  <2> QED  BY <1>1, <2>1, <2>2, PanelRefreshKeeps
<1>5. CASE Panel!ControlChanged
  <2>1. Panel!LoadWith(v2, v3) /\ v1' = v1  BY <1>5 DEF Panel!ControlChanged
  <2> QED  BY <1>1, <2>1, LoadWithKeeps
<1> QED  BY <1>2, <1>3, <1>4, <1>5

\* A load is read, and its answer: what counts is shown, and what was asked meanwhile is due.
LEMMA PanelLoadServed == ASSUME PanelInv, NEW n \in Panel!Loads, Panel!LoadServed(n) PROVE PanelInv'
<1> DEFINE v == v1.version
           r == [v4[n] EXCEPT !.at = "served", !.version = v]
<1>1. v4' = [v4 EXCEPT ![n] = r] /\ UNCHANGED <<v1, v2, v3, v5>> /\ v4[n].at = "asked"  BY DEF Panel!LoadServed
<1>2. v4[n] \in PanelReads /\ v \in PanelNumbers /\ v1.told <= v  BY DEF PanelInv, PanelTyped, PanelServers
<1>3. v4 \in [Panel!Loads -> PanelReads]  BY DEF PanelInv, PanelTyped
<1> HIDE DEF v
<1>4. r \in PanelReads /\ r.at = "served" /\ r.version = v /\ r.last = v4[n].last /\ r.fresh = v4[n].fresh
  BY <1>2 DEF PanelReads
<1> HIDE DEF r
<1>5. v4' \in [Panel!Loads -> PanelReads] /\ v4'[n] = r /\ \A k \in Panel!Loads \ {n} : v4'[k] = v4[k]
  BY <1>1, <1>3, <1>4
<1>6. PanelTyped'  BY <1>1, <1>5 DEF PanelInv, PanelTyped
<1>7. v >= v1.told
  <2>1. v \in Nat /\ v1.told \in Nat  BY <1>2, PanelBounds DEF PanelInv, PanelTyped, PanelServers, PanelNumbers
  <2> QED  BY <1>2, <2>1
<1>8. ReadsKnow(v1', v2', v4')  BY <1>1, <1>4, <1>5, <1>7 DEF PanelInv, ReadsKnow
<1>9. (Waits(v4) => Waits(v4')) /\ (Comes(v4) => Comes(v4'))  BY <1>1, <1>4, <1>5 DEF Waits, Comes
<1>10. ToldComes(v1', v2', v3', v4', v5')  BY <1>1, <1>9 DEF PanelInv, ToldComes
<1> QED  BY <1>1, <1>6, <1>8, <1>10 DEF PanelInv

\* The end of a load, of an operation's as well.
LEMMA AfterIs ==
  ASSUME PanelInv, NEW p \in PanelStates, NEW n \in Panel!Loads, Panel!After(p, n), p.submitting = v2.submitting,
         p.recording = v2.recording, p.intent = v2.intent, p.due = v2.due
  PROVE  /\ v2' \in PanelStates /\ v3' \in PanelOps /\ v4' \in [Panel!Loads -> PanelReads]
         /\ v2'.shown = p.shown /\ v2'.intent = v2.intent /\ v2'.recording = v2.recording /\ (v2.due => v2'.due)
         /\ v2.intent => v2'.due \/ v2'.recording \/ v2'.submitting
         /\ v3'.at # "none" => v2'.submitting
         /\ v3' = v3 \/ (v3.at = "reload" /\ v3'.at = "none")
         /\ v4'[n].at = "none" /\ \A k \in Panel!Loads \ {n} : v4'[k] = v4[k]
<1> DEFINE over == v3.at = "reload" /\ v3.load = n
           sub == IF over THEN FALSE ELSE p.submitting
           q == IF over THEN [p EXCEPT !.submitting = FALSE] ELSE p
           due == q.due \/ (q.intent /\ ~q.recording /\ ~q.submitting)
           r == Panel!NoLoad
           o == Panel!NoOp
<1>1. /\ v2' = [q EXCEPT !.due = due] /\ v3' = (IF over THEN o ELSE v3) /\ v4' = [v4 EXCEPT ![n] = r]
  BY DEF Panel!After
<1>2. /\ p.submitting \in BOOLEAN /\ p.due \in BOOLEAN /\ p.intent \in BOOLEAN /\ p.recording \in BOOLEAN
      /\ v3 \in PanelOps /\ v4 \in [Panel!Loads -> PanelReads] /\ (v3.at # "none" => v2.submitting)
  BY DEF PanelStates, PanelInv, PanelTyped
<1>3. r \in PanelReads /\ r.at = "none" /\ o \in PanelOps /\ o.at = "none"  BY PanelBounds
<1>4. (over => v3.at = "reload") /\ sub = IF over THEN FALSE ELSE p.submitting  OBVIOUS
<1> HIDE DEF over, r, o
<1>5. q \in PanelStates /\ q.submitting = sub /\ q.due = p.due /\ q.intent = p.intent /\ q.recording = p.recording
      /\ q.shown = p.shown
  <2>1. CASE over  BY <2>1 DEF PanelStates
  <2>2. CASE ~over  BY <2>2
  <2> QED  BY <2>1, <2>2
<1>6. sub \in BOOLEAN  BY <1>2
<1> HIDE DEF q, sub
<1>7. due \in BOOLEAN /\ (p.due => due) /\ (p.intent => due \/ p.recording \/ sub)  BY <1>2, <1>5, <1>6
<1> HIDE DEF due
<1>8. v2' \in PanelStates /\ v2'.shown = q.shown /\ v2'.intent = q.intent /\ v2'.recording = q.recording
      /\ v2'.submitting = q.submitting /\ v2'.due = due
  BY <1>1, <1>5, <1>7 DEF PanelStates
<1>9. v4' \in [Panel!Loads -> PanelReads] /\ v4'[n] = r /\ \A k \in Panel!Loads \ {n} : v4'[k] = v4[k]
  BY <1>1, <1>2, <1>3
<1>10. v3' \in PanelOps /\ (v3' = v3 \/ (v3.at = "reload" /\ v3'.at = "none"))  BY <1>1, <1>2, <1>3, <1>4
<1>11. v3'.at # "none" => v2'.submitting
  <2>1. CASE over  BY <1>1, <1>3, <2>1
  <2>2. CASE ~over  BY <1>1, <1>2, <1>4, <1>5, <1>8, <2>2
  <2> QED  BY <2>1, <2>2
<1> QED  BY <1>3, <1>5, <1>7, <1>8, <1>9, <1>10, <1>11

\* A load that did not count leaves what was told to what it was left to.
LEMMA AfterKeeps ==
  ASSUME PanelInv, NEW n \in Panel!Loads, Panel!After(v2, n), v1' = v1, v5' \in BOOLEAN,
         ~v5' => ~v5 /\ (v4[n].at = "none" \/ ~v4[n].last \/ ~v4[n].fresh)
  PROVE  PanelInv'
<1>1. v2 \in PanelStates  BY DEF PanelInv, PanelTyped
<1>2. /\ v2' \in PanelStates /\ v3' \in PanelOps /\ v4' \in [Panel!Loads -> PanelReads]
      /\ v2'.shown = v2.shown /\ v2'.intent = v2.intent /\ v2'.recording = v2.recording /\ (v2.due => v2'.due)
      /\ v2.intent => v2'.due \/ v2'.recording \/ v2'.submitting
      /\ v3'.at # "none" => v2'.submitting
      /\ v3' = v3 \/ (v3.at = "reload" /\ v3'.at = "none")
      /\ v4'[n].at = "none" /\ \A k \in Panel!Loads \ {n} : v4'[k] = v4[k]
  BY <1>1, AfterIs
<1>3. PanelTyped'  BY <1>2 DEF PanelInv, PanelTyped
<1>4. ReadsKnow(v1', v2', v4')
  <2>1. SUFFICES ASSUME NEW k \in Panel!Loads, v4'[k].at = "served", v4'[k].last, v4'[k].fresh
                 PROVE  v4'[k].version >= v1.told \/ v2'.intent
    BY DEF ReadsKnow
  <2>2. k # n /\ v4'[k] = v4[k]  BY <1>2, <2>1
  <2> QED  BY <1>2, <2>1, <2>2 DEF PanelInv, ReadsKnow
<1>5. ToldComes(v1', v2', v3', v4', v5')
  <2>1. SUFFICES ASSUME ~v5'
                 PROVE  \/ v2'.shown >= v1.told \/ v2'.due
                        \/ v2'.intent /\ (v2'.submitting \/ v2'.recording \/ Waits(v4'))
                        \/ v3'.at \in {"recording", "upload", "served"} \/ Comes(v4')
    BY DEF ToldComes
  <2>2. Comes(v4) => Comes(v4')  BY <1>2, <2>1 DEF Comes
  <2>3. \/ v2.shown >= v1.told \/ v2.due \/ v2.intent \/ v3.at \in {"recording", "upload", "served"} \/ Comes(v4)
    BY <2>1 DEF PanelInv, ToldComes
  <2> QED  BY <1>2, <2>2, <2>3
<1> QED  BY <1>2, <1>3, <1>4, <1>5 DEF PanelInv

LEMMA PanelLoadFailed == ASSUME PanelInv, NEW n \in Panel!Loads, Panel!LoadFailed(n) PROVE PanelInv'
<1> DEFINE last == v4[n].last
<1>1. Panel!After(v2, n) /\ v1' = v1 /\ v5' = (v5 \/ last)  BY DEF Panel!LoadFailed
<1>2. v5 \in BOOLEAN /\ last \in BOOLEAN  BY DEF PanelInv, PanelTyped, PanelReads
<1>3. v5' \in BOOLEAN /\ (~v5' => ~v5 /\ ~last)  BY <1>1, <1>2
<1> QED  BY <1>1, <1>3, AfterKeeps

LEMMA PanelLoadReplied ==
  ASSUME PanelInv, NEW n \in Panel!Loads, NEW processing \in BOOLEAN, Panel!LoadReplied(n, processing)
  PROVE  PanelInv'
<1> DEFINE counts == v4[n].fresh /\ v4[n].last
           missed == v5 /\ ~counts
<1>1. v1' = v1 /\ v5' = missed /\ v4[n].at = "served"  BY DEF Panel!LoadReplied
<1>2. v5 \in BOOLEAN /\ v4[n] \in PanelReads /\ v4[n].fresh \in BOOLEAN /\ v4[n].last \in BOOLEAN /\ v2 \in PanelStates
      /\ v4[n].version \in PanelNumbers
  BY DEF PanelInv, PanelTyped, PanelReads
<1>3. v5' \in BOOLEAN /\ (~counts => v5' = v5)  BY <1>1, <1>2
<1>4. CASE ~counts
  <2>1. Panel!After(v2, n)  BY <1>4 DEF Panel!LoadReplied
  <2> QED  BY <1>1, <1>3, <1>4, <2>1, AfterKeeps
<1>5. CASE counts
  <2> DEFINE p == Panel!Shown(n, processing)
             again == processing /\ v2.attempts < Convergence
             many == IF again THEN v2.attempts + 1 ELSE IF processing THEN v2.attempts ELSE 0
             version == v4[n].version
  <2>1. Panel!After(p, n)  BY <1>5 DEF Panel!LoadReplied
  <2>2. p = [v2 EXCEPT !.shown = version, !.loaded = TRUE, !.timer = again, !.attempts = many]  BY DEF Panel!Shown
  <2>3. v2.attempts \in 0 .. Convergence /\ again \in BOOLEAN /\ version \in PanelNumbers
    BY <1>2 DEF PanelStates
  <2>4. many \in 0 .. Convergence  BY <2>3, PanelBounds
  <2>5. version >= v1.told \/ v2.intent  BY <1>1, <1>5 DEF PanelInv, ReadsKnow
  <2> HIDE DEF p, again, many, version
  <2>6. p \in PanelStates /\ p.shown = version /\ p.submitting = v2.submitting /\ p.recording = v2.recording
        /\ p.intent = v2.intent /\ p.due = v2.due
    BY <1>2, <2>2, <2>3, <2>4 DEF PanelStates
  <2>7. /\ v2' \in PanelStates /\ v3' \in PanelOps /\ v4' \in [Panel!Loads -> PanelReads]
        /\ v2'.shown = p.shown /\ v2'.intent = v2.intent /\ v2'.recording = v2.recording /\ (v2.due => v2'.due)
        /\ v2.intent => v2'.due \/ v2'.recording \/ v2'.submitting
        /\ v3'.at # "none" => v2'.submitting
        /\ v3' = v3 \/ (v3.at = "reload" /\ v3'.at = "none")
        /\ v4'[n].at = "none" /\ \A k \in Panel!Loads \ {n} : v4'[k] = v4[k]
    BY <2>1, <2>6, AfterIs
  <2>8. PanelTyped'  BY <1>1, <1>3, <2>7 DEF PanelInv, PanelTyped
  <2>9. ReadsKnow(v1', v2', v4')
    <3>1. SUFFICES ASSUME NEW k \in Panel!Loads, v4'[k].at = "served", v4'[k].last, v4'[k].fresh
                   PROVE  v4'[k].version >= v1.told \/ v2'.intent
      BY <1>1 DEF ReadsKnow
    <3>2. k # n /\ v4'[k] = v4[k]  BY <2>7, <3>1
    <3> QED  BY <2>7, <3>1, <3>2 DEF PanelInv, ReadsKnow
  <2>10. ToldComes(v1', v2', v3', v4', v5')
    <3>1. v2'.shown >= v1.told \/ v2'.intent  BY <2>5, <2>6, <2>7
    <3> QED  BY <1>1, <2>7, <3>1 DEF ToldComes
  <2> QED  BY <1>1, <2>7, <2>8, <2>9, <2>10 DEF PanelInv
<1> QED  BY <1>4, <1>5

\* An operation begins and moves on; the loads stay as they are.
LEMMA OpStepKeeps ==
  ASSUME PanelInv, UNCHANGED <<v1, v4>>, v2' \in PanelStates, v3' \in PanelOps, v5' \in BOOLEAN,
         v2'.shown = v2.shown, v2'.intent = v2.intent, v3'.at # "none" => v2'.submitting,
         ~v5' => /\ ~v5 /\ (v2.due => v2'.due)
                 /\ \/ v3'.at \in {"recording", "upload", "served"}
                    \/ /\ v3.at \notin {"recording", "upload", "served"}
                       /\ v2.intent => v2'.due \/ ((v2.submitting => v2'.submitting) /\ (v2.recording => v2'.recording))
  PROVE  PanelInv'
<1>1. PanelTyped'  BY DEF PanelInv, PanelTyped
<1>2. ReadsKnow(v1', v2', v4')  BY DEF PanelInv, ReadsKnow
<1>3. ToldComes(v1', v2', v3', v4', v5')  BY DEF PanelInv, ToldComes
<1> QED  BY <1>1, <1>2, <1>3 DEF PanelInv

LEMMA PanelClicksBegin ==
  ASSUME PanelInv, Panel!SendClicked \/ Panel!RetryClicked \/ Panel!RecordClicked
  PROVE  PanelInv'
<1>1. PICK at \in {"text", "profile"} : Panel!Busy(at) /\ Panel!Idle /\ UNCHANGED <<v1, v4, v5>>
  BY DEF Panel!SendClicked, Panel!RetryClicked, Panel!RecordClicked
<1>2. v2 \in PanelStates /\ v5 \in BOOLEAN /\ (v3.at # "none" => v2.submitting)  BY DEF PanelInv, PanelTyped
<1>3. v2' = [v2 EXCEPT !.submitting = TRUE] /\ v3' = [Panel!NoOp EXCEPT !.at = at]  BY <1>1 DEF Panel!Busy
<1>4. v2' \in PanelStates /\ v2'.submitting /\ v2'.shown = v2.shown /\ v2'.intent = v2.intent /\ v2'.due = v2.due
      /\ v2'.recording = v2.recording
  BY <1>2, <1>3 DEF PanelStates
<1>5. v3' \in PanelOps
  <2> DEFINE o == Panel!NoOp
  <2>1. o \in PanelOps /\ v3' = [o EXCEPT !.at = at] /\ at \in {"text", "profile"}  BY <1>3, PanelBounds
  <2> HIDE DEF o
  <2> QED  BY <2>1 DEF PanelOps
<1>6. v3.at = "none"  BY <1>1, <1>2 DEF Panel!Idle
<1> QED  BY <1>1, <1>2, <1>4, <1>5, <1>6, OpStepKeeps

LEMMA PanelRecordingKeeps ==
  ASSUME PanelInv, Panel!RecordingStarts \/ Panel!RecordingStops \/ Panel!RecordingFails
  PROVE  PanelInv'
<1>1. v2 \in PanelStates /\ v3 \in PanelOps /\ v5 \in BOOLEAN /\ (v3.at # "none" => v2.submitting)
      /\ v4 \in [Panel!Loads -> PanelReads]
  BY DEF PanelInv, PanelTyped
<1>2. CASE Panel!RecordingStarts
  <2> DEFINE g(n) == [v4[n] EXCEPT !.fresh = FALSE]
  <2>1. /\ v2' = [v2 EXCEPT !.recording = TRUE] /\ v3' = [v3 EXCEPT !.at = "recording"]
        /\ v4' = [n \in Panel!Loads |-> g(n)] /\ UNCHANGED <<v1, v5>> /\ v3.at = "profile"
    BY <1>2 DEF Panel!RecordingStarts
  <2>2. v2' \in PanelStates /\ v2'.submitting = v2.submitting  BY <1>1, <2>1 DEF PanelStates
  <2>3. v3' \in PanelOps /\ v3'.at = "recording"  BY <1>1, <2>1 DEF PanelOps
  <2>4. \A n \in Panel!Loads : g(n) \in PanelReads /\ ~g(n).fresh  BY <1>1 DEF PanelReads
  <2> HIDE DEF g
  <2>5. v4' \in [Panel!Loads -> PanelReads] /\ \A n \in Panel!Loads : ~v4'[n].fresh  BY <2>1, <2>4
  <2>6. PanelTyped'  BY <2>1, <2>2, <2>3, <2>5 DEF PanelInv, PanelTyped
  <2>7. ReadsKnow(v1', v2', v4') /\ ToldComes(v1', v2', v3', v4', v5')  BY <2>3, <2>5 DEF ReadsKnow, ToldComes
  <2> QED  BY <1>1, <2>1, <2>2, <2>6, <2>7 DEF PanelInv
<1>3. CASE Panel!RecordingStops
  <2>1. /\ v2' = [v2 EXCEPT !.recording = FALSE] /\ v3' = [v3 EXCEPT !.at = "upload"] /\ UNCHANGED <<v1, v4, v5>>
        /\ v3.at = "recording"
    BY <1>3 DEF Panel!RecordingStops
  <2>2. v2' \in PanelStates /\ v2'.submitting = v2.submitting /\ v2'.shown = v2.shown /\ v2'.intent = v2.intent
        /\ v2'.due = v2.due
    BY <1>1, <2>1 DEF PanelStates
  <2>3. v3' \in PanelOps /\ v3'.at = "upload"  BY <1>1, <2>1 DEF PanelOps
  <2> QED  BY <1>1, <2>1, <2>2, <2>3, OpStepKeeps
<1>4. CASE Panel!RecordingFails
  <2>1. /\ v2' = [v2 EXCEPT !.recording = FALSE, !.submitting = FALSE] /\ v3' = Panel!NoOp /\ v5' = TRUE
        /\ UNCHANGED <<v1, v4>>
    BY <1>4 DEF Panel!RecordingFails
  <2>2. v2' \in PanelStates /\ v2'.shown = v2.shown /\ v2'.intent = v2.intent  BY <1>1, <2>1 DEF PanelStates
  <2> QED  BY <2>1, <2>2, PanelBounds, OpStepKeeps
<1> QED  BY <1>2, <1>3, <1>4

\* The server's history grows.
LEMMA ServerGrows ==
  ASSUME PanelTyped, v1.told <= v1.version, v1.version < PanelChanges, v1' = [v1 EXCEPT !.version = v1.version + 1]
  PROVE  v1' \in PanelServers /\ v1'.told = v1.told /\ v1'.told <= v1'.version
<1> DEFINE n == v1.version + 1
<1>1. v1 \in PanelServers /\ v1.version \in 0 .. PanelChanges /\ v1.told \in 0 .. PanelChanges
  BY DEF PanelTyped, PanelServers, PanelNumbers
<1>2. n \in PanelNumbers /\ v1.told <= n  BY <1>1, PanelBounds DEF PanelNumbers
<1>3. v1' = [v1 EXCEPT !.version = n]  OBVIOUS
<1> HIDE DEF n
<1>4. v1' \in PanelServers /\ v1'.told = v1.told /\ v1'.version = n  BY <1>1, <1>2, <1>3 DEF PanelServers
<1> QED  BY <1>2, <1>4

LEMMA ServerStepsKeep == ASSUME PanelInv, Panel!Change \/ Panel!OpServed PROVE PanelInv'
<1>1. v1.version < PanelChanges /\ v1' = [v1 EXCEPT !.version = v1.version + 1] /\ UNCHANGED <<v2, v4, v5>>
  BY DEF Panel!Change, Panel!OpServed
<1>2. v1' \in PanelServers /\ v1'.told = v1.told /\ v1'.told <= v1'.version  BY <1>1, ServerGrows DEF PanelInv
<1>3. v3 \in PanelOps /\ (v3.at # "none" => v2.submitting)  BY DEF PanelInv, PanelTyped
<1>4. v3' \in PanelOps /\ (v3' = v3 \/ (v3.at # "none" /\ v3'.at = "served"))
  <2>1. CASE Panel!Change  BY <1>3, <2>1 DEF Panel!Change
  <2>2. CASE Panel!OpServed
    <3>1. v3' = [v3 EXCEPT !.at = "served"] /\ v3.at # "none"  BY <2>2 DEF Panel!OpServed
    <3> QED  BY <1>3, <3>1 DEF PanelOps
  <2> QED  BY <2>1, <2>2
<1>5. PanelTyped'  BY <1>1, <1>2, <1>4 DEF PanelInv, PanelTyped
<1>6. ReadsKnow(v1', v2', v4')  BY <1>1, <1>2 DEF PanelInv, ReadsKnow
<1>7. ToldComes(v1', v2', v3', v4', v5')  BY <1>1, <1>2, <1>4 DEF PanelInv, ToldComes
<1> QED  BY <1>1, <1>2, <1>3, <1>4, <1>5, <1>6, <1>7 DEF PanelInv

LEMMA OpEndsKeep == ASSUME PanelInv, Panel!OpReplied \/ Panel!OpFails PROVE PanelInv'
<1>1. /\ v1 \in PanelServers /\ v2 \in PanelStates /\ v3 \in PanelOps /\ v5 \in BOOLEAN /\ v1.told <= v1.version
      /\ v3.at # "none" => v2.submitting
      /\ v2.due \in BOOLEAN /\ v2.intent \in BOOLEAN
  BY DEF PanelInv, PanelTyped, PanelStates
<1> DEFINE due == v2.due \/ v2.intent
           p == [v2 EXCEPT !.submitting = FALSE, !.due = due]
           o == [v3 EXCEPT !.at = "reload"]
<1>2. due \in BOOLEAN /\ (v2.due => due) /\ (v2.intent => due)  BY <1>1
<1> HIDE DEF due
<1>3. p \in PanelStates /\ p.shown = v2.shown /\ p.intent = v2.intent /\ p.due = due  BY <1>1, <1>2 DEF PanelStates
<1>4. o \in PanelOps /\ o.at = "reload"  BY <1>1 DEF PanelOps
<1>5. CASE Panel!OpReplied
  <2>1. v1' = v1 /\ v3.at = "served"  BY <1>5 DEF Panel!OpReplied
  <2>2. CASE v1.available
    <3>1. Panel!LoadWith(v2, o)  BY <1>5, <2>2 DEF Panel!OpReplied
    <3> HIDE DEF o
    <3> QED  BY <1>1, <1>4, <2>1, <3>1, LoadWithKeeps
  <2>3. CASE ~v1.available
    <3>1. Panel!LoadWith(p, o)  BY <1>5, <2>3 DEF Panel!OpReplied, due
    <3> HIDE DEF o, p
    <3> QED  BY <1>1, <1>3, <1>4, <2>1, <2>3, <3>1, LoadWithKeeps
  <2> QED  BY <2>2, <2>3
<1>6. CASE Panel!OpFails
  <2> DEFINE m == v5 \/ v3.at = "upload" \/ v3.at = "served"
  <2>1. v2' = p /\ v3' = Panel!NoOp /\ v5' = m /\ UNCHANGED <<v1, v4>> /\ v3.at \in {"text", "upload", "served"}
    BY <1>6 DEF Panel!OpFails, due
  <2>2. m \in BOOLEAN /\ (~m => ~v5 /\ v3.at # "upload" /\ v3.at # "served")  BY <1>1
  <2> HIDE DEF m, p
  <2>3. v3.at \notin {"recording", "upload", "served"} \/ m  BY <2>1, <2>2
  <2> QED  BY <1>2, <1>3, <2>1, <2>2, <2>3, PanelBounds, OpStepKeeps
<1> QED  BY <1>5, <1>6

\* A new panel, which has nothing under way but perhaps its first load.
LEMMA MountsKeep ==
  ASSUME PanelInv, Panel!Remounted \/ \E available \in BOOLEAN : Panel!Rendered(available)
  PROVE  PanelInv'
<1> DEFINE none == [n \in Panel!Loads |-> Panel!NoLoad]
<1>1. none \in [Panel!Loads -> PanelReads] /\ \A k \in Panel!Loads : none[k].at = "none"  BY PanelBounds
<1>2. 1 \in Panel!Loads  BY PanelBounds DEF Panel!Loads
<1>3. v1 \in PanelServers /\ v3.at # "none" => v2.submitting  BY DEF PanelInv, PanelTyped
<1>4. CASE Panel!Remounted
  <2>1. /\ v2' = Panel!NewPanel /\ v3' = Panel!NoOp /\ v5' = FALSE /\ v1' = v1
        /\ v4' = [none EXCEPT ![1] = [Panel!NoLoad EXCEPT !.at = "asked", !.fresh = TRUE, !.last = TRUE]]
    BY <1>4 DEF Panel!Remounted
  <2> HIDE DEF none
  <2>2. v4' \in [Panel!Loads -> PanelReads] /\ Comes(v4') /\ \A k \in Panel!Loads : v4'[k].last => v4'[k].at # "served"
    BY <1>1, <1>2, <2>1, FirstLoad
  <2>3. PanelTyped'  BY <2>1, <2>2, PanelBounds DEF PanelInv, PanelTyped
  <2>4. v3'.at = "none"  BY <2>1, PanelBounds
  <2>5. ReadsKnow(v1', v2', v4') /\ ToldComes(v1', v2', v3', v4', v5')  BY <2>2 DEF ReadsKnow, ToldComes
  <2> QED  BY <2>1, <2>3, <2>4, <2>5 DEF PanelInv
<1>5. ASSUME NEW available \in BOOLEAN, Panel!Rendered(available) PROVE PanelInv'
  <2>1. v1' = [v1 EXCEPT !.available = available]  BY <1>5 DEF Panel!Rendered
  <2>2. v1' \in PanelServers /\ v1'.told = v1.told /\ v1'.version = v1.version
    BY <2>1 DEF PanelInv, PanelTyped, PanelServers
  <2>3. CASE ~available /\ v2.submitting
    <3>1. v2' = Panel!NewPanel /\ v3' = Panel!NoOp /\ v5' = TRUE /\ v4' = none
      BY <1>5, <2>3 DEF Panel!Rendered, Panel!Disposed
    <3> HIDE DEF none
    <3>2. PanelTyped'  BY <1>1, <2>2, <3>1, PanelBounds DEF PanelTyped
    <3>3. v3'.at = "none"  BY <3>1, PanelBounds
    <3>4. ReadsKnow(v1', v2', v4')  BY <1>1, <3>1 DEF ReadsKnow
    <3>5. ToldComes(v1', v2', v3', v4', v5')  BY <3>1 DEF ToldComes
    <3> QED  BY <2>2, <3>2, <3>3, <3>4, <3>5 DEF PanelInv
  <2>4. CASE ~(~available /\ v2.submitting) /\ available /\ ~v2.loaded /\ ~Panel!Pending
    <3>1. PICK n \in Panel!Loads : v4' = Panel!Begun(n) /\ UNCHANGED <<v2, v3, v5>>
      BY <1>5, <2>4 DEF Panel!Rendered
    <3>2. v4' \in [Panel!Loads -> PanelReads] /\ Comes(v4') /\ \A k \in Panel!Loads : v4'[k].last => v4'[k].at # "served"
      BY <3>1, BegunIs DEF PanelInv
    <3>3. PanelTyped'  BY <2>2, <3>1, <3>2 DEF PanelInv, PanelTyped
    <3>4. ReadsKnow(v1', v2', v4') /\ ToldComes(v1', v2', v3', v4', v5')  BY <3>2 DEF ReadsKnow, ToldComes
    <3> QED  BY <2>2, <3>1, <3>3, <3>4 DEF PanelInv
  <2>5. CASE ~(~available /\ v2.submitting) /\ ~(available /\ ~v2.loaded /\ ~Panel!Pending)
    <3>1. UNCHANGED <<v2, v3, v4, v5>>  BY <1>5, <2>5 DEF Panel!Rendered
    <3> QED  BY <2>2, <3>1 DEF PanelInv, PanelTyped, ReadsKnow, ToldComes
  <2> QED  BY <2>3, <2>4, <2>5
<1> QED  BY <1>4, <1>5

LEMMA PanelStepKeeps == ASSUME PanelInv, Panel!Next \/ UNCHANGED <<v1, v2, v3, v4, v5>> PROVE PanelInv'
<1>1. CASE UNCHANGED <<v1, v2, v3, v4, v5>>  BY <1>1 DEF PanelInv, PanelTyped
<1>2. CASE Panel!Next
  <2>1. ASSUME NEW n \in Panel!Loads,
               \/ Panel!LoadServed(n) \/ Panel!LoadFailed(n)
               \/ \E processing \in BOOLEAN : Panel!LoadReplied(n, processing)
        PROVE  PanelInv'
    BY <2>1, PanelLoadServed, PanelLoadFailed, PanelLoadReplied
  <2>2. CASE Panel!EventArrives \/ Panel!Microtask \/ Panel!ConvergenceDue \/ Panel!ControlChanged
    BY <2>2, RefreshesKeep
  <2>3. CASE Panel!SendClicked \/ Panel!RetryClicked \/ Panel!RecordClicked  BY <2>3, PanelClicksBegin
  <2>4. CASE Panel!RecordingStarts \/ Panel!RecordingStops \/ Panel!RecordingFails  BY <2>4, PanelRecordingKeeps
  <2>5. CASE Panel!Change \/ Panel!OpServed  BY <2>5, ServerStepsKeep
  <2>6. CASE Panel!OpReplied \/ Panel!OpFails  BY <2>6, OpEndsKeep
  <2>7. CASE Panel!Remounted \/ \E available \in BOOLEAN : Panel!Rendered(available)  BY <2>7, MountsKeep
  <2> QED  BY <1>2, <2>1, <2>2, <2>3, <2>4, <2>5, <2>6, <2>7 DEF Panel!Next
<1> QED  BY <1>1, <1>2

LEMMA PanelIs == ASSUME PanelInv PROVE Panel!TypeOK /\ Panel!ToldIsShown
<1>1. Panel!TypeOK
  BY DEF PanelInv, PanelTyped, Panel!TypeOK, PanelServers, PanelStates, PanelOps, PanelReads, PanelNumbers
<1>2. Comes(v4) => Panel!Pending  BY DEF Comes, Panel!Pending
<1>3. Waits(v4) => Panel!Pending  BY DEF Waits, Panel!Pending
<1> QED  BY <1>1, <1>2, <1>3 DEF PanelInv, ToldComes, Panel!ToldIsShown, Panel!Idle

PanelPart == which = "panel" => PanelInv

LEMMA PanelStart == Init => PanelPart
  BY PagesConstants, PanelInitEstablishes DEF Init, PanelPart

LEMMA PanelStep == PanelPart /\ [Next]_vars => PanelPart'
<1> SUFFICES ASSUME PanelPart, [Next]_vars PROVE PanelPart'
  OBVIOUS
<1>1. CASE which = "panel"
  <2>1. Panel!Next \/ UNCHANGED <<v1, v2, v3, v4, v5>>
    BY <1>1 DEF Next, vars, Step, Panel!vars
  <2>2. which' = "panel"  BY <1>1 DEF Next, vars, Step
  <2> QED  BY <1>1, <2>1, <2>2, PagesConstants, PanelStepKeeps DEF PanelPart
<1>2. CASE which # "panel"  BY <1>2 DEF Next, vars, Step, PanelPart
<1> QED  BY <1>1, <1>2


-----------------------------------------------------------------------------
(* A group's own data: its messages, the stream of its events and the refreshes. *)

SpaceNames == Convs \cup {None}
SpaceNumbers == 0 .. SpaceChanges
SpaceServers == [mine : SUBSET Convs, log : [Convs -> SpaceNumbers]]
SpacePages == [space : SpaceNames, of : SpaceNames, ver : SpaceNumbers, busy : BOOLEAN, queued : BOOLEAN, wrong : BOOLEAN]
SpaceStreams == [source : SpaceNames, up : BOOLEAN, mail : BOOLEAN, pending : SpaceNames, timer : SpaceNames]
SpaceKinds == {"none", "open"} \cup Space!Busy \cup Space!Listing \cup Space!Changing
SpaceOps == [at : {"none", "act", "list", "space", "read", "rest"}, kind : SpaceKinds, want : SpaceNames, of : SpaceNames,
             ver : SpaceNumbers]

SpaceTyped ==
  /\ v1 \in SpaceServers /\ v2 \in SpacePages /\ v3 \in SpaceStreams /\ v4 \in [Space!Ops -> SpaceOps]

\* What was read is no newer than the space; a change is of a space there is.
OpIsOf(s, o) ==
  /\ o.at = "read" => o.of \in Convs /\ o.ver <= s.log[o.of]
  /\ o.at = "act" /\ o.kind \in {"create", "decide"} => o.want \in Convs
  /\ o.at = "act" /\ o.kind \notin {"select", "create", "decide", "delete"} => o.of \in Convs

\* An operation that will show the selected space as it is now, or something wrong.
WillShow(s, p, o) ==
  \/ o.at \in {"list", "space"}
  \/ o.at = "read" /\ (o.of # p.space \/ o.ver = s.log[o.of])

\* A refresh of the selected space waits for the timer or for the page.
RefreshWaits(p, e) == e.pending = p.space /\ (e.timer # None \/ p.busy)

\* While the selected space's stream is open, its last change is shown or comes.
ChangeComes(s, p, e, os) ==
  ~p.wrong /\ p.space # None /\ e.source = p.space /\ e.up /\ ~e.mail /\ ~RefreshWaits(p, e) =>
    \/ p.of = p.space /\ p.ver = s.log[p.space]
    \/ \E o \in Space!Ops : WillShow(s, p, os[o])

SpaceInv == SpaceTyped /\ (\A o \in Space!Ops : OpIsOf(v1, v4[o])) /\ ChangeComes(v1, v2, v3, v4)

LEMMA SpaceBounds ==
  /\ None \notin Convs /\ SpaceChanges \in Nat /\ SpaceLoads \in Nat \ {0} /\ 0 \in SpaceNumbers
  /\ Space!NoOp \in SpaceOps /\ Space!NoOp.at = "none"
  /\ Space!Closed \in SpaceStreams /\ Space!Closed.source = None
<1>1. None \notin Convs /\ SpaceChanges \in Nat /\ SpaceLoads \in Nat \ {0}
  BY PagesConstants DEF Space!EventsAssumption
<1>2. 0 \in SpaceNumbers  BY <1>1 DEF SpaceNumbers
<1> QED
  BY <1>1, <1>2 DEF Space!NoOp, Space!Closed, SpaceOps, SpaceStreams, SpaceNames, SpaceKinds

LEMMA SpaceInitEstablishes == ASSUME Space!Init PROVE SpaceInv
<1> DEFINE log == [s \in Convs |-> 0]
           r == [Space!NoOp EXCEPT !.at = "list", !.kind = "refresh"]
<1>1. PICK mine \in SUBSET Convs : v1 = [mine |-> mine, log |-> log]  BY DEF Space!Init
<1>2. /\ v2 = [space |-> None, of |-> None, ver |-> 0, busy |-> TRUE, queued |-> FALSE, wrong |-> FALSE]
      /\ v3 = Space!Closed /\ v4 = [o \in Space!Ops |-> IF o = 1 THEN r ELSE Space!NoOp]
  BY DEF Space!Init
<1>3. log \in [Convs -> SpaceNumbers]  BY SpaceBounds
<1>4. r \in SpaceOps /\ r.at = "list"  BY SpaceBounds DEF SpaceOps, SpaceKinds, Space!Busy
<1> HIDE DEF log, r
<1>5. v1 \in SpaceServers  BY <1>1, <1>3 DEF SpaceServers
<1>6. v2 \in SpacePages /\ v2.space = None  BY <1>2, SpaceBounds DEF SpacePages, SpaceNames
<1>7. v4 \in [Space!Ops -> SpaceOps] /\ \A o \in Space!Ops : v4[o].at \in {"list", "none"}
  BY <1>2, <1>4, SpaceBounds
<1> QED  BY <1>2, <1>5, <1>6, <1>7, SpaceBounds DEF SpaceInv, SpaceTyped, OpIsOf, ChangeComes

\* One operation changes.
LEMMA OneSpaceOp ==
  ASSUME SpaceTyped, NEW o \in Space!Ops, NEW r \in SpaceOps, v4' = [v4 EXCEPT ![o] = r]
  PROVE  v4' \in [Space!Ops -> SpaceOps] /\ v4'[o] = r /\ \A p \in Space!Ops \ {o} : v4'[p] = v4[p]
BY DEF SpaceTyped

\* An operation that begins or goes on to its load will show the space.
LEMMA OpStarts ==
  ASSUME SpaceTyped, \A o \in Space!Ops : OpIsOf(v1, v4[o]), NEW o \in Space!Ops, NEW r \in SpaceOps,
         v4' = [v4 EXCEPT ![o] = r], OpIsOf(v1, r), v4[o].at \notin {"list", "space", "read"}
  PROVE  /\ v4' \in [Space!Ops -> SpaceOps] /\ v4'[o] = r
         /\ \A p \in Space!Ops : OpIsOf(v1, v4'[p])
         /\ \A s, pg : (\E p \in Space!Ops : WillShow(s, pg, v4[p])) => \E p \in Space!Ops : WillShow(s, pg, v4'[p])
<1>1. v4' \in [Space!Ops -> SpaceOps] /\ v4'[o] = r /\ \A p \in Space!Ops \ {o} : v4'[p] = v4[p]  BY OneSpaceOp
<1>2. \A p \in Space!Ops : OpIsOf(v1, v4'[p])  BY <1>1
<1>3. ASSUME NEW s, NEW pg, NEW p \in Space!Ops, WillShow(s, pg, v4[p]) PROVE \E q \in Space!Ops : WillShow(s, pg, v4'[q])
  <2>1. p # o  BY <1>3 DEF WillShow
  <2> QED  BY <1>1, <1>3, <2>1
<1> QED  BY <1>1, <1>2, <1>3

LEMMA SpaceAskedIs ==
  ASSUME SpaceInv, NEW kind \in SpaceKinds, NEW want \in SpaceNames, Space!Asked(kind, want),
         kind \in {"create", "decide"} => want # None, kind \in {"send", "member"} => v2.space # None
  PROVE  /\ v4' \in [Space!Ops -> SpaceOps] /\ \A p \in Space!Ops : OpIsOf(v1, v4'[p])
         /\ \A s, pg : (\E p \in Space!Ops : WillShow(s, pg, v4[p])) => \E p \in Space!Ops : WillShow(s, pg, v4'[p])
         /\ kind = "event" => \E p \in Space!Ops : v4'[p].at = "list"
<1> DEFINE at == Space!Started(kind)
           of == IF kind \in Space!Listing \ {"delete"} THEN None ELSE v2.space
           n == Space!NoOp
           r == [n EXCEPT !.at = at, !.kind = kind, !.want = want, !.of = of]
<1>1. PICK o \in Space!Ops : v4[o] = n /\ v4' = [v4 EXCEPT ![o] = r]  BY DEF Space!Asked
<1>2. n \in SpaceOps /\ n.at = "none"  BY SpaceBounds
<1>3. v2.space \in SpaceNames  BY DEF SpaceInv, SpaceTyped, SpacePages
<1>4. /\ at \in {"act", "list", "space"} /\ of \in SpaceNames /\ (kind = "event" => at = "list")
      /\ at = "act" /\ kind \notin {"select", "create", "decide", "delete"} => kind \in {"send", "member"} /\ of = v2.space
  BY <1>3 DEF Space!Started, Space!Listing, Space!Changing, SpaceNames
<1> HIDE DEF n, at, of
<1>5. r \in SpaceOps /\ r.at = at /\ r.kind = kind /\ r.want = want /\ r.of = of  BY <1>2, <1>4 DEF SpaceOps
<1> HIDE DEF r
<1>6. OpIsOf(v1, r)  BY <1>3, <1>4, <1>5 DEF OpIsOf, SpaceNames
<1>7. /\ v4' \in [Space!Ops -> SpaceOps] /\ v4'[o] = r /\ \A p \in Space!Ops : OpIsOf(v1, v4'[p])
      /\ \A s, pg : (\E p \in Space!Ops : WillShow(s, pg, v4[p])) => \E p \in Space!Ops : WillShow(s, pg, v4'[p])
  BY <1>1, <1>2, <1>5, <1>6, OpStarts DEF SpaceInv
<1> QED  BY <1>4, <1>5, <1>7

\* The refresh that waits, when the page is free again or a change is told.
LEMMA FlushedIs ==
  ASSUME NEW e \in SpaceStreams, NEW p \in SpacePages, NEW f, f = Space!Flushed(e, p)
  PROVE  /\ f \in SpaceStreams /\ f.source = e.source /\ f.up = e.up /\ f.mail = e.mail /\ f.pending = e.pending
         /\ (e.timer # None => f.timer = e.timer)
         /\ e.pending = p.space /\ p.space # None => RefreshWaits(p, f)
<1>1. CASE e.pending = None \/ e.timer # None \/ p.busy \/ p.space # e.pending
  <2>1. f = e  BY <1>1 DEF Space!Flushed
  <2> QED  BY <1>1, <2>1 DEF RefreshWaits
<1>2. CASE ~(e.pending = None \/ e.timer # None \/ p.busy \/ p.space # e.pending)
  <2> DEFINE t == e.pending
  <2>1. f = [e EXCEPT !.timer = t] /\ t \in SpaceNames /\ t # None /\ e.timer = None
    BY <1>2 DEF Space!Flushed, SpaceStreams
  <2> HIDE DEF t
  <2>2. f \in SpaceStreams /\ f.source = e.source /\ f.up = e.up /\ f.mail = e.mail /\ f.pending = e.pending
        /\ f.timer = t
    BY <2>1 DEF SpaceStreams
  <2> QED  BY <2>1, <2>2 DEF RefreshWaits
<1> QED  BY <1>1, <1>2

LEMMA QueuedIs ==
  ASSUME NEW e \in SpaceStreams, NEW p \in SpacePages, NEW f, f = Space!Queued(e, p)
  PROVE  /\ f \in SpaceStreams /\ f.source = e.source /\ f.up = e.up /\ f.mail = e.mail
         /\ p.space = e.source /\ p.space # None => RefreshWaits(p, f)
<1>1. CASE p.space # e.source  BY <1>1 DEF Space!Queued
<1>2. CASE p.space = e.source
  <2> DEFINE s == e.source
             g == [e EXCEPT !.pending = s]
  <2>1. f = Space!Flushed(g, p) /\ s \in SpaceNames  BY <1>2 DEF Space!Queued, SpaceStreams
  <2>2. s = e.source  OBVIOUS
  <2> HIDE DEF s
  <2>3. g \in SpaceStreams /\ g.source = e.source /\ g.up = e.up /\ g.mail = e.mail /\ g.pending = s
    BY <2>1 DEF SpaceStreams
  <2> HIDE DEF g
  <2>4. /\ f \in SpaceStreams /\ f.source = g.source /\ f.up = g.up /\ f.mail = g.mail
        /\ g.pending = p.space /\ p.space # None => RefreshWaits(p, f)
    BY <2>1, <2>3, FlushedIs
  <2> QED  BY <1>2, <2>2, <2>3, <2>4
<1> QED  BY <1>1, <1>2

\* The end of an operation: the refresh that waited for it is not lost.
LEMMA FinishIs ==
  ASSUME SpaceTyped, NEW o \in Space!Ops, NEW p \in SpacePages, NEW e \in SpaceStreams, Space!Finish(o, p, e)
  PROVE  /\ v2' \in SpacePages /\ v3' \in SpaceStreams /\ v4' \in [Space!Ops -> SpaceOps]
         /\ v2'.space = p.space /\ v2'.of = p.of /\ v2'.ver = p.ver /\ v2'.wrong = p.wrong
         /\ v3'.source = e.source /\ v3'.up = e.up /\ v3'.mail = e.mail
         /\ p.space # None /\ RefreshWaits(p, e) => RefreshWaits(v2', v3')
         /\ v4'[o].at \in {"none", "list"} /\ \A k \in Space!Ops \ {o} : v4'[k] = v4[k]
<1> DEFINE kind == v4[o].kind
           q == IF kind \in Space!Busy THEN Space!Free(p) ELSE p
           f == IF kind \in Space!Busy \cup {"event"} THEN Space!Flushed(e, q) ELSE e
           again == kind = "refresh" /\ q.queued
           want == q.space
           n == Space!NoOp
           r == [n EXCEPT !.at = "list", !.kind = "refresh", !.want = want]
<1>1. /\ v2' = (IF again THEN [q EXCEPT !.queued = FALSE, !.busy = TRUE] ELSE q) /\ v3' = f
      /\ v4' = [v4 EXCEPT ![o] = IF again THEN r ELSE n]
  BY DEF Space!Finish
<1>2. q \in SpacePages /\ q.space = p.space /\ q.of = p.of /\ q.ver = p.ver /\ q.wrong = p.wrong
      /\ (q.busy = p.busy \/ kind \in Space!Busy)
  BY DEF Space!Free, SpacePages
<1>3. want \in SpaceNames /\ n \in SpaceOps /\ n.at = "none"  BY <1>2, SpaceBounds DEF SpacePages
<1> DEFINE g == Space!Flushed(e, q)
<1>4. (kind \in Space!Busy => f = g) /\ (f = g \/ f = e)  OBVIOUS
<1> HIDE DEF q, f, again, n, want
<1>5. r \in SpaceOps /\ r.at = "list"  BY <1>3 DEF SpaceOps, SpaceKinds, Space!Busy
<1> HIDE DEF r
<1>6. /\ g \in SpaceStreams /\ g.source = e.source /\ g.up = e.up /\ g.mail = e.mail /\ g.pending = e.pending
      /\ (e.timer # None => g.timer = e.timer)
      /\ e.pending = q.space /\ q.space # None => RefreshWaits(q, g)
  BY <1>2, FlushedIs
<1> HIDE DEF g, kind
<1>7. f \in SpaceStreams /\ f.source = e.source /\ f.up = e.up /\ f.mail = e.mail /\ f.pending = e.pending  BY <1>4, <1>6
<1>8. p.space # None /\ RefreshWaits(p, e) => RefreshWaits(q, f)
  BY <1>2, <1>4, <1>6, <1>7 DEF RefreshWaits
<1>9. v2' \in SpacePages /\ v2'.space = q.space /\ v2'.of = q.of /\ v2'.ver = q.ver /\ v2'.wrong = q.wrong
      /\ (q.busy => v2'.busy)
  <2>1. CASE again
    <3>1. v2' = [q EXCEPT !.queued = FALSE, !.busy = TRUE]  BY <1>1, <2>1
    <3> QED  BY <1>2, <3>1 DEF SpacePages
  <2>2. CASE ~again  BY <1>1, <1>2, <2>2
  <2> QED  BY <2>1, <2>2
<1>10. /\ v4' \in [Space!Ops -> SpaceOps] /\ v4'[o].at \in {"none", "list"}
       /\ \A k \in Space!Ops \ {o} : v4'[k] = v4[k]
  <2> DEFINE x == IF again THEN r ELSE n
  <2>1. x \in SpaceOps /\ x.at \in {"none", "list"} /\ v4' = [v4 EXCEPT ![o] = x]  BY <1>1, <1>3, <1>5
  <2> HIDE DEF x
  <2> QED  BY <2>1, OneSpaceOp
<1>11. p.space # None /\ RefreshWaits(p, e) => RefreshWaits(v2', v3')
  BY <1>1, <1>8, <1>9 DEF RefreshWaits
<1> QED  BY <1>1, <1>2, <1>7, <1>9, <1>10, <1>11

\* A step that leaves the space and what is shown of it.
SameView == v1' = v1 /\ v2'.space = v2.space /\ v2'.of = v2.of /\ v2'.ver = v2.ver /\ (v2.wrong => v2'.wrong)
SameStream == v3'.source = v3.source /\ v3'.up = v3.up /\ v3'.mail = v3.mail

LEMMA ChangeStillComes ==
  ASSUME SpaceInv, SameView, SameStream, SpaceTyped', \A p \in Space!Ops : OpIsOf(v1, v4'[p]),
         v2'.wrong \/ (v2.space # None /\ RefreshWaits(v2, v3) => RefreshWaits(v2', v3')),
         v2'.wrong \/ ((\E p \in Space!Ops : WillShow(v1, v2', v4[p])) => \E p \in Space!Ops : WillShow(v1, v2', v4'[p]))
  PROVE  SpaceInv'
<1>1. \A p \in Space!Ops : OpIsOf(v1', v4'[p])  BY DEF SameView
<1>2. ASSUME ~v2'.wrong, v2'.space # None, v3'.source = v2'.space, v3'.up, ~v3'.mail, ~RefreshWaits(v2', v3')
      PROVE  (v2'.of = v2'.space /\ v2'.ver = v1'.log[v2'.space]) \/ \E p \in Space!Ops : WillShow(v1', v2', v4'[p])
  <2>1. ~v2.wrong /\ v2.space # None /\ v3.source = v2.space /\ v3.up /\ ~v3.mail /\ ~RefreshWaits(v2, v3)
    BY <1>2 DEF SameView, SameStream
  <2>2. CASE v2.of = v2.space /\ v2.ver = v1.log[v2.space]  BY <2>2 DEF SameView
  <2>3. CASE \E p \in Space!Ops : WillShow(v1, v2, v4[p])
    <3>1. \E p \in Space!Ops : WillShow(v1, v2', v4[p])  BY <2>3 DEF WillShow, SameView
    <3> QED  BY <1>2, <3>1 DEF SameView
  <2> QED  BY <2>1, <2>2, <2>3 DEF SpaceInv, ChangeComes
<1>3. ChangeComes(v1', v2', v3', v4')  BY <1>2 DEF ChangeComes
<1> QED  BY <1>1, <1>3 DEF SpaceInv

LEMMA SpaceClicksKeep ==
  ASSUME SpaceInv,
         \/ Space!RefreshAsked
         \/ \E kind \in Space!Busy \cup Space!Listing \cup Space!Changing \cup {"open"}, want \in Convs \cup {None} :
              Space!Clicked(kind, want)
  PROVE  SpaceInv'
<1>1. ASSUME NEW kind \in Space!Busy \cup Space!Listing \cup Space!Changing \cup {"open"}, NEW want \in Convs \cup {None},
             Space!Clicked(kind, want)
      PROVE  SpaceInv'
  <2> DEFINE busy == v2.busy \/ kind \in Space!Busy
  <2>1. busy \in BOOLEAN /\ (v2.busy => busy)  BY DEF SpaceInv, SpaceTyped, SpacePages
  <2>2. v2' = [v2 EXCEPT !.busy = busy] /\ Space!Asked(kind, want) /\ UNCHANGED <<v1, v3>>
        /\ (kind \in {"create", "decide"} => want # None) /\ (kind \in {"send", "member"} => v2.space # None)
    BY <1>1 DEF Space!Clicked
  <2>3. kind \in SpaceKinds /\ want \in SpaceNames  BY DEF SpaceKinds, SpaceNames
  <2>4. /\ v4' \in [Space!Ops -> SpaceOps] /\ \A p \in Space!Ops : OpIsOf(v1, v4'[p])
        /\ \A s, pg : (\E p \in Space!Ops : WillShow(s, pg, v4[p])) => \E p \in Space!Ops : WillShow(s, pg, v4'[p])
    BY <2>2, <2>3, SpaceAskedIs
  <2> HIDE DEF busy
  <2>5. v2' \in SpacePages /\ v2'.space = v2.space /\ v2'.of = v2.of /\ v2'.ver = v2.ver /\ v2'.wrong = v2.wrong
        /\ v2'.busy = busy
    BY <2>1, <2>2 DEF SpaceInv, SpaceTyped, SpacePages
  <2>6. SpaceTyped'  BY <2>2, <2>4, <2>5 DEF SpaceInv, SpaceTyped
  <2>7. RefreshWaits(v2, v3) => RefreshWaits(v2', v3')  BY <2>1, <2>2, <2>5 DEF RefreshWaits
  <2>8. SameView /\ SameStream  BY <2>2, <2>5 DEF SameView, SameStream
  <2> QED  BY <2>4, <2>6, <2>7, <2>8, ChangeStillComes
<1>2. CASE Space!RefreshAsked /\ v2.busy
  <2>1. v2' = [v2 EXCEPT !.queued = TRUE] /\ UNCHANGED <<v1, v3, v4>>  BY <1>2 DEF Space!RefreshAsked
  <2>2. v2' \in SpacePages /\ v2'.space = v2.space /\ v2'.of = v2.of /\ v2'.ver = v2.ver /\ v2'.wrong = v2.wrong
        /\ v2'.busy = v2.busy
    BY <2>1 DEF SpaceInv, SpaceTyped, SpacePages
  <2>3. SpaceTyped' /\ SameView /\ SameStream  BY <2>1, <2>2 DEF SpaceInv, SpaceTyped, SameView, SameStream
  <2>4. RefreshWaits(v2, v3) => RefreshWaits(v2', v3')  BY <2>1, <2>2 DEF RefreshWaits
  <2>5. \A p \in Space!Ops : OpIsOf(v1, v4'[p])  BY <2>1 DEF SpaceInv
  <2> QED  BY <2>1, <2>3, <2>4, <2>5, ChangeStillComes
<1>3. CASE Space!RefreshAsked /\ ~v2.busy
  <2> DEFINE want == v2.space
  <2>1. v2' = [v2 EXCEPT !.busy = TRUE] /\ Space!Asked("refresh", want) /\ UNCHANGED <<v1, v3>>
    BY <1>3 DEF Space!RefreshAsked
  <2>2. want \in SpaceNames /\ "refresh" \in SpaceKinds
    BY DEF SpaceInv, SpaceTyped, SpacePages, SpaceKinds, Space!Busy
  <2>3. v2' \in SpacePages /\ v2'.space = v2.space /\ v2'.of = v2.of /\ v2'.ver = v2.ver /\ v2'.wrong = v2.wrong
        /\ v2'.busy
    BY <2>1 DEF SpaceInv, SpaceTyped, SpacePages
  <2> HIDE DEF want
  <2>4. /\ v4' \in [Space!Ops -> SpaceOps] /\ \A p \in Space!Ops : OpIsOf(v1, v4'[p])
        /\ \A s, pg : (\E p \in Space!Ops : WillShow(s, pg, v4[p])) => \E p \in Space!Ops : WillShow(s, pg, v4'[p])
    BY <2>1, <2>2, SpaceAskedIs
  <2>5. SpaceTyped' /\ SameView /\ SameStream  BY <2>1, <2>3, <2>4 DEF SpaceInv, SpaceTyped, SameView, SameStream
  <2>6. RefreshWaits(v2, v3) => RefreshWaits(v2', v3')  BY <2>1, <2>3 DEF RefreshWaits
  <2> QED  BY <2>4, <2>5, <2>6, ChangeStillComes
<1> QED  BY <1>1, <1>2, <1>3

\* A change at the server is shown by the loads to come, or its event comes.
LEMMA SpaceChangeIs ==
  ASSUME SpaceInv, NEW s \in Convs, Space!Change(s), v2' = v2
  PROVE  /\ v1' \in SpaceServers /\ v3' \in SpaceStreams
         /\ \A o \in SpaceOps : OpIsOf(v1, o) => OpIsOf(v1', o)
         /\ (\E p \in Space!Ops : v4[p].at \in {"list", "space"}) \/ ChangeComes(v1', v2', v3', v4)
<1> DEFINE n == v1.log[s] + 1
<1>1. v1 \in SpaceServers /\ v3 \in SpaceStreams /\ v2 \in SpacePages /\ v4 \in [Space!Ops -> SpaceOps]
  BY DEF SpaceInv, SpaceTyped
<1>2. n \in SpaceNumbers /\ n >= v1.log[s] /\ v1.log[s] \in Nat
  BY <1>1, SpaceBounds DEF Space!Change, SpaceServers, SpaceNumbers
<1>3. v1' = [v1 EXCEPT !.log[s] = n]  BY DEF Space!Change
<1> HIDE DEF n
<1>4. v1' \in SpaceServers /\ v1'.mine = v1.mine /\ v1'.log[s] = n /\ \A t \in Convs \ {s} : v1'.log[t] = v1.log[t]
  BY <1>1, <1>2, <1>3 DEF SpaceServers
<1>5. \A t \in Convs : v1.log[t] \in Nat /\ v1'.log[t] \in Nat /\ v1.log[t] <= v1'.log[t]
  <2>1. \A t \in Convs : v1.log[t] \in Nat /\ v1'.log[t] \in Nat
    BY <1>1, <1>4, SpaceBounds DEF SpaceServers, SpaceNumbers
  <2> QED  BY <1>2, <1>4, <2>1
<1>6. ASSUME NEW o \in SpaceOps, OpIsOf(v1, o) PROVE OpIsOf(v1', o)
  <2>1. o.ver \in Nat  BY SpaceBounds DEF SpaceOps, SpaceNumbers
  <2>2. o.at = "read" => o.of \in Convs /\ o.ver <= v1.log[o.of]  BY <1>6 DEF OpIsOf
  <2>3. o.at = "read" => o.of \in Convs /\ o.ver <= v1'.log[o.of]  BY <1>5, <2>1, <2>2
  <2> QED  BY <1>6, <2>3 DEF OpIsOf
<1>7. CASE v3.source = s /\ v3.up
  <2>1. v3' = [v3 EXCEPT !.mail = TRUE]  BY <1>7 DEF Space!Change
  <2>2. v3' \in SpaceStreams /\ v3'.mail  BY <1>1, <2>1 DEF SpaceStreams
  <2> QED  BY <1>4, <1>6, <2>2 DEF ChangeComes
<1>8. CASE ~(v3.source = s /\ v3.up)
  <2>1. v3' = v3  BY <1>8 DEF Space!Change
  <2>2. ASSUME ~v2'.wrong, v2'.space # None, v3'.source = v2'.space, v3'.up, ~v3'.mail, ~RefreshWaits(v2', v3')
        PROVE  (v2'.of = v2'.space /\ v2'.ver = v1'.log[v2'.space]) \/ \E p \in Space!Ops : WillShow(v1', v2', v4[p])
    <3>1. v2.space \in Convs \ {s}  BY <1>1, <1>8, <2>1, <2>2 DEF SpacePages, SpaceNames
    <3>2. v1'.log[v2.space] = v1.log[v2.space]  BY <1>4, <3>1
    <3>3. \/ v2.of = v2.space /\ v2.ver = v1.log[v2.space]
          \/ \E p \in Space!Ops : WillShow(v1, v2, v4[p])
      BY <2>1, <2>2 DEF SpaceInv, ChangeComes
    <3>4. ASSUME NEW p \in Space!Ops, WillShow(v1, v2, v4[p]) PROVE WillShow(v1', v2', v4[p])
      BY <3>2, <3>4 DEF WillShow
    <3> QED  BY <3>2, <3>3, <3>4
  <2>3. ChangeComes(v1', v2', v3', v4)  BY <2>2 DEF ChangeComes
  <2> QED  BY <1>1, <1>4, <1>6, <2>1, <2>3
<1> QED  BY <1>7, <1>8

LEMMA SpaceActedKeeps == ASSUME SpaceInv, NEW o \in Space!Ops, Space!Acted(o) PROVE SpaceInv'
<1> DEFINE kind == v4[o].kind
           want == v4[o].want
           at == IF kind \in Space!Listing THEN "list" ELSE "space"
           of == IF kind \in Space!Listing THEN v4[o].of ELSE v2.space
           op == v4[o]
           r == [op EXCEPT !.at = at, !.of = of]
<1>1. v4' = [v4 EXCEPT ![o] = r] /\ v2' = v2 /\ v4[o].at = "act"
  BY DEF Space!Acted, SpaceInv, SpaceTyped
<1>2. /\ v1 \in SpaceServers /\ v2 \in SpacePages /\ v3 \in SpaceStreams /\ op \in SpaceOps
      /\ kind \in SpaceKinds /\ want \in SpaceNames /\ op.of \in SpaceNames /\ v2.space \in SpaceNames
  BY DEF SpaceInv, SpaceTyped, SpaceOps, SpacePages
<1>3. at \in {"list", "space"} /\ of \in SpaceNames  BY <1>2
<1>4. r \in SpaceOps /\ r.at = at
  <2> HIDE DEF op, at, of
  <2> QED  BY <1>2, <1>3 DEF SpaceOps
<1>5. (kind \in {"create", "decide"} => want \in Convs)
      /\ (kind \notin {"select", "create", "decide", "delete"} => v4[o].of \in Convs)
  <2>1. OpIsOf(v1, v4[o])  BY DEF SpaceInv
  <2> QED  BY <1>1, <2>1 DEF OpIsOf
<1>6. /\ v1' \in SpaceServers /\ v3' \in SpaceStreams
      /\ \A p \in SpaceOps : OpIsOf(v1, p) => OpIsOf(v1', p)
  <2>1. CASE kind = "select"  BY <1>2, <2>1 DEF Space!Acted
  <2>2. CASE kind \in {"create", "decide"}
    <3> DEFINE mine == v1.mine \cup {want}
    <3>1. v1' = [v1 EXCEPT !.mine = mine] /\ v3' = v3  BY <2>2 DEF Space!Acted
    <3>2. mine \in SUBSET Convs  BY <1>2, <1>5, <2>2 DEF SpaceServers
    <3> HIDE DEF mine
    <3>3. v1' \in SpaceServers /\ v1'.log = v1.log  BY <1>2, <3>1, <3>2 DEF SpaceServers
    <3> QED  BY <1>2, <3>1, <3>3 DEF OpIsOf
  <2>3. CASE kind = "delete"
    <3> DEFINE gone == v4[o].of
               mine == v1.mine \ {gone}
    <3>1. v1' = [v1 EXCEPT !.mine = mine] /\ v3' = v3  BY <2>3 DEF Space!Acted
    <3>2. mine \in SUBSET Convs  BY <1>2 DEF SpaceServers
    <3> HIDE DEF mine
    <3>3. v1' \in SpaceServers /\ v1'.log = v1.log  BY <1>2, <3>1, <3>2 DEF SpaceServers
    <3> QED  BY <1>2, <3>1, <3>3 DEF OpIsOf
  <2>4. CASE kind \notin {"select", "create", "decide", "delete"}
    <3> DEFINE s == v4[o].of
    <3>1. Space!Change(s) /\ s \in Convs  BY <1>5, <2>4 DEF Space!Acted
    <3> HIDE DEF s
    <3> QED  BY <1>1, <3>1, SpaceChangeIs
  <2> QED  BY <2>1, <2>2, <2>3, <2>4
<1> HIDE DEF r, at, op, of, kind, want
<1>7. v4' \in [Space!Ops -> SpaceOps] /\ v4'[o] = r /\ \A p \in Space!Ops \ {o} : v4'[p] = v4[p]
  BY <1>1, <1>4, OneSpaceOp DEF SpaceInv
<1>8. WillShow(v1', v2', v4'[o])  BY <1>3, <1>4, <1>7 DEF WillShow
<1>9. ASSUME NEW p \in Space!Ops PROVE OpIsOf(v1', v4'[p])
  <2>1. CASE p = o  BY <1>3, <1>4, <1>7, <2>1 DEF OpIsOf
  <2>2. CASE p # o
    <3>1. v4[p] \in SpaceOps /\ OpIsOf(v1, v4[p]) /\ v4'[p] = v4[p]  BY <1>7, <2>2 DEF SpaceInv, SpaceTyped
    <3> QED  BY <1>6, <3>1
  <2> QED  BY <2>1, <2>2
<1>10. SpaceTyped'  BY <1>1, <1>2, <1>6, <1>7 DEF SpaceTyped
<1> QED  BY <1>8, <1>9, <1>10 DEF SpaceInv, ChangeComes

LEMMA SpaceOthersKeep == ASSUME SpaceInv, Space!Others PROVE SpaceInv'
<1>1. v2' = v2 /\ v4' = v4  BY DEF Space!Others
<1>2. v1 \in SpaceServers /\ v2 \in SpacePages /\ v3 \in SpaceStreams /\ v4 \in [Space!Ops -> SpaceOps]
  BY DEF SpaceInv, SpaceTyped
<1>3. ASSUME NEW s \in v1.mine, Space!Change(s) PROVE SpaceInv'
  <2>1. s \in Convs  BY <1>2 DEF SpaceServers
  <2>2. /\ v1' \in SpaceServers /\ v3' \in SpaceStreams
        /\ \A o \in SpaceOps : OpIsOf(v1, o) => OpIsOf(v1', o)
        /\ (\E p \in Space!Ops : v4[p].at \in {"list", "space"}) \/ ChangeComes(v1', v2', v3', v4)
    BY <1>1, <1>3, <2>1, SpaceChangeIs
  <2>3. ChangeComes(v1', v2', v3', v4')  BY <1>1, <2>2 DEF ChangeComes, WillShow
  <2>4. SpaceTyped'  BY <1>1, <1>2, <2>2 DEF SpaceTyped
  <2>5. \A p \in Space!Ops : OpIsOf(v1', v4'[p])  BY <1>1, <1>2, <2>2 DEF SpaceInv
  <2> QED  BY <2>3, <2>4, <2>5 DEF SpaceInv
<1>4. ASSUME NEW s \in v1.mine, v1' = [v1 EXCEPT !.mine = @ \ {s}], v3' = v3 PROVE SpaceInv'
  <2> DEFINE mine == v1.mine \ {s}
  <2>1. v1' = [v1 EXCEPT !.mine = mine] /\ mine \in SUBSET Convs  BY <1>2, <1>4 DEF SpaceServers
  <2> HIDE DEF mine
  <2>2. v1' \in SpaceServers /\ v1'.log = v1.log  BY <1>2, <2>1 DEF SpaceServers
  <2> QED  BY <1>1, <1>2, <1>4, <2>2 DEF SpaceInv, SpaceTyped, OpIsOf, ChangeComes, WillShow
<1> QED  BY <1>3, <1>4 DEF Space!Others

\* The stream: where it opens again or tells a change, a refresh waits.
LEMMA SpaceStreamKeeps ==
  ASSUME SpaceInv, Space!SourceOpened \/ Space!SourceLost \/ Space!EventArrives
  PROVE  SpaceInv'
<1> USE DEF SpaceNames
<1>1. UNCHANGED <<v1, v2, v4>>  BY DEF Space!SourceOpened, Space!SourceLost, Space!EventArrives
<1>2. v2 \in SpacePages /\ v3 \in SpaceStreams  BY DEF SpaceInv, SpaceTyped
<1>3. ASSUME NEW e \in SpaceStreams, v3' = Space!Queued(e, v2) PROVE SpaceInv'
  <2> DEFINE f == v3'
  <2>1. /\ f \in SpaceStreams /\ f.source = e.source
        /\ (v2.space = e.source /\ v2.space # None => RefreshWaits(v2, f))
    BY <1>2, <1>3, QueuedIs
  <2>2. SpaceTyped'  BY <1>1, <2>1 DEF SpaceInv, SpaceTyped
  <2>3. ChangeComes(v1', v2', v3', v4')  BY <1>1, <2>1 DEF ChangeComes
  <2> QED  BY <1>1, <2>2, <2>3 DEF SpaceInv
<1>4. CASE Space!SourceOpened
  <2> DEFINE e == [v3 EXCEPT !.up = TRUE]
  <2>1. v3' = Space!Queued(e, v2)  BY <1>4 DEF Space!SourceOpened
  <2>2. e \in SpaceStreams  BY <1>2 DEF SpaceStreams
  <2> QED  BY <1>3, <2>1, <2>2
<1>5. CASE Space!EventArrives
  <2> DEFINE e == [v3 EXCEPT !.mail = FALSE]
  <2>1. v3' = Space!Queued(e, v2)  BY <1>5 DEF Space!EventArrives
  <2>2. e \in SpaceStreams  BY <1>2 DEF SpaceStreams
  <2> QED  BY <1>3, <2>1, <2>2
<1>6. CASE Space!SourceLost
  <2>1. v3' = [v3 EXCEPT !.up = FALSE, !.mail = FALSE]  BY <1>6 DEF Space!SourceLost
  <2>2. v3' \in SpaceStreams /\ ~v3'.up  BY <1>2, <2>1 DEF SpaceStreams
  <2> QED  BY <1>1, <2>2 DEF SpaceInv, SpaceTyped, ChangeComes
<1> QED  BY <1>4, <1>5, <1>6

LEMMA SpaceTimerKeeps == ASSUME SpaceInv, Space!TimerFires PROVE SpaceInv'
<1> DEFINE wrong == v2.wrong \/ (v2.space # v3.timer /\ v2.space = v3.pending)
           e == [v3 EXCEPT !.timer = None]
           f == [e EXCEPT !.pending = None]
           want == v3.timer
<1>1. v2' = [v2 EXCEPT !.wrong = wrong] /\ v1' = v1 /\ want # None
  BY DEF Space!TimerFires
<1>2. /\ v2 \in SpacePages /\ v3 \in SpaceStreams /\ v4 \in [Space!Ops -> SpaceOps] /\ want \in SpaceNames
      /\ wrong \in BOOLEAN /\ (v2.wrong => wrong) /\ (v2.space # want /\ v2.space = v3.pending => wrong)
  BY DEF SpaceInv, SpaceTyped, SpacePages, SpaceStreams
<1>3. (v2.space # want \/ v2.busy => v3' = e /\ v4' = v4)
      /\ (~(v2.space # want \/ v2.busy) => v3' = f /\ Space!Asked("event", want))
  BY DEF Space!TimerFires
<1>4. None \in SpaceNames  BY DEF SpaceNames
<1>5. e \in SpaceStreams /\ e.source = v3.source /\ e.up = v3.up /\ e.mail = v3.mail /\ e.pending = v3.pending
  BY <1>2, <1>4 DEF SpaceStreams
<1> HIDE DEF wrong, e, want
<1>6. f \in SpaceStreams /\ f.source = v3.source /\ f.up = v3.up /\ f.mail = v3.mail
  BY <1>4, <1>5 DEF SpaceStreams
<1> HIDE DEF f
<1>7. v2' \in SpacePages /\ v2'.space = v2.space /\ v2'.of = v2.of /\ v2'.ver = v2.ver /\ v2'.busy = v2.busy
      /\ v2'.wrong = wrong
  BY <1>1, <1>2 DEF SpacePages
<1>8. SameView  BY <1>1, <1>2, <1>7 DEF SameView
<1>9. CASE v2.space # want \/ v2.busy
  <2>1. v3' = e /\ v4' = v4  BY <1>3, <1>9
  <2>2. SpaceTyped' /\ SameStream  BY <1>1, <1>5, <1>7, <2>1 DEF SpaceInv, SpaceTyped, SameStream
  <2>3. v2'.wrong \/ (RefreshWaits(v2, v3) => RefreshWaits(v2', v3'))
    BY <1>2, <1>5, <1>7, <1>9, <2>1 DEF RefreshWaits
  <2>4. \A p \in Space!Ops : OpIsOf(v1, v4'[p])  BY <2>1 DEF SpaceInv
  <2> QED  BY <1>8, <2>1, <2>2, <2>3, <2>4, ChangeStillComes
<1>10. CASE ~(v2.space # want \/ v2.busy)
  <2>1. v3' = f /\ Space!Asked("event", want)  BY <1>3, <1>10
  <2>2. "event" \in SpaceKinds  BY DEF SpaceKinds, Space!Listing
  <2>3. /\ v4' \in [Space!Ops -> SpaceOps] /\ \A p \in Space!Ops : OpIsOf(v1, v4'[p])
        /\ \E p \in Space!Ops : v4'[p].at = "list"
    BY <1>2, <2>1, <2>2, SpaceAskedIs
  <2>4. SpaceTyped'  BY <1>1, <1>6, <1>7, <2>1, <2>3 DEF SpaceInv, SpaceTyped
  <2>5. ChangeComes(v1', v2', v3', v4')  BY <2>3 DEF ChangeComes, WillShow
  <2> QED  BY <1>1, <2>3, <2>4, <2>5 DEF SpaceInv
<1> QED  BY <1>9, <1>10

\* What an operation that ends leaves of the others.
LEMMA OpsAfterEnd ==
  ASSUME SpaceInv, NEW o \in Space!Ops, v4'[o].at \in {"none", "list"}, \A k \in Space!Ops \ {o} : v4'[k] = v4[k]
  PROVE  \A k \in Space!Ops : OpIsOf(v1, v4'[k])
<1>1. OpIsOf(v1, v4'[o])  BY DEF OpIsOf
<1> QED  BY <1>1 DEF SpaceInv

LEMMA SpaceRefusedKeeps == ASSUME SpaceInv, NEW o \in Space!Ops, Space!Refused(o) PROVE SpaceInv'
<1> DEFINE wrong == v2.wrong \/ v4[o].at \in {"list", "space", "read"}
           p == [v2 EXCEPT !.wrong = wrong]
           e == IF v4[o].kind = "event" /\ v2.space \notin v1.mine THEN Space!Close(FALSE) ELSE v3
<1>1. v1' = v1 /\ Space!Finish(o, p, e)  BY DEF Space!Refused
<1>2. /\ v2 \in SpacePages /\ v3 \in SpaceStreams /\ wrong \in BOOLEAN /\ (v2.wrong => wrong)
      /\ (wrong \/ v4[o].at \notin {"list", "space", "read"})
  BY DEF SpaceInv, SpaceTyped, SpacePages
<1>3. /\ Space!Close(FALSE) \in SpaceStreams /\ Space!Close(FALSE).source = None
  <2>1. Space!Close(FALSE) = [Space!Closed EXCEPT !.pending = None]  BY DEF Space!Close
  <2>2. None \in SpaceNames  BY DEF SpaceNames
  <2> QED  BY <2>1, <2>2, SpaceBounds DEF SpaceStreams
<1>4. e \in SpaceStreams /\ (e = v3 \/ e.source = None)  BY <1>2, <1>3
<1> HIDE DEF wrong, e
<1>5. p \in SpacePages /\ p.space = v2.space /\ p.of = v2.of /\ p.ver = v2.ver /\ p.busy = v2.busy /\ p.wrong = wrong
  BY <1>2 DEF SpacePages
<1> HIDE DEF p
<1>6. /\ v2' \in SpacePages /\ v3' \in SpaceStreams /\ v4' \in [Space!Ops -> SpaceOps]
      /\ v2'.space = p.space /\ v2'.of = p.of /\ v2'.ver = p.ver /\ v2'.wrong = p.wrong
      /\ v3'.source = e.source /\ v3'.up = e.up /\ v3'.mail = e.mail
      /\ p.space # None /\ RefreshWaits(p, e) => RefreshWaits(v2', v3')
      /\ v4'[o].at \in {"none", "list"} /\ \A k \in Space!Ops \ {o} : v4'[k] = v4[k]
  BY <1>1, <1>4, <1>5, FinishIs DEF SpaceInv
<1>7. \A k \in Space!Ops : OpIsOf(v1, v4'[k])  BY <1>6, OpsAfterEnd
<1>8. SpaceTyped'  BY <1>1, <1>6 DEF SpaceInv, SpaceTyped
<1>9. CASE e.source = None
  <2>1. ChangeComes(v1', v2', v3', v4')  BY <1>6, <1>9 DEF ChangeComes
  <2> QED  BY <1>1, <1>7, <1>8, <2>1 DEF SpaceInv
<1>10. CASE e = v3
  <2>1. SameView /\ SameStream  BY <1>1, <1>2, <1>5, <1>6, <1>10 DEF SameView, SameStream
  <2>2. v2.space # None /\ RefreshWaits(v2, v3) => RefreshWaits(v2', v3')
    <3>1. RefreshWaits(v2, v3) => RefreshWaits(p, e)  BY <1>5, <1>10 DEF RefreshWaits
    <3> QED  BY <1>5, <1>6, <3>1
  <2>3. ASSUME ~wrong, NEW k \in Space!Ops, WillShow(v1, v2', v4[k]) PROVE WillShow(v1, v2', v4'[k])
    <3>1. k # o  BY <1>2, <2>3 DEF WillShow
    <3> QED  BY <1>6, <2>3, <3>1
  <2>4. v2'.wrong \/ ((\E k \in Space!Ops : WillShow(v1, v2', v4[k])) => \E k \in Space!Ops : WillShow(v1, v2', v4'[k]))
    BY <1>5, <1>6, <2>3
  <2> QED  BY <1>7, <1>8, <2>1, <2>2, <2>4, ChangeStillComes
<1> QED  BY <1>4, <1>9, <1>10

LEMMA SpaceReadKeeps == ASSUME SpaceInv, NEW o \in Space!Ops, Space!SpaceRead(o) PROVE SpaceInv'
<1> DEFINE ver == v1.log[v4[o].of]
           op == v4[o]
           r == [op EXCEPT !.at = "read", !.ver = ver]
<1>1. v4' = [v4 EXCEPT ![o] = r] /\ v4[o].at = "space" /\ v4[o].of \in v1.mine /\ UNCHANGED <<v1, v2, v3>>
  BY DEF Space!SpaceRead, SpaceInv, SpaceTyped
<1>2. v1 \in SpaceServers /\ op \in SpaceOps /\ op.of \in Convs /\ ver \in SpaceNumbers /\ ver = v1.log[op.of]
  BY <1>1 DEF SpaceInv, SpaceTyped, SpaceServers
<1> HIDE DEF ver
<1>3. r \in SpaceOps /\ r.at = "read" /\ r.of = op.of /\ r.ver = ver
  <2> HIDE DEF op
  <2> QED  BY <1>2 DEF SpaceOps
<1> HIDE DEF r
<1>4. v4' \in [Space!Ops -> SpaceOps] /\ v4'[o] = r /\ \A k \in Space!Ops \ {o} : v4'[k] = v4[k]
  BY <1>1, <1>3, OneSpaceOp DEF SpaceInv
<1>5. ver \in Nat  BY <1>2, SpaceBounds DEF SpaceNumbers
<1>6. OpIsOf(v1, r)  BY <1>2, <1>3, <1>5 DEF OpIsOf
<1>7. \A k \in Space!Ops : OpIsOf(v1, v4'[k])  BY <1>4, <1>6 DEF SpaceInv
<1>8. SpaceTyped' /\ SameView /\ SameStream  BY <1>1, <1>4 DEF SpaceInv, SpaceTyped, SameView, SameStream
<1>9. \A k \in Space!Ops : WillShow(v1, v2', v4[k]) => \E q \in Space!Ops : WillShow(v1, v2', v4'[q])
  <2> SUFFICES ASSUME NEW k \in Space!Ops, WillShow(v1, v2', v4[k]) PROVE \E q \in Space!Ops : WillShow(v1, v2', v4'[q])
    OBVIOUS
  <2>1. CASE k = o
    <3>1. WillShow(v1, v2', r)  BY <1>2, <1>3 DEF WillShow
    <3> QED  BY <1>4, <3>1
  <2>2. CASE k # o  BY <1>4, <2>2
  <2> QED  BY <2>1, <2>2
<1>10. RefreshWaits(v2, v3) => RefreshWaits(v2', v3')  BY <1>1
<1> QED  BY <1>7, <1>8, <1>9, <1>10, ChangeStillComes

LEMMA SpaceListKeeps == ASSUME SpaceInv, NEW o \in Space!Ops, Space!ListReplied(o) PROVE SpaceInv'
<1>1. v1' = v1 /\ v4[o].at = "list"  BY DEF Space!ListReplied
<1>2. v1 \in SpaceServers /\ v2 \in SpacePages /\ v3 \in SpaceStreams /\ v4[o] \in SpaceOps
  BY DEF SpaceInv, SpaceTyped
<1>3. PICK s \in Space!Chosen(v4[o].want) :
         IF s = None
         THEN Space!Finish(o, [v2 EXCEPT !.space = None, !.of = None, !.wrong = FALSE], Space!Close(FALSE))
         ELSE /\ v2' = [v2 EXCEPT !.space = s]
              /\ v4' = [v4 EXCEPT ![o].at = "space", ![o].of = s]
              /\ v3' = v3
  BY DEF Space!ListReplied
<1>4. s \in SpaceNames /\ None \in SpaceNames  BY <1>2 DEF Space!Chosen, SpaceServers, SpaceNames
<1>5. CASE s = None
  <2> DEFINE p == [v2 EXCEPT !.space = None, !.of = None, !.wrong = FALSE]
             e == Space!Close(FALSE)
  <2>1. Space!Finish(o, p, e)  BY <1>3, <1>5
  <2>2. p \in SpacePages /\ p.space = None  BY <1>2, <1>4 DEF SpacePages
  <2>3. e \in SpaceStreams
    <3>1. e = [Space!Closed EXCEPT !.pending = None]  BY DEF Space!Close
    <3> QED  BY <1>4, <3>1, SpaceBounds DEF SpaceStreams
  <2> HIDE DEF p, e
  <2>4. /\ v2' \in SpacePages /\ v3' \in SpaceStreams /\ v4' \in [Space!Ops -> SpaceOps] /\ v2'.space = p.space
        /\ v4'[o].at \in {"none", "list"} /\ \A k \in Space!Ops \ {o} : v4'[k] = v4[k]
    BY <2>1, <2>2, <2>3, FinishIs DEF SpaceInv
  <2>5. \A k \in Space!Ops : OpIsOf(v1, v4'[k])  BY <2>4, OpsAfterEnd
  <2>6. SpaceTyped'  BY <1>1, <2>4 DEF SpaceInv, SpaceTyped
  <2>7. ChangeComes(v1', v2', v3', v4')  BY <2>2, <2>4 DEF ChangeComes
  <2> QED  BY <1>1, <2>5, <2>6, <2>7 DEF SpaceInv
<1>6. CASE s # None
  <2> DEFINE op == v4[o]
             r == [op EXCEPT !.at = "space", !.of = s]
  <2>1. v2' = [v2 EXCEPT !.space = s] /\ v3' = v3 /\ v4' = [v4 EXCEPT ![o] = r]
    BY <1>3, <1>6 DEF SpaceInv, SpaceTyped
  <2>2. v2' \in SpacePages  BY <1>2, <1>4, <2>1 DEF SpacePages
  <2>3. r \in SpaceOps /\ r.at = "space"
    <3> HIDE DEF op
    <3>1. op \in SpaceOps  BY <1>2 DEF op
    <3> QED  BY <1>4, <3>1 DEF SpaceOps
  <2> HIDE DEF r
  <2>4. v4' \in [Space!Ops -> SpaceOps] /\ v4'[o] = r /\ \A k \in Space!Ops \ {o} : v4'[k] = v4[k]
    BY <2>1, <2>3, OneSpaceOp DEF SpaceInv
  <2>5. \A k \in Space!Ops : OpIsOf(v1, v4'[k])  BY <2>3, <2>4 DEF SpaceInv, OpIsOf
  <2>6. SpaceTyped'  BY <1>1, <1>2, <2>1, <2>2, <2>4 DEF SpaceTyped
  <2>7. WillShow(v1', v2', v4'[o])  BY <2>3, <2>4 DEF WillShow
  <2> QED  BY <1>1, <2>5, <2>6, <2>7 DEF SpaceInv, ChangeComes
<1> QED  BY <1>5, <1>6

\* A reply shows the space as it is now, or is known to be wrong, or another
\* load under way will show it.
LEMMA SpaceRepliedKeeps == ASSUME SpaceInv, NEW o \in Space!Ops, Space!SpaceReplied(o) PROVE SpaceInv'
<1> DEFINE op == v4[o]
           of == op.of
           ver == op.ver
           older == of = v2.of /\ ver < v2.ver
           wrong == older \/ of # v2.space \/ (v2.wrong /\ ver < v1.log[of])
           r == [op EXCEPT !.at = "rest"]
<1>1. /\ v1' = v1 /\ v3' = v3 /\ v4[o].at = "read" /\ v4' = [v4 EXCEPT ![o] = r]
      /\ v2' = [v2 EXCEPT !.of = of, !.ver = ver, !.wrong = wrong]
  BY DEF Space!SpaceReplied, SpaceInv, SpaceTyped
<1>2. v1 \in SpaceServers /\ v2 \in SpacePages /\ op \in SpaceOps
  BY DEF SpaceInv, SpaceTyped
<1>3. of \in Convs /\ of \in SpaceNames /\ ver \in SpaceNumbers /\ ver <= v1.log[of]
  <2>1. OpIsOf(v1, v4[o])  BY DEF SpaceInv
  <2> QED  BY <1>1, <1>2, <2>1 DEF OpIsOf, SpaceOps, SpaceNames
<1>4. wrong \in BOOLEAN  BY <1>2 DEF SpacePages
<1>5. r \in SpaceOps /\ r.at = "rest"
  <2> HIDE DEF op
  <2> QED  BY <1>2 DEF SpaceOps
<1>6. /\ (~wrong => of = v2.space /\ ~(of = v2.of /\ ver < v2.ver) /\ ~(v2.wrong /\ ver < v1.log[of]))
      /\ op = v4[o] /\ of = op.of /\ ver = op.ver
  OBVIOUS
<1> HIDE DEF wrong, of, ver, op, r
<1>7. v2' \in SpacePages /\ v2'.space = v2.space /\ v2'.of = of /\ v2'.ver = ver /\ v2'.busy = v2.busy /\ v2'.wrong = wrong
  BY <1>1, <1>2, <1>3, <1>4 DEF SpacePages
<1>8. v4' \in [Space!Ops -> SpaceOps] /\ v4'[o] = r /\ \A k \in Space!Ops \ {o} : v4'[k] = v4[k]
  BY <1>1, <1>5, OneSpaceOp DEF SpaceInv
<1>9. OpIsOf(v1, r)  BY <1>5 DEF OpIsOf
<1>10. \A k \in Space!Ops : OpIsOf(v1, v4'[k])  BY <1>8, <1>9 DEF SpaceInv
<1>11. SpaceTyped'  BY <1>1, <1>7, <1>8 DEF SpaceInv, SpaceTyped
<1>12. v1.log[of] \in Nat /\ ver \in Nat /\ v2.ver \in Nat
  BY <1>2, <1>3, SpaceBounds DEF SpaceServers, SpacePages, SpaceNumbers
<1>13. ASSUME ~v2'.wrong, v2'.space # None, v3'.source = v2'.space, v3'.up, ~v3'.mail, ~RefreshWaits(v2', v3'),
              ver # v1.log[of]
       PROVE  \E k \in Space!Ops : WillShow(v1', v2', v4'[k])
  <2>1. ~wrong /\ of = v2.space /\ v2.space # None  BY <1>6, <1>7, <1>13
  <2>2. ver < v1.log[of]  BY <1>3, <1>12, <1>13
  <2>3. ~v2.wrong /\ ~(v2.of = v2.space /\ v2.ver = v1.log[v2.space])  BY <1>6, <1>12, <2>1, <2>2
  <2>4. v3.source = v2.space /\ v3.up /\ ~v3.mail /\ ~RefreshWaits(v2, v3)
    BY <1>1, <1>7, <1>13 DEF RefreshWaits
  <2>5. PICK k \in Space!Ops : WillShow(v1, v2, v4[k])  BY <2>1, <2>3, <2>4 DEF SpaceInv, ChangeComes
  <2>6. k # o
    <3>1. SUFFICES ASSUME k = o PROVE FALSE  OBVIOUS
    <3>2. v4[k].at = "read" /\ v4[k].of = v2.space /\ v4[k].ver = ver  BY <1>1, <1>6, <2>1, <3>1
    <3> QED  BY <1>13, <2>1, <2>5, <3>2 DEF WillShow
  <2>7. v4'[k] = v4[k]  BY <1>8, <2>6
  <2> QED  BY <1>1, <1>7, <2>5, <2>7 DEF WillShow
<1>14. v2'.ver = ver /\ (~v2'.wrong => v2'.of = v2'.space /\ of = v2'.space)  BY <1>6, <1>7
<1>15. ChangeComes(v1', v2', v3', v4')  BY <1>1, <1>13, <1>14 DEF ChangeComes
<1> QED  BY <1>1, <1>10, <1>11, <1>15 DEF SpaceInv

\* The end of a load opens the stream of the selected space, or leaves it.
LEMMA SpaceRestKeeps == ASSUME SpaceInv, NEW o \in Space!Ops, Space!RestLoaded(o) PROVE SpaceInv'
<1> DEFINE c == Space!Connected(v3, v2.space)
           e == IF v4[o].kind \in Space!Listing THEN c ELSE v3
<1>1. v1' = v1 /\ v4[o].at = "rest" /\ Space!Finish(o, v2, e)  BY DEF Space!RestLoaded
<1>2. /\ v2 \in SpacePages /\ v3 \in SpaceStreams
      /\ v2.space \in SpaceNames /\ v3.pending \in SpaceNames /\ None \in SpaceNames
  BY DEF SpaceInv, SpaceTyped, SpacePages, SpaceStreams, SpaceNames
<1>3. e \in SpaceStreams /\ (e = v3 \/ ~e.up)
  <2>1. CASE v3.source # None /\ v3.source = v2.space  BY <1>2, <2>1 DEF Space!Connected
  <2>2. CASE ~(v3.source # None /\ v3.source = v2.space)
    <3> DEFINE pending == v3.pending
               space == v2.space
    <3>1. c = [Space!Closed EXCEPT !.pending = pending, !.source = space]  BY <2>2 DEF Space!Connected
    <3>2. ~Space!Closed.up  BY DEF Space!Closed
    <3> HIDE DEF c, pending, space
    <3>3. c \in SpaceStreams /\ ~c.up
      <4>1. pending \in SpaceNames /\ space \in SpaceNames  BY <1>2 DEF pending, space
      <4> QED  BY <3>1, <3>2, <4>1, SpaceBounds DEF SpaceStreams
    <3> QED  BY <1>2, <3>3
  <2> QED  BY <2>1, <2>2
<1> HIDE DEF e
<1>4. /\ v2' \in SpacePages /\ v3' \in SpaceStreams /\ v4' \in [Space!Ops -> SpaceOps]
      /\ v2'.space = v2.space /\ v2'.of = v2.of /\ v2'.ver = v2.ver /\ v2'.wrong = v2.wrong
      /\ v3'.source = e.source /\ v3'.up = e.up /\ v3'.mail = e.mail
      /\ v2.space # None /\ RefreshWaits(v2, e) => RefreshWaits(v2', v3')
      /\ v4'[o].at \in {"none", "list"} /\ \A k \in Space!Ops \ {o} : v4'[k] = v4[k]
  BY <1>1, <1>2, <1>3, FinishIs DEF SpaceInv
<1>5. \A k \in Space!Ops : OpIsOf(v1, v4'[k])  BY <1>4, OpsAfterEnd
<1>6. SpaceTyped'  BY <1>1, <1>4 DEF SpaceInv, SpaceTyped
<1>7. CASE ~e.up
  <2>1. ChangeComes(v1', v2', v3', v4')  BY <1>4, <1>7 DEF ChangeComes
  <2> QED  BY <1>1, <1>5, <1>6, <2>1 DEF SpaceInv
<1>8. CASE e = v3
  <2>1. SameView /\ SameStream  BY <1>1, <1>4, <1>8 DEF SameView, SameStream
  <2>2. v2.space # None /\ RefreshWaits(v2, v3) => RefreshWaits(v2', v3')  BY <1>4, <1>8
  <2>3. ASSUME NEW k \in Space!Ops, WillShow(v1, v2', v4[k]) PROVE WillShow(v1, v2', v4'[k])
    <3>1. k # o  BY <1>1, <2>3 DEF WillShow
    <3> QED  BY <1>4, <2>3, <3>1
  <2>4. (\E k \in Space!Ops : WillShow(v1, v2', v4[k])) => \E k \in Space!Ops : WillShow(v1, v2', v4'[k])
    BY <2>3
  <2> QED  BY <1>5, <1>6, <2>1, <2>2, <2>4, ChangeStillComes
<1> QED  BY <1>3, <1>7, <1>8

LEMMA SpaceStepKeeps == ASSUME SpaceInv, Space!Next \/ UNCHANGED <<v1, v2, v3, v4>> PROVE SpaceInv'
<1>1. CASE UNCHANGED <<v1, v2, v3, v4>>  BY <1>1 DEF SpaceInv, SpaceTyped
<1>2. CASE Space!Next
  <2>1. ASSUME NEW o \in Space!Ops,
               \/ Space!Refused(o) \/ Space!Acted(o) \/ Space!ListReplied(o)
               \/ Space!SpaceRead(o) \/ Space!SpaceReplied(o) \/ Space!RestLoaded(o)
        PROVE  SpaceInv'
    BY <2>1, SpaceRefusedKeeps, SpaceActedKeeps, SpaceListKeeps, SpaceReadKeeps, SpaceRepliedKeeps, SpaceRestKeeps
  <2>2. CASE Space!RefreshAsked
             \/ \E kind \in Space!Busy \cup Space!Listing \cup Space!Changing \cup {"open"}, want \in Convs \cup {None} :
                  Space!Clicked(kind, want)
    BY <2>2, SpaceClicksKeep
  <2>3. CASE Space!SourceOpened \/ Space!SourceLost \/ Space!EventArrives  BY <2>3, SpaceStreamKeeps
  <2>4. CASE Space!TimerFires  BY <2>4, SpaceTimerKeeps
  <2>5. CASE Space!Others  BY <2>5, SpaceOthersKeep
  <2> QED  BY <1>2, <2>1, <2>2, <2>3, <2>4, <2>5 DEF Space!Next
<1> QED  BY <1>1, <1>2

LEMMA SpaceIs == ASSUME SpaceInv PROVE Space!TypeOK /\ Space!QuietPageIsCurrent
<1>1. Space!TypeOK
  BY DEF SpaceInv, SpaceTyped, Space!TypeOK, SpaceServers, SpacePages, SpaceStreams, SpaceOps, SpaceKinds, SpaceNames,
         SpaceNumbers
<1>2. ASSUME \A o \in Space!Ops : v4[o] = Space!NoOp PROVE ~\E o \in Space!Ops : WillShow(v1, v2, v4[o])
  BY <1>2, SpaceBounds DEF WillShow
<1>3. Space!QuietPageIsCurrent  BY <1>2 DEF SpaceInv, ChangeComes, RefreshWaits, Space!QuietPageIsCurrent
<1> QED  BY <1>1, <1>3

SpacePart == which = "space" => SpaceInv

LEMMA SpaceStart == Init => SpacePart
  BY PagesConstants, SpaceInitEstablishes DEF Init, SpacePart

LEMMA SpaceStep == SpacePart /\ [Next]_vars => SpacePart'
<1> SUFFICES ASSUME SpacePart, [Next]_vars PROVE SpacePart'
  OBVIOUS
<1>1. CASE which = "space"
  <2>1. Space!Next \/ UNCHANGED <<v1, v2, v3, v4>>
    BY <1>1 DEF Next, vars, Step, Space!vars
  <2>2. which' = "space"  BY <1>1 DEF Next, vars, Step
  <2> QED  BY <1>1, <2>1, <2>2, PagesConstants, SpaceStepKeeps DEF SpacePart
<1>2. CASE which # "space"  BY <1>2 DEF Next, vars, Step, SpacePart
<1> QED  BY <1>1, <1>2

-----------------------------------------------------------------------------
(* What the invariants say. *)

LEMMA MediaIs == MediaInv => Media!TypeOK /\ Media!RefreshKeepsConnection
<1> SUFFICES ASSUME MediaInv PROVE Media!TypeOK /\ Media!RefreshKeepsConnection  OBVIOUS
<1>1. Media!TypeOK
  BY DEF MediaInv, MediaTyped, Media!TypeOK, MediaIds, MediaPages, MediaOps, MediaTasks, MediaLoads, Latest
<1>2. Media!RefreshKeepsConnection  BY DEF MediaInv, MediaRows, Connects, Media!RefreshKeepsConnection
<1> QED  BY <1>1, <1>2

LEMMA RadioIs == RadioInv => Radio!TypeOK /\ Radio!FloorAccounted /\ Radio!RecordsItsFloor
<1> SUFFICES ASSUME RadioInv PROVE Radio!TypeOK /\ Radio!FloorAccounted /\ Radio!RecordsItsFloor  OBVIOUS
<1>1. Radio!TypeOK
  BY DEF RadioInv, RadioTyped, Radio!TypeOK, RadioPages, RadioOps, StopTasks, Losses, FloorNumbers, BurstStates,
         Radio!Floors
<1>2. Radio!FloorAccounted  BY DEF RadioInv, Held, Radio!FloorAccounted
<1>3. Radio!RecordsItsFloor  BY DEF RadioInv, RadioTalk, Radio!RecordsItsFloor
<1> QED  BY <1>1, <1>2, <1>3

-----------------------------------------------------------------------------
(* The theorems. *)

\* While the page connects to a session that is live and joined at the server, it shows that
\* session, however late the loads asked before it come (but a load that failed):
\* group_v3_app.js, connectMedia, mediaAction and loadMediaSession.
THEOREM MediaSurvivesRefresh == Spec => []RefreshKeepsConnection
<1>1. Init => MediaPart  BY MediaStart
<1>2. MediaPart /\ [Next]_vars => MediaPart'  BY MediaStep
<1>3. MediaPart => RefreshKeepsConnection
  BY MediaIs DEF MediaPart, RefreshKeepsConnection
<1> QED  BY <1>1, <1>2, <1>3, PTL DEF Spec

\* Whatever crosses on the Radio page, a burst that talks at the server is the page's, that of
\* an overtaken attempt about to return it, or left to its lease, and the recorder runs only for
\* the floor the page holds (until a late reply has ended a newer talk): group_v3_app.js,
\* startRadio, stopRadio, radioDeviceLost and leaveRadio, and group_radio_recording.js.
THEOREM FloorKnownToPage == Spec => []FloorAccounted
<1>1. Init => RadioPart  BY RadioStart
<1>2. RadioPart /\ [Next]_vars => RadioPart'  BY RadioStep
<1>3. RadioPart => FloorAccounted
  BY RadioIs DEF RadioPart, FloorAccounted
<1> QED  BY <1>1, <1>2, <1>3, PTL DEF Spec

\* What the pages show, once nothing is under way, is what their servers hold (but for the
\* failures and the overtaken answers each module names, and not of a console of security
\* events that is filtered, or whose answer was cut at its limit): the spaces and their events
\* (group_v3_app.js: refreshAll, loadSpace, queueGroupEventRefresh), the translation panel, the
\* history of the translations, the microphone of the translator and of the message form, the
\* contacts, the mailbox lock (messaging_core_v2.js), the alerts, the worker's cache, the
\* presence the heartbeats told (assistant.js) and the console of security events.
THEOREM SettledPagesAreTrue == Spec => []SettledPageIsTrue
<1> DEFINE All == /\ SpacePart /\ PanelPart /\ HistoryPart /\ LivePart /\ NotePart /\ RailPart /\ MailboxPart
                  /\ AlertsPart /\ WorkerPart /\ HeardPart /\ SecurityPart
<1>1. Init => All
  BY SpaceStart, PanelStart, HistoryStart, LiveStart, NoteStart, RailStart, MailboxStart, AlertsStart, WorkerStart,
     HeardStart, SecurityStart
<1>2. All /\ [Next]_vars => All'
  BY SpaceStep, PanelStep, HistoryStep, LiveStep, NoteStep, RailStep, MailboxStep, AlertsStep, WorkerStep, HeardStep,
     SecurityStep
<1>3. All => SettledPageIsTrue
  <2> SUFFICES ASSUME All PROVE SettledPageIsTrue  OBVIOUS
  <2>1. /\ which = "space" => Space!QuietPageIsCurrent
        /\ which = "panel" => Panel!ToldIsShown
    BY SpaceIs, PanelIs DEF SpacePart, PanelPart
  <2>2. /\ which = "history" => History!ListFollows
        /\ which = "live" => Live!WaitHasCause
        /\ which = "note" => Note!BusyHasCause
    BY HistoryIs, LiveIs, NoteIs DEF HistoryPart, LivePart, NotePart
  <2>3. /\ which = "contacts" => Rail!ShownIsTrue
        /\ which = "mailbox" => Mailbox!LockIsTold
        /\ which = "alerts" => Alerts!PanelIsTrue
    BY RailIs, MailboxIs, AlertsIs DEF RailPart, MailboxPart, AlertsPart
  <2>4. /\ which = "worker" => Worker!WorkerSettled
        /\ which = "poll" => Poll!HiddenIsTold
        /\ which = "security" => Security!ConsoleFollows
    BY WorkerIs, HeardIs, SecurityIs DEF WorkerPart, HeardPart, SecurityPart
  <2> QED  BY <2>1, <2>2, <2>3, <2>4 DEF SettledPageIsTrue
<1> QED
  <2> HIDE DEF All
  <2> QED  BY <1>1, <1>2, <1>3, PTL DEF Spec

\* The state of every part keeps its type.
THEOREM PagesTyped == Spec => []PagesTypeOK
<1> DEFINE RestTyped == which \in {"send", "scanner", "ringtone", "negotiation", "poll", "legacy", "devices", "note",
                                   "chat", "live", "history", "thread", "speech"} => PagesTypeOK
           All == /\ RailPart /\ MailboxPart /\ AlertsPart /\ SecurityPart /\ WorkerPart /\ RadioPart /\ MediaPart
                  /\ SpacePart /\ PanelPart /\ which \in Parts
<1>1. Init => All
  <2>1. Init => which \in Parts  BY DEF Init
  <2> QED
    BY <2>1, RailStart, MailboxStart, AlertsStart, SecurityStart, WorkerStart, RadioStart, MediaStart, SpaceStart,
       PanelStart
<1>2. All /\ [Next]_vars => All'
  <2>1. which \in Parts /\ [Next]_vars => (which \in Parts)'  BY DEF Next, vars, Step
  <2> QED
    BY <2>1, RailStep, MailboxStep, AlertsStep, SecurityStep, WorkerStep, RadioStep, MediaStep, SpaceStep, PanelStep
<1>3. All /\ RestTyped => PagesTypeOK
  <2> SUFFICES ASSUME All, RestTyped PROVE PagesTypeOK  OBVIOUS
  <2>1. CASE which \in {"send", "scanner", "ringtone", "negotiation", "poll", "legacy", "devices", "note", "chat",
                        "live", "history", "thread", "speech"}
    BY <2>1
  <2>2. CASE which \notin {"send", "scanner", "ringtone", "negotiation", "poll", "legacy", "devices", "note", "chat",
                           "live", "history", "thread", "speech"}
    <3>1. /\ which = "contacts" => Rail!TypeOK
          /\ which = "mailbox" => Mailbox!TypeOK
          /\ which = "alerts" => Alerts!TypeOK
      BY RailIs, MailboxIs, AlertsIs DEF RailPart, MailboxPart, AlertsPart
    <3>2. /\ which = "security" => Security!TypeOK
          /\ which = "worker" => Worker!TypeOK
      BY SecurityIs, WorkerIs DEF SecurityPart, WorkerPart
    <3>3. /\ which = "radio" => Radio!TypeOK
          /\ which = "media" => Media!TypeOK
      BY RadioIs, MediaIs DEF RadioPart, MediaPart
    <3>4. /\ which = "space" => Space!TypeOK
          /\ which = "panel" => Panel!TypeOK
      BY SpaceIs, PanelIs DEF SpacePart, PanelPart
    <3> QED  BY <2>2, <3>1, <3>2, <3>3, <3>4 DEF PagesTypeOK
  <2> QED  BY <2>1, <2>2
<1>4. Spec => []RestTyped  BY PartsTyped
<1> QED
  <2> HIDE DEF All, RestTyped
  <2> QED  BY <1>1, <1>2, <1>3, <1>4, PTL DEF Spec
=============================================================================
