-------------------------- MODULE RadioFloorProofs --------------------------
(***************************************************************************)
(* Theorems of RadioFloor for any members, tokens and handlers.            *)
(***************************************************************************)
EXTENDS RadioFloor, TLAPS

USE DEF vars, dbVars

Places == {"idle"} \cup BeforeValkey \cup AfterValkey
Handler == [pc : Places, m : Members \cup {None}, t : Tokens \cup {None}]

-----------------------------------------------------------------------------
(* The three ways a handler's record changes keep its type.                *)
LEMMA ReturnType ==
    ASSUME req \in [Requests -> Handler], NEW r \in Requests, Return(r)
    PROVE  req' \in [Requests -> Handler]
  BY DEF Return, Idle, Handler, Places

LEMMA GotoType ==
    ASSUME req \in [Requests -> Handler], NEW r \in Requests, NEW pc \in Places, Goto(r, pc)
    PROVE  req' \in [Requests -> Handler]
  BY DEF Goto, Handler

LEMMA BeginType ==
    ASSUME req \in [Requests -> Handler], NEW r \in Requests, NEW pc \in Places,
           NEW m \in Members, NEW t \in Tokens \cup {None}, Begin(r, pc, m, t)
    PROVE  req' \in [Requests -> Handler]
  BY DEF Begin, Handler

RowsOK ==
    /\ session \in {"ready", "ended"}
    /\ members \subseteq Members /\ ready \subseteq Members
    /\ part \in [Members -> PartStates]
    /\ speaker \in [Tokens -> Members \cup {None}]
    /\ burst \in [Tokens -> BurstStates] /\ job \in [Tokens -> JobStates]

FloorOK ==
    /\ floor \in Tokens \cup {None}
    /\ recon \in [pc : {"idle", "looking"}, todo : SUBSET Tokens, lost : SUBSET Tokens]

LEMMA TypeParts == TypeOK <=> RowsOK /\ FloorOK /\ req \in [Requests -> Handler]
  BY DEF TypeOK, RowsOK, FloorOK, Handler, Places

LEMMA TypePartsNext == TypeOK' <=> RowsOK' /\ FloorOK' /\ req' \in [Requests -> Handler]
  BY DEF TypeOK, RowsOK, FloorOK, Handler, Places

LEMMA FloorAfterType ==
    ASSUME TypeOK, NEW r \in Requests, req[r].pc \in BeforeValkey
    PROVE  FloorAfter(r) \in Tokens \cup {None}
  BY DEF TypeOK, FloorAfter, At

LEMMA CommandType == ASSUME TypeOK, NEW r \in Requests, Command(r) PROVE TypeOK'
  <1>0. RowsOK /\ FloorOK /\ req \in [Requests -> Handler]
    BY TypeParts
  <1>1. RowsOK'
    BY <1>0 DEF RowsOK, Command, AcquireSet, Release, UndoAcquire, HeartbeatPastDeadline,
                HeartbeatReturns, ReleaseMembership, EndSnapshot, ValkeyFails
  <1>2. req[r].pc \in BeforeValkey
    BY DEF Command, AcquireSet, Release, UndoAcquire, HeartbeatPastDeadline,
           HeartbeatReturns, ReleaseMembership, EndSnapshot, ValkeyFails, At, BeforeValkey
  <1>3. recon' = recon /\ floor' \in {floor, FloorAfter(r), None}
    BY DEF Command, AcquireSet, Release, UndoAcquire, HeartbeatPastDeadline,
           HeartbeatReturns, ReleaseMembership, EndSnapshot, ValkeyFails
  <1>4. FloorOK'
    BY <1>0, <1>2, <1>3, FloorAfterType DEF FloorOK
  <1>5. Return(r) \/ \E pc \in AfterValkey : Goto(r, pc)
    BY DEF Command, AcquireSet, Release, UndoAcquire, HeartbeatPastDeadline,
           HeartbeatReturns, ReleaseMembership, EndSnapshot, ValkeyFails, AfterValkey
  <1>6. req' \in [Requests -> Handler]
    BY <1>0, <1>5, ReturnType, GotoType DEF Places
  <1> QED BY <1>1, <1>4, <1>6, TypePartsNext

LEMMA CommitType == ASSUME TypeOK, NEW r \in Requests, Commit(r) PROVE TypeOK'
  <1>0. RowsOK /\ FloorOK /\ req \in [Requests -> Handler]
    BY TypeParts
  <1>1. FloorOK'
    BY <1>0 DEF FloorOK, Commit, RecordBurst, RecordRefused, StopBurst, DeviceLost,
                LeaveCommit, EndCommit
  <1>2. Return(r) \/ Goto(r, "undoing")
    BY DEF Commit, RecordBurst, RecordRefused, StopBurst, DeviceLost, LeaveCommit, EndCommit
  <1>3. req' \in [Requests -> Handler]
    BY <1>0, <1>2, ReturnType, GotoType DEF Places, BeforeValkey
  <1>4. RowsOK'
    <2>1. CASE RecordBurst(r)
      BY <1>0, <2>1 DEF RecordBurst, RowsOK, BurstStates
    <2>2. CASE RecordRefused(r)
      BY <1>0, <2>2 DEF RecordRefused, RowsOK
    <2>3. CASE StopBurst(r)
      BY <1>0, <2>3 DEF StopBurst, Close, RowsOK, BurstStates, JobStates
    <2>4. CASE DeviceLost(r)
      BY <1>0, <2>4 DEF DeviceLost, Close, RowsOK, BurstStates, JobStates
    <2>5. CASE LeaveCommit(r)
      BY <1>0, <2>5 DEF LeaveCommit, RowsOK, BurstStates, PartStates
    <2>6. CASE EndCommit(r)
      BY <1>0, <2>6 DEF EndCommit, RowsOK, PartStates
    <2> QED BY <2>1, <2>2, <2>3, <2>4, <2>5, <2>6 DEF Commit
  <1> QED BY <1>1, <1>3, <1>4, TypePartsNext

LEMMA CallType == ASSUME TypeOK, NEW r \in Requests, Call(r) PROVE TypeOK'
  <1>0. RowsOK /\ FloorOK /\ req \in [Requests -> Handler]
    BY TypeParts
  <1> USE DEF Places, BeforeValkey
  <1>1. ASSUME NEW m \in Members, NEW t \in Tokens, Acquire(r, m, t) PROVE TypeOK'
    BY <1>0, <1>1, BeginType, TypePartsNext DEF Acquire, RowsOK, FloorOK
  <1>2. ASSUME NEW t \in Tokens, NEW pc \in {"beating", "stopping", "losing"},
               TokenRequest(r, pc, t)
        PROVE  TypeOK'
    <2>1. speaker[t] \in Members
      BY <1>0, <1>2 DEF TokenRequest, RowsOK
    <2> QED BY <1>0, <1>2, <2>1, BeginType, TypePartsNext DEF TokenRequest, RowsOK, FloorOK
  <1>3. ASSUME NEW m \in Members, Leave(r, m) \/ EndForAll(r, m) PROVE TypeOK'
    BY <1>0, <1>3, BeginType, TypePartsNext DEF Leave, EndForAll, RowsOK, FloorOK
  <1>4. ASSUME NEW m \in Members, RemoveMember(r, m) PROVE TypeOK'
    <2>1. req' \in [Requests -> Handler]
      BY <1>0, <1>4, BeginType DEF RemoveMember
    <2>2. RowsOK' /\ FloorOK'
      BY <1>0, <1>4 DEF RemoveMember, RowsOK, FloorOK, BurstStates, JobStates, PartStates
    <2> QED BY <2>1, <2>2, TypePartsNext
  <1> QED BY <1>1, <1>2, <1>3, <1>4 DEF Call

(* Every action keeps the types.                                           *)
LEMMA TypeStep == TypeOK /\ [Next]_vars => TypeOK'
  <1> SUFFICES ASSUME TypeOK, [Next]_vars PROVE TypeOK'
    OBVIOUS
  <1>1. CASE UNCHANGED vars
    BY <1>1 DEF TypeOK
  <1>2. ASSUME NEW r \in Requests, Call(r) \/ Command(r) \/ Commit(r) PROVE TypeOK'
    BY <1>2, CallType, CommandType, CommitType
  <1>3. ASSUME NEW m \in Members, Join(m) \/ Reject(m) \/ AddMember(m) PROVE TypeOK'
    BY <1>3 DEF Join, Reject, AddMember, TypeOK, PartStates
  <1>4. ASSUME NEW S \in SUBSET Tokens, ReconcileStart(S) PROVE TypeOK'
    BY <1>4 DEF ReconcileStart, TypeOK
  <1>5. ASSUME NEW t \in Tokens, ReconcileLook(t) PROVE TypeOK'
    BY <1>5 DEF ReconcileLook, TypeOK
  <1>6. CASE ReconcileFails
    BY <1>6 DEF ReconcileFails, ReconIdle, TypeOK
  <1>7. CASE ReconcileApply
    BY <1>7 DEF ReconcileApply, ReconIdle, TypeOK, BurstStates, JobStates
  <1>8. CASE DeleteSpace
    BY <1>8 DEF DeleteSpace, TypeOK, PartStates
  <1>9. CASE LeaseExpires
    BY <1>9 DEF LeaseExpires, TypeOK
  <1>10. CASE Crash
    BY <1>10 DEF Crash, Idle, ReconIdle, TypeOK
  <1> QED
    BY <1>1, <1>2, <1>3, <1>4, <1>5, <1>6, <1>7, <1>8, <1>9, <1>10 DEF Next

LEMMA TypeInit == Init => TypeOK
  BY DEF Init, TypeOK, Idle, ReconIdle, PartStates, BurstStates, JobStates

(* The rows, the floor key and the handlers keep their types.              *)
THEOREM TypeCorrect == Spec => []TypeOK
  BY TypeInit, TypeStep, PTL DEF Spec

-----------------------------------------------------------------------------
(* What a handler knows of the token it acts for: while it acquires, the   *)
(* token has no burst and nobody else acquires with it; while it closes,   *)
(* the token has a burst of this actor.                                    *)
Acquiring == {"acquiring", "acquired"}
Closing == {"beating", "stopping", "losing", "stopped", "lost"}

ActsFor(r) ==
    /\ req[r].t \in Tokens /\ req[r].m \in Members
    /\ speaker[req[r].t] = req[r].m

RequestsOK ==
    /\ \A r \in Requests : req[r].pc \in Acquiring => ActsFor(r) /\ burst[req[r].t] = "none"
    /\ \A r, q \in Requests :
          req[r].pc \in Acquiring /\ req[q].pc \in Acquiring /\ req[r].t = req[q].t => r = q
    /\ \A r \in Requests : req[r].pc \in Closing => ActsFor(r) /\ burst[req[r].t] # "none"

IssuedOK == \A t \in Tokens : burst[t] # "none" => speaker[t] \in Members

HandlersInv == TypeOK /\ RequestsOK /\ IssuedOK

(* Every step but record_burst keeps which tokens have a burst.            *)
SameBursts == \A t \in Tokens : burst'[t] = "none" <=> burst[t] = "none"

(* A handler that returns or gives up, over rows that keep their bursts.   *)
LEMMA ReturnHandlers ==
    ASSUME HandlersInv, TypeOK', NEW r \in Requests, SameBursts, UNCHANGED speaker,
           Return(r) \/ Goto(r, "undoing")
    PROVE  RequestsOK' /\ IssuedOK'
  <1> USE DEF HandlersInv
  <1>1. req \in [Requests -> Handler]
    BY TypeParts
  <1>2. \A q \in Requests : IF q = r THEN req'[q].pc \in {"idle", "undoing"}
                            ELSE req'[q] = req[q]
    BY <1>1 DEF Return, Goto, Idle, Handler
  <1>3. RequestsOK'
    BY <1>2 DEF RequestsOK, ActsFor, Acquiring, Closing, SameBursts
  <1>4. IssuedOK'
    BY DEF IssuedOK, SameBursts
  <1> QED BY <1>3, <1>4

(* A handler moves on with its token and its actor.                        *)
LEMMA SameTokens ==
    ASSUME RequestsOK, UNCHANGED <<burst, speaker>>,
           \A q \in Requests : req'[q].t = req[q].t /\ req'[q].m = req[q].m,
           \A q \in Requests : /\ req'[q].pc \in Acquiring => req[q].pc \in Acquiring
                               /\ req'[q].pc \in Closing => req[q].pc \in Closing
    PROVE  RequestsOK'
  <1>1. \A q \in Requests : ActsFor(q) => ActsFor(q)'
    BY DEF ActsFor
  <1>2. \A q \in Requests :
          req'[q].pc \in Acquiring => ActsFor(q)' /\ burst'[req'[q].t] = "none"
    BY <1>1 DEF RequestsOK
  <1>3. \A p, q \in Requests :
          req'[p].pc \in Acquiring /\ req'[q].pc \in Acquiring /\ req'[p].t = req'[q].t
             => p = q
    BY DEF RequestsOK
  <1>4. \A q \in Requests :
          req'[q].pc \in Closing => ActsFor(q)' /\ burst'[req'[q].t] # "none"
    BY <1>1 DEF RequestsOK
  <1> QED BY <1>2, <1>3, <1>4 DEF RequestsOK

LEMMA CommandHandlers ==
    ASSUME HandlersInv, NEW r \in Requests, Command(r)
    PROVE  RequestsOK' /\ IssuedOK'
  <1> USE DEF HandlersInv
  <1>1. UNCHANGED <<burst, speaker>>
    BY DEF Command, AcquireSet, Release, UndoAcquire, HeartbeatPastDeadline,
           HeartbeatReturns, ReleaseMembership, EndSnapshot, ValkeyFails
  <1>2. \/ Return(r)
        \/ Goto(r, "acquired") /\ req[r].pc = "acquiring"
        \/ Goto(r, "stopped") /\ req[r].pc \in {"stopping", "beating"}
        \/ Goto(r, "lost") /\ req[r].pc = "losing"
        \/ Goto(r, "left") \/ Goto(r, "clear")
    BY DEF Command, AcquireSet, Release, UndoAcquire, HeartbeatPastDeadline,
           HeartbeatReturns, ReleaseMembership, EndSnapshot, ValkeyFails, At
  <1>3. req \in [Requests -> Handler]
    BY TypeParts
  <1>4. IssuedOK'
    BY <1>1 DEF IssuedOK
  <1>5. CASE Return(r)
    BY <1>1, <1>5, CommandType, ReturnHandlers DEF SameBursts
  <1>6. ASSUME NEW pc \in Places, Goto(r, pc)
        PROVE  \A q \in Requests :
                  req'[q] = IF q = r THEN [pc |-> pc, m |-> req[r].m, t |-> req[r].t] ELSE req[q]
    BY <1>3, <1>6 DEF Goto, Handler
  <1> DEFINE Moved(pc) == \A q \in Requests :
                  req'[q] = IF q = r THEN [pc |-> pc, m |-> req[r].m, t |-> req[r].t] ELSE req[q]
  <1>7. CASE Goto(r, "acquired") /\ req[r].pc = "acquiring"
    <2>1. Moved("acquired")
      BY <1>6, <1>7 DEF Places, AfterValkey
    <2> QED BY <1>1, <1>4, <1>7, <2>1, SameTokens DEF Acquiring, Closing
  <1>8. CASE Goto(r, "stopped") /\ req[r].pc \in {"stopping", "beating"}
    <2>1. Moved("stopped")
      BY <1>6, <1>8 DEF Places, AfterValkey
    <2> QED BY <1>1, <1>4, <1>8, <2>1, SameTokens DEF Acquiring, Closing
  <1>9. CASE Goto(r, "lost") /\ req[r].pc = "losing"
    <2>1. Moved("lost")
      BY <1>6, <1>9 DEF Places, AfterValkey
    <2> QED BY <1>1, <1>4, <1>9, <2>1, SameTokens DEF Acquiring, Closing
  <1>10. CASE Goto(r, "left")
    <2>1. Moved("left")
      BY <1>6, <1>10 DEF Places, AfterValkey
    <2> QED BY <1>1, <1>4, <1>10, <2>1, SameTokens DEF Acquiring, Closing
  <1>11. CASE Goto(r, "clear")
    <2>1. Moved("clear")
      BY <1>6, <1>11 DEF Places, AfterValkey
    <2> QED BY <1>1, <1>4, <1>11, <2>1, SameTokens DEF Acquiring, Closing
  <1> QED BY <1>2, <1>4, <1>5, <1>7, <1>8, <1>9, <1>10, <1>11

LEMMA CommitHandlers ==
    ASSUME HandlersInv, NEW r \in Requests, Commit(r)
    PROVE  RequestsOK' /\ IssuedOK'
  <1> USE DEF HandlersInv
  <1>0. TypeOK'
    BY CommitType
  <1>1. CASE RecordBurst(r)
    <2>1. req \in [Requests -> Handler] /\ burst \in [Tokens -> BurstStates]
      BY TypeParts DEF RowsOK
    <2>2. /\ \A q \in Requests : IF q = r THEN req'[q].pc = "idle" ELSE req'[q] = req[q]
          /\ ActsFor(r) /\ req[r].pc \in Acquiring
          /\ burst' = [burst EXCEPT ![req[r].t] = "talking"]
          /\ speaker' = speaker
      BY <1>1, <2>1 DEF RecordBurst, At, Return, Idle, RequestsOK, Acquiring
    <2>3. \A q \in Requests \ {r} : req[q].pc \in Acquiring => req[q].t # req[r].t
      BY <2>2 DEF RequestsOK
    <2>4. \A t \in Tokens : /\ t # req[r].t => burst'[t] = burst[t]
                           /\ t = req[r].t => burst'[t] = "talking"
      BY <2>1, <2>2 DEF ActsFor
    <2>5. RequestsOK'
      BY <2>2, <2>3, <2>4 DEF RequestsOK, ActsFor, Acquiring, Closing
    <2>6. IssuedOK'
      BY <2>2, <2>4 DEF IssuedOK, ActsFor
    <2> QED BY <2>5, <2>6
  <1>2. CASE ~RecordBurst(r)
    <2>1. Return(r) \/ Goto(r, "undoing")
      BY DEF Commit, RecordBurst, RecordRefused, StopBurst, DeviceLost, LeaveCommit, EndCommit
    <2>2. SameBursts /\ speaker' = speaker
      BY <1>2, TypeParts DEF Commit, RecordRefused, StopBurst, DeviceLost, LeaveCommit,
         EndCommit, Close, SameBursts, RowsOK, TalkingOf, Talking
    <2> QED BY <1>0, <2>1, <2>2, ReturnHandlers
  <1> QED BY <1>1, <1>2

LEMMA CallHandlers ==
    ASSUME HandlersInv, NEW r \in Requests, Call(r)
    PROVE  RequestsOK' /\ IssuedOK'
  <1> USE TokensAssumption DEF HandlersInv
  <1>0. /\ req \in [Requests -> Handler] /\ speaker \in [Tokens -> Members \cup {None}]
        /\ burst \in [Tokens -> BurstStates] /\ job \in [Tokens -> JobStates]
    BY TypeParts DEF RowsOK
  <1>1. ASSUME NEW m \in Members, NEW t \in Tokens, Acquire(r, m, t)
        PROVE  RequestsOK' /\ IssuedOK'
    <2>1. /\ speaker[t] = None /\ UNCHANGED burst
          /\ \A q \in Requests : IF q = r
               THEN req'[q] = [pc |-> "acquiring", m |-> m, t |-> t] ELSE req'[q] = req[q]
          /\ \A u \in Tokens : speaker'[u] = IF u = t THEN m ELSE speaker[u]
      BY <1>0, <1>1 DEF Acquire, Begin
    <2>2. burst[t] = "none"
      BY <2>1 DEF IssuedOK
    <2>3. \A q \in Requests \ {r} : req[q].pc \in Acquiring \cup Closing => req[q].t # t
      BY <2>1 DEF RequestsOK, ActsFor
    <2>4. RequestsOK'
      BY <2>1, <2>2, <2>3 DEF RequestsOK, ActsFor, Acquiring, Closing
    <2>5. IssuedOK'
      BY <2>1 DEF IssuedOK
    <2> QED BY <2>4, <2>5
  <1>2. ASSUME NEW t \in Tokens, NEW pc \in {"beating", "stopping", "losing"},
               TokenRequest(r, pc, t)
        PROVE  RequestsOK' /\ IssuedOK'
    <2>1. /\ burst[t] = "talking" /\ UNCHANGED <<burst, speaker>>
          /\ \A q \in Requests : IF q = r
               THEN req'[q] = [pc |-> pc, m |-> speaker[t], t |-> t] ELSE req'[q] = req[q]
      BY <1>0, <1>2 DEF TokenRequest, Begin
    <2>2. speaker[t] \in Members
      BY <2>1 DEF IssuedOK
    <2>3. RequestsOK'
      BY <2>1, <2>2 DEF RequestsOK, ActsFor, Acquiring, Closing
    <2> QED BY <2>1, <2>3 DEF IssuedOK
  <1>3. ASSUME NEW m \in Members, Leave(r, m) \/ EndForAll(r, m) \/ RemoveMember(r, m)
        PROVE  RequestsOK' /\ IssuedOK'
    <2>1. SameBursts /\ speaker' = speaker
      BY <1>0, <1>3 DEF Leave, EndForAll, RemoveMember, SameBursts
    <2>2. \A q \in Requests : IF q = r THEN req'[q].pc \in {"leaving", "ending", "removing"}
                              ELSE req'[q] = req[q]
      BY <1>0, <1>3 DEF Leave, EndForAll, RemoveMember, Begin
    <2>3. RequestsOK'
      BY <2>1, <2>2 DEF RequestsOK, ActsFor, Acquiring, Closing, SameBursts
    <2> QED BY <2>1, <2>3 DEF IssuedOK, SameBursts
  <1> QED BY <1>1, <1>2, <1>3 DEF Call

LEMMA HandlersStep == HandlersInv /\ [Next]_vars => HandlersInv'
  <1> SUFFICES ASSUME HandlersInv, [Next]_vars PROVE RequestsOK' /\ IssuedOK'
    BY TypeStep DEF HandlersInv
  <1>1. ASSUME NEW r \in Requests, Call(r) \/ Command(r) \/ Commit(r)
        PROVE  RequestsOK' /\ IssuedOK'
    BY <1>1, CallHandlers, CommandHandlers, CommitHandlers
  <1>2. CASE Crash
    BY <1>2 DEF HandlersInv, Crash, Idle, RequestsOK, IssuedOK, Acquiring, Closing
  <1>3. ASSUME SameBursts, UNCHANGED <<speaker, req>> PROVE RequestsOK' /\ IssuedOK'
    <2>1. \A r \in Requests : ActsFor(r) => ActsFor(r)'
      BY <1>3 DEF ActsFor
    <2>2. IssuedOK'
      BY <1>3 DEF HandlersInv, IssuedOK, SameBursts
    <2>3. \A r \in Requests : req'[r] = req[r]
      BY <1>3
    <2>4. RequestsOK'
      BY <2>1, <2>3, <1>3 DEF HandlersInv, RequestsOK, SameBursts, ActsFor
    <2> QED BY <2>2, <2>4
  <1>4. CASE ReconcileApply
    BY <1>3, <1>4, TypeParts DEF HandlersInv, ReconcileApply, SameBursts, RowsOK, Talking
  <1>5. CASE \/ \E m \in Members : Join(m) \/ Reject(m) \/ AddMember(m)
             \/ \E S \in SUBSET Tokens : ReconcileStart(S)
             \/ \E t \in Tokens : ReconcileLook(t)
             \/ ReconcileFails \/ DeleteSpace \/ LeaseExpires \/ UNCHANGED vars
    BY <1>3, <1>5 DEF Join, Reject, AddMember, ReconcileStart, ReconcileLook, ReconcileFails,
       DeleteSpace, LeaseExpires, SameBursts
  <1> QED BY <1>1, <1>2, <1>4, <1>5 DEF Next

LEMMA HandlersInit == Init => HandlersInv
  BY TypeInit DEF Init, HandlersInv, RequestsOK, IssuedOK, Idle, Acquiring, Closing

-----------------------------------------------------------------------------
(* The bursts themselves.  Each invariant needs the others: the burst that *)
(* is closed is the only one talking (so nobody else's device goes with    *)
(* it), a burst talks without a job, and a handler records a burst only    *)
(* for a token that has none.                                              *)
BurstsOK == OneTalkingBurst /\ JobMatchesBurst /\ SpeakerIsPresent

BurstInv == HandlersInv /\ BurstsOK

ClosedStays ==
    \A t \in Tokens :
        burst[t] \notin {"none", "talking"} =>
           \/ burst'[t] = burst[t]
           \/ burst[t] = "finalizing" /\ speaker[t] \in members \ members'

(* A step that leaves bursts and jobs alone: nobody loses the right to     *)
(* talk, or the session is over.                                           *)
Quiet ==
    /\ UNCHANGED <<burst, job>> /\ \A t \in Talking : speaker'[t] = speaker[t]
    /\ \/ session' = session /\ Present \subseteq Present'
       \/ session' = "ended" /\ Present' \subseteq Present

LEMMA MayTalkIs == \A m : MayTalk(m) <=> session = "ready" /\ m \in Present
  BY DEF MayTalk, Present

LEMMA MayTalkIsNext == \A m : MayTalk(m)' <=> session' = "ready" /\ m \in Present'
  BY DEF MayTalk, Present

LEMMA QuietStep == ASSUME BurstInv, Quiet PROVE BurstsOK' /\ ClosedStays
  <1>1. Talking' = Talking /\ \A t \in Talking : speaker'[t] = speaker[t]
    BY DEF Quiet, Talking
  <1>2. SpeakerIsPresent'
    <2> SUFFICES ASSUME NEW t \in Talking, session' = "ready" PROVE MayTalk(speaker[t])'
      BY <1>1 DEF SpeakerIsPresent
    <2>1. session = "ready" /\ Present \subseteq Present'
      BY DEF Quiet
    <2>2. MayTalk(speaker[t])
      BY <2>1 DEF BurstInv, BurstsOK, SpeakerIsPresent
    <2>3. speaker'[t] \in Present'
      BY <1>1, <2>1, <2>2, MayTalkIs
    <2> QED BY <2>3, MayTalkIsNext
  <1>3. OneTalkingBurst' /\ JobMatchesBurst' /\ ClosedStays
    BY <1>1 DEF Quiet, OneTalkingBurst, JobMatchesBurst, ClosedStays, BurstInv, BurstsOK
  <1> QED BY <1>2, <1>3 DEF BurstsOK

(* A step that closes the bursts of C, each with the job that goes with    *)
(* it, and takes the right to talk from nobody else who talks.             *)
ClosedNow(t) ==
    \/ burst'[t] = "finalizing" /\ job'[t] = "ready"
    \/ burst'[t] = "final" /\ job'[t] = "completed"
    \/ burst'[t] = "device_lost" /\ job'[t] \in {"none", "suppressed"}
    \/ burst'[t] = "failed" /\ job'[t] = "none"

Closes(C) ==
    /\ C \subseteq Tokens
    /\ \A t \in C : /\ \/ burst[t] = "talking"
                       \/ burst[t] = "finalizing" /\ speaker[t] \in members \ members'
                    /\ ClosedNow(t)
    /\ \A t \in Tokens \ C : burst'[t] = burst[t] /\ job'[t] = job[t]
    /\ \A t \in Talking \ C : MayTalk(speaker[t]) => MayTalk(speaker[t])'

Closings ==
    /\ UNCHANGED <<session, speaker>> /\ Present' \subseteq Present
    /\ \E C \in SUBSET Tokens : Closes(C)

LEMMA ClosingStep == ASSUME BurstInv, Closings PROVE BurstsOK' /\ ClosedStays
  <1>0. PICK C \in SUBSET Tokens : Closes(C)
    BY DEF Closings
  <1> USE <1>0 DEF Closings, Closes, ClosedNow
  <1>1. Talking' = Talking \ C
    BY DEF Talking
  <1>2. SpeakerIsPresent'
    BY <1>1 DEF SpeakerIsPresent, BurstInv, BurstsOK, MayTalk
  <1>3. OneTalkingBurst'
    BY <1>1 DEF OneTalkingBurst, BurstInv, BurstsOK
  <1>4. JobMatchesBurst'
    BY DEF JobMatchesBurst, BurstInv, BurstsOK
  <1>5. ClosedStays
    BY DEF ClosedStays
  <1> QED BY <1>2, <1>3, <1>4, <1>5 DEF BurstsOK

LEMMA RecordBurstBursts ==
    ASSUME BurstInv, NEW r \in Requests, RecordBurst(r)
    PROVE  BurstsOK' /\ ClosedStays
  <1>1. /\ MayTalk(req[r].m) /\ Talking = {} /\ burst' = [burst EXCEPT ![req[r].t] = "talking"]
        /\ UNCHANGED <<session, members, part, ready, speaker, job>>
    BY DEF RecordBurst
  <1>2. ActsFor(r) /\ burst[req[r].t] = "none"
    BY DEF RecordBurst, BurstInv, HandlersInv, RequestsOK, Acquiring, At
  <1>3. burst \in [Tokens -> BurstStates]
    BY DEF BurstInv, HandlersInv, TypeOK
  <1>4. \A t \in Tokens : burst'[t] = IF t = req[r].t THEN "talking" ELSE burst[t]
    BY <1>1, <1>2, <1>3 DEF ActsFor
  <1>5. Talking' = {req[r].t}
    BY <1>1, <1>2, <1>4 DEF Talking, ActsFor
  <1>6. OneTalkingBurst'
    BY <1>5 DEF OneTalkingBurst
  <1>7. SpeakerIsPresent'
    BY <1>1, <1>2, <1>5 DEF SpeakerIsPresent, MayTalk, ActsFor
  <1>8. JobMatchesBurst'
    BY <1>1, <1>2, <1>4 DEF JobMatchesBurst, BurstInv, BurstsOK
  <1>9. ClosedStays
    BY <1>2, <1>4 DEF ClosedStays
  <1> QED BY <1>6, <1>7, <1>8, <1>9 DEF BurstsOK

(* What the steps do to the bursts.                                        *)
Kinds == Quiet \/ Closings \/ \E r \in Requests : RecordBurst(r)

(* stop, device-lost and leave close a burst that is talking, or nothing.  *)
LEMMA CommitKinds == ASSUME BurstInv, NEW r \in Requests, Commit(r) PROVE Kinds
  <1>0. /\ burst \in [Tokens -> BurstStates] /\ job \in [Tokens -> JobStates]
        /\ part \in [Members -> PartStates] /\ session \in {"ready", "ended"}
    BY DEF BurstInv, HandlersInv, TypeOK
  <1>1. \A t, u \in Talking : t = u
    BY DEF BurstInv, BurstsOK, OneTalkingBurst
  <1>2. \A t \in Talking : job[t] = "none" /\ speaker[t] \in Members
    BY DEF BurstInv, BurstsOK, JobMatchesBurst, HandlersInv, IssuedOK, Talking
  <1>3. req[r].pc \in Closing => ActsFor(r)
    BY DEF BurstInv, HandlersInv, RequestsOK
  <1>4. CASE RecordBurst(r)
    BY <1>4 DEF Kinds
  <1>5. CASE RecordRefused(r)
    BY <1>5 DEF RecordRefused, Present, Quiet, Kinds
  <1>6. CASE StopBurst(r)
    <2> DEFINE C == {req[r].t}
    <2>1. CASE req[r].m \in members /\ burst[req[r].t] = "talking"
      <3>1. C \in SUBSET Tokens /\ UNCHANGED <<session, members, part, ready, speaker>>
        BY <1>3, <1>6 DEF StopBurst, At, Closing, ActsFor
      <3>2. \A t \in C : /\ burst[t] = "talking"
                         /\ \/ burst'[t] = "finalizing" /\ job'[t] = "ready"
                            \/ burst'[t] = "final" /\ job'[t] = "completed"
        BY <1>0, <1>6, <2>1, <3>1 DEF StopBurst, Close
      <3>3. \A t \in Tokens \ C : burst'[t] = burst[t] /\ job'[t] = job[t]
        BY <1>0, <1>6, <2>1, <3>1 DEF StopBurst, Close
      <3>4. \A t \in Talking \ C : MayTalk(speaker[t]) => MayTalk(speaker[t])'
        BY <3>1 DEF MayTalk
      <3>5. Present' \subseteq Present
        BY <3>1 DEF Present
      <3> HIDE DEF C
      <3>6. Closes(C) /\ C \in SUBSET Tokens
        BY <3>1, <3>2, <3>3, <3>4 DEF Closes, ClosedNow
      <3> QED BY <3>1, <3>5, <3>6 DEF Closings, Kinds
    <2>2. CASE ~(req[r].m \in members /\ burst[req[r].t] = "talking")
      BY <1>6, <2>2 DEF StopBurst, Present, Quiet, Kinds
    <2> QED BY <2>1, <2>2
  <1>7. CASE DeviceLost(r)
    <2> DEFINE C == {req[r].t}
    <2>1. CASE req[r].m \in members /\ burst[req[r].t] = "talking"
      <3>1. req[r].t \in Talking /\ UNCHANGED <<session, members, part, speaker>>
        BY <1>3, <1>7, <2>1 DEF DeviceLost, At, Closing, ActsFor, Talking
      <3>2. \A t \in C : burst[t] = "talking" /\ burst'[t] = "device_lost" /\ job'[t] = "suppressed"
        BY <1>0, <1>7, <2>1, <3>1 DEF DeviceLost, Close, Talking
      <3>3. \A t \in Tokens \ C : burst'[t] = burst[t] /\ job'[t] = job[t]
        BY <1>0, <1>7, <2>1, <3>1 DEF DeviceLost, Close, Talking
      <3>4. Talking \ C = {} /\ C \in SUBSET Tokens
        BY <1>1, <3>1 DEF Talking
      <3>5. Present' \subseteq Present
        BY <1>7, <2>1, <3>1 DEF DeviceLost, Present
      <3> HIDE DEF C
      <3>6. Closes(C)
        BY <3>1, <3>2, <3>3, <3>4 DEF Closes, ClosedNow
      <3> QED BY <3>1, <3>4, <3>5, <3>6 DEF Closings, Kinds
    <2>2. CASE ~(req[r].m \in members /\ burst[req[r].t] = "talking")
      BY <1>7, <2>2 DEF DeviceLost, Present, Quiet, Kinds
    <2> QED BY <2>1, <2>2
  <1>8. CASE LeaveCommit(r)
    <2> DEFINE m == req[r].m
    <2> DEFINE C == TalkingOf(m)
    <2>1. CASE m \in members /\ part[m] # "left"
      <3>1. /\ part' = [part EXCEPT ![m] = "left"]
            /\ \A t \in Tokens : burst'[t] = IF t \in TalkingOf(m) THEN "failed" ELSE burst[t]
            /\ UNCHANGED <<session, members, ready, speaker, job>>
        BY <1>8, <2>1 DEF LeaveCommit
      <3>2. C \in SUBSET Tokens /\ \A t \in C : t \in Talking
        BY DEF TalkingOf, Talking
      <3>3. \A t \in Talking \ C : MayTalk(speaker[t]) => MayTalk(speaker[t])'
        BY <1>0, <1>2, <3>1 DEF TalkingOf, MayTalk
      <3>4. \A t \in C : burst[t] = "talking" /\ burst'[t] = "failed" /\ job'[t] = "none"
        BY <1>2, <3>1, <3>2 DEF Talking
      <3>5. \A t \in Tokens \ C : burst'[t] = burst[t] /\ job'[t] = job[t]
        BY <3>1
      <3>6. UNCHANGED <<session, speaker>> /\ Present' \subseteq Present
        BY <1>0, <3>1 DEF Present
      <3> HIDE DEF C
      <3>7. Closes(C)
        BY <3>2, <3>3, <3>4, <3>5 DEF Closes, ClosedNow
      <3> QED BY <3>2, <3>6, <3>7 DEF Closings, Kinds
    <2>2. CASE ~(m \in members /\ part[m] # "left")
      BY <1>8, <2>2 DEF LeaveCommit, Present, Quiet, Kinds
    <2> QED BY <2>1, <2>2
  <1>9. CASE EndCommit(r)
    <2>1. UNCHANGED <<burst, job, speaker, members, ready>>
      BY <1>9 DEF EndCommit
    <2>2. \/ session' = "ended" /\ \A m \in Members : part'[m] # "joined"
          \/ UNCHANGED <<session, part>>
      BY <1>0, <1>9 DEF EndCommit
    <2>3. members \subseteq Members
      BY DEF BurstInv, HandlersInv, TypeOK
    <2> QED BY <2>1, <2>2, <2>3 DEF Present, Quiet, Kinds
  <1> QED BY <1>4, <1>5, <1>6, <1>7, <1>8, <1>9 DEF Commit

(* Removing a member closes what the member has open, with its job.        *)
LEMMA RemoveMemberCloses ==
    ASSUME BurstInv, NEW r \in Requests, NEW m \in Members, RemoveMember(r, m)
    PROVE  Closings
  <1> DEFINE open == {t \in Tokens : speaker[t] = m /\ burst[t] \in {"talking", "finalizing"}}
  <1>0. /\ burst \in [Tokens -> BurstStates] /\ job \in [Tokens -> JobStates]
        /\ part \in [Members -> PartStates]
    BY DEF BurstInv, HandlersInv, TypeOK
  <1>1. /\ m \in members /\ members' = members \ {m} /\ UNCHANGED <<session, speaker>>
        /\ \A t \in Tokens : burst'[t] = IF t \in open THEN "device_lost" ELSE burst[t]
        /\ \A t \in Tokens : job'[t] = IF t \in open /\ job[t] = "ready"
                                       THEN "suppressed" ELSE job[t]
    BY DEF RemoveMember
  <1>2. \A p \in Members \ {m} : part'[p] = part[p] /\ (p \in ready => p \in ready')
    BY <1>0 DEF RemoveMember
  <1>3. \A t \in Talking : speaker[t] \in Members
    BY DEF BurstInv, HandlersInv, IssuedOK, Talking
  <1>4. \A t \in Talking \ open : MayTalk(speaker[t]) => MayTalk(speaker[t])'
    BY <1>1, <1>2, <1>3 DEF MayTalk, Talking
  <1>5. \A t \in open : /\ burst[t] = "talking" \/ burst[t] = "finalizing"
                        /\ speaker[t] \in members \ members'
                        /\ burst'[t] = "device_lost" /\ job'[t] \in {"none", "suppressed"}
    BY <1>1 DEF BurstInv, BurstsOK, JobMatchesBurst
  <1>6. \A t \in Tokens \ open : burst'[t] = burst[t] /\ job'[t] = job[t]
    BY <1>1
  <1> HIDE DEF open
  <1>7. open \in SUBSET Tokens
    BY DEF open
  <1>8. Closes(open)
    BY <1>4, <1>5, <1>6, <1>7 DEF Closes, ClosedNow
  <1>9. Present' \subseteq Present
    <2>1. members \subseteq Members /\ ready' \subseteq ready
      BY DEF BurstInv, HandlersInv, TypeOK, RemoveMember
    <2> QED BY <1>1, <1>2, <2>1 DEF Present
  <1> QED BY <1>1, <1>7, <1>8, <1>9 DEF Closings

LEMMA ReconcileCloses == ASSUME BurstInv, ReconcileApply PROVE Closings
  <1> DEFINE closed == recon.lost \cap Talking
  <1>1. /\ UNCHANGED <<session, members, part, speaker>>
        /\ ready' = ready \ {speaker[t] : t \in closed}
        /\ \A t \in Tokens : burst'[t] = IF t \in closed THEN "device_lost" ELSE burst[t]
        /\ \A t \in Tokens : job'[t] = IF t \in closed THEN "suppressed" ELSE job[t]
    BY DEF ReconcileApply
  <1>2. \A t, u \in Talking : t = u
    BY DEF BurstInv, BurstsOK, OneTalkingBurst
  <1>3. closed \in SUBSET Tokens /\ \A t \in closed : t \in Talking /\ burst[t] = "talking"
    BY DEF Talking
  <1>4. \A t \in Talking \ closed : MayTalk(speaker[t]) => MayTalk(speaker[t])'
    <2>1. CASE closed = {}
      BY <1>1, <2>1 DEF MayTalk
    <2>2. CASE closed # {}
      BY <1>2, <2>2
    <2> QED BY <2>1, <2>2
  <1>5. \A t \in closed : burst'[t] = "device_lost" /\ job'[t] = "suppressed"
    BY <1>1, <1>3
  <1>6. \A t \in Tokens \ closed : burst'[t] = burst[t] /\ job'[t] = job[t]
    BY <1>1
  <1> HIDE DEF closed
  <1>7. Present' \subseteq Present
    BY <1>1 DEF Present
  <1>8. Closes(closed)
    BY <1>3, <1>4, <1>5, <1>6 DEF Closes, ClosedNow
  <1> QED BY <1>1, <1>3, <1>7, <1>8 DEF Closings

LEMMA StepKinds == ASSUME BurstInv, [Next]_vars PROVE Kinds
  <1>0. /\ speaker \in [Tokens -> Members \cup {None}] /\ part \in [Members -> PartStates]
        /\ \A t \in Talking : speaker[t] \in Members
        /\ members \subseteq Members
    BY DEF BurstInv, HandlersInv, TypeOK, IssuedOK, Talking
  <1>1. ASSUME NEW r \in Requests, NEW m \in Members, NEW t \in Tokens, Acquire(r, m, t) PROVE Kinds
    <2>1. speaker[t] = None /\ speaker' = [speaker EXCEPT ![t] = m]
      BY <1>1 DEF Acquire
    <2>2. \A u \in Talking : speaker'[u] = speaker[u]
      BY <1>0, <2>1, TokensAssumption DEF Talking
    <2> QED BY <1>1, <2>2 DEF Acquire, Present, Quiet, Kinds
  <1>2. ASSUME NEW r \in Requests, Commit(r) PROVE Kinds
    BY <1>2, CommitKinds
  <1>3. ASSUME NEW r \in Requests, NEW m \in Members, RemoveMember(r, m) PROVE Kinds
    BY <1>3, RemoveMemberCloses DEF Kinds
  <1>4. ASSUME UNCHANGED <<dbVars, speaker>> PROVE Kinds
    BY <1>4 DEF Present, Quiet, Kinds
  <1>5. ASSUME NEW r \in Requests,
               \/ \E t \in Tokens, pc \in {"beating", "stopping", "losing"} : TokenRequest(r, pc, t)
               \/ \E m \in Members : Leave(r, m) \/ EndForAll(r, m)
               \/ Command(r)
        PROVE  UNCHANGED <<dbVars, speaker>>
    BY <1>5 DEF TokenRequest, Leave, EndForAll, Command, AcquireSet, Release, UndoAcquire,
       HeartbeatPastDeadline, HeartbeatReturns, ReleaseMembership, EndSnapshot, ValkeyFails
  <1>6. CASE \/ \E S \in SUBSET Tokens : ReconcileStart(S)
             \/ \E t \in Tokens : ReconcileLook(t)
             \/ ReconcileFails \/ LeaseExpires \/ Crash \/ UNCHANGED vars
    <2>1. UNCHANGED <<dbVars, speaker>>
      BY <1>6 DEF ReconcileStart, ReconcileLook, ReconcileFails, LeaseExpires, Crash
    <2> QED BY <1>4, <2>1
  <1>7. CASE ReconcileApply
    BY <1>7, ReconcileCloses DEF Kinds
  <1>8. ASSUME NEW m \in Members, Join(m) \/ Reject(m) \/ AddMember(m) PROVE Kinds
    <2>1. UNCHANGED <<session, speaker, burst, job>>
      BY <1>8 DEF Join, Reject, AddMember
    <2>2. Present \subseteq Present'
      BY <1>0, <1>8 DEF Join, Reject, AddMember, Present
    <2> QED BY <2>1, <2>2 DEF Quiet, Kinds
  <1>9. CASE DeleteSpace
    <2>1. UNCHANGED <<speaker, burst, job>> /\ session' = "ended" /\ members' = {}
      BY <1>9 DEF DeleteSpace
    <2> QED BY <2>1 DEF Present, Quiet, Kinds
  <1> QED BY <1>1, <1>2, <1>3, <1>4, <1>5, <1>6, <1>7, <1>8, <1>9 DEF Next, Call

LEMMA BurstInit == Init => BurstInv
  <1> SUFFICES ASSUME Init PROVE BurstsOK
    BY HandlersInit DEF BurstInv
  <1>1. Talking = {} /\ \A t \in Tokens : burst[t] = "none" /\ job[t] = "none"
    BY DEF Init, Talking
  <1> QED BY <1>1 DEF BurstsOK, OneTalkingBurst, JobMatchesBurst, SpeakerIsPresent

LEMMA BurstInvStep == BurstInv /\ [Next]_vars => BurstInv' /\ ClosedStays
  <1> SUFFICES ASSUME BurstInv, [Next]_vars PROVE BurstsOK' /\ ClosedStays
    BY HandlersStep DEF BurstInv
  <1> QED BY StepKinds, QuietStep, ClosingStep, RecordBurstBursts DEF Kinds

LEMMA BurstInvHolds == Spec => []BurstInv
  BY BurstInit, BurstInvStep, PTL DEF Spec

(* At most one burst talks, whatever the order in which stop, device-lost, *)
(* leave, removal, the reconciliation and the next acquire interleave.     *)
THEOREM OneTalking == Spec => []OneTalkingBurst
  <1>1. BurstInv => OneTalkingBurst
    BY DEF BurstInv, BurstsOK
  <1> QED BY BurstInvHolds, <1>1, PTL

(* Nobody who left, was removed or lost the device has a talking burst     *)
(* while the session runs.                                                 *)
THEOREM SpeakerPresent == Spec => []SpeakerIsPresent
  <1>1. BurstInv => SpeakerIsPresent
    BY DEF BurstInv, BurstsOK
  <1> QED BY BurstInvHolds, <1>1, PTL

(* At most one person is heard, and while the session runs the person is   *)
(* there (record_burst against every other transaction).                   *)
THEOREM OneSpeakerThere == Spec => []OnePresentSpeaker
  BY OneTalking, SpeakerPresent, PTL DEF OnePresentSpeaker

(* A burst's processing job agrees with how the burst was closed.          *)
THEOREM JobMatches == Spec => []JobMatchesBurst
  <1>1. BurstInv => JobMatchesBurst
    BY DEF BurstInv, BurstsOK
  <1> QED BY BurstInvHolds, <1>1, PTL

(* The first to close a burst decides what becomes of it.                  *)
THEOREM FirstCloser == Spec => FirstCloserDecides
  <1>1. BurstInv /\ [Next]_vars =>
          [\A t \in Tokens :
              burst[t] \notin {"none", "talking"} =>
                 \/ burst'[t] = burst[t]
                 \/ burst[t] = "finalizing" /\ speaker[t] \in members \ members']_vars
    BY BurstInvStep DEF ClosedStays
  <1> QED BY BurstInvHolds, <1>1, PTL DEF Spec, FirstCloserDecides

-----------------------------------------------------------------------------
(* The turns of RadioTurns.                                                *)
Turn == {[by |-> speaker[t], clip |-> t] : t \in Talking}
Spent == {t \in Tokens : burst[t] # "none"}
Waiting == {t \in Tokens : job[t] = "ready"}

LEMMA TurnFacts ==
    ASSUME BurstInv
    PROVE  /\ Present \subseteq Members
           /\ \A t \in Talking, u \in Talking : t = u
           /\ \A t \in Talking : t \in Tokens /\ (session = "ready" => speaker[t] \in Present)
  BY MayTalkIs DEF BurstInv, BurstsOK, OneTalkingBurst, SpeakerIsPresent, HandlersInv, TypeOK, Present, Talking

LEMMA QuietTurn ==
    ASSUME BurstInv, BurstInv', Quiet
    PROVE  Turns!Arrive \/ Turns!Depart \/ Turns!Shut
  <1>1. Turn' = Turn /\ Spent' = Spent /\ Waiting' = Waiting
    <2>1. Talking' = Talking
      BY DEF Quiet, Talking
    <2> QED BY <2>1 DEF Quiet, Turn, Spent, Waiting
  <1>2. Present' \subseteq Members /\ session \in {"ready", "ended"}
    BY DEF BurstInv, HandlersInv, TypeOK, Present
  <1>3. CASE session' = session /\ Present \subseteq Present'
    BY <1>1, <1>2, <1>3 DEF Turns!Arrive, Turn, Spent, Waiting
  <1>4. CASE session' = "ended" /\ Present' \subseteq Present /\ session = "ready"
    BY <1>1, <1>4 DEF Turns!Shut, Turn, Spent, Waiting
  <1>5. CASE session' = "ended" /\ Present' \subseteq Present /\ session = "ended"
    BY <1>1, <1>5 DEF Turns!Depart, Turns!SpeakerStays, Turn, Spent, Waiting
  <1> QED BY <1>2, <1>3, <1>4, <1>5 DEF Quiet

LEMMA ClosingTurn == ASSUME BurstInv, BurstInv', Closings PROVE Turns!Fall \/ Turns!Depart
  <1>1. PICK C \in SUBSET Tokens : Closes(C)
    BY DEF Closings
  <1>2. Talking' = Talking \ C /\ Spent' = Spent
    BY <1>1 DEF Closes, ClosedNow, Talking, Spent
  <1>3. Waiting' \subseteq Waiting \cup (Talking \cap C)
    BY <1>1 DEF Closes, ClosedNow, Waiting, Talking, BurstInv, BurstsOK, JobMatchesBurst
  <1>4. Present' \subseteq Present /\ UNCHANGED <<session, speaker>>
    BY DEF Closings
  <1>5. CASE Talking \cap C # {}
    <2>1. Talking \subseteq C /\ Turn # {} /\ Turn' = {}
      BY <1>2, <1>5, TurnFacts DEF Turn
    <2>2. ASSUME NEW t \in Talking PROVE t \in {u.clip : u \in Turn}
      <3>1. [by |-> speaker[t], clip |-> t] \in Turn
        BY DEF Turn
      <3>2. [by |-> speaker[t], clip |-> t].clip = t
        OBVIOUS
      <3> QED BY <3>1, <3>2
    <2>3. Waiting' \subseteq Waiting \cup {t.clip : t \in Turn}
      BY <1>3, <2>2
    <2>4. Turns!Fall
      BY <1>2, <1>4, <2>1, <2>3 DEF Turns!Fall, Turns!Heard, Turn, Spent, Waiting
    <2> QED BY <2>4
  <1>6. CASE Talking \cap C = {}
    <2>1. Talking' = Talking
      BY <1>2, <1>6
    <2>2. Turn' = Turn
      BY <1>4, <2>1 DEF Turn
    <2>3. session' = "ready" => \A t \in Turn : t.by \in Present'
      <3>1. session' = "ready" => \A t \in Talking' : speaker'[t] \in Present'
        BY MayTalkIsNext DEF BurstInv, BurstsOK, SpeakerIsPresent
      <3> QED BY <1>4, <2>1, <3>1 DEF Turn
    <2>4. Turns!Depart
      BY <1>2, <1>3, <1>4, <1>6, <2>2, <2>3 DEF Turns!Depart, Turns!SpeakerStays, Turn, Spent, Waiting
    <2> QED BY <2>4
  <1> QED BY <1>5, <1>6

LEMMA RecordTurn ==
    ASSUME BurstInv, NEW r \in Requests, RecordBurst(r)
    PROVE  \E m \in Members, t \in Tokens : Turns!Speak(m, t)
  <1>0. ActsFor(r) /\ burst[req[r].t] = "none"
    BY DEF RecordBurst, BurstInv, HandlersInv, RequestsOK, Acquiring, At
  <1>1. PICK m \in Members, t \in Tokens : m = req[r].m /\ t = req[r].t /\ speaker[t] = m /\ burst[t] = "none"
    BY <1>0 DEF ActsFor
  <1>2. /\ session = "ready" /\ m \in Present /\ Talking = {} /\ burst' = [burst EXCEPT ![t] = "talking"]
        /\ UNCHANGED <<session, members, part, ready, speaker, job>>
    BY <1>1, MayTalkIs DEF RecordBurst
  <1>3. burst \in [Tokens -> BurstStates]
    BY DEF BurstInv, HandlersInv, TypeOK
  <1>4. \A u \in Tokens : burst'[u] = IF u = t THEN "talking" ELSE burst[u]
    BY <1>2, <1>3
  <1>5. Talking' = {t} /\ Spent' = Spent \cup {t} /\ t \notin Spent
    BY <1>1, <1>2, <1>3, <1>4 DEF Talking, Spent
  <1>6. Turn = {} /\ Turn' = {[by |-> m, clip |-> t]}
    BY <1>1, <1>2, <1>5 DEF Turn
  <1>7. Present' = Present /\ Waiting' = Waiting
    BY <1>2 DEF Present, Waiting
  <1>8. Turns!Speak(m, t)
    BY <1>2, <1>5, <1>6, <1>7 DEF Turns!Speak, Turn, Spent, Waiting
  <1> QED BY <1>8

LEMMA TurnStep == BurstInv /\ BurstInv' /\ [Next]_vars => [Turns!TurnsNext]_(Turns!radio)
  <1> SUFFICES ASSUME BurstInv, BurstInv', [Next]_vars PROVE Turns!TurnsNext
    OBVIOUS
  <1>1. CASE Quiet
    BY <1>1, QuietTurn DEF Turns!TurnsNext
  <1>2. CASE Closings
    BY <1>2, ClosingTurn DEF Turns!TurnsNext
  <1>3. ASSUME NEW r \in Requests, RecordBurst(r) PROVE Turns!TurnsNext
    BY <1>3, RecordTurn DEF Turns!TurnsNext
  <1> QED BY <1>1, <1>2, <1>3, StepKinds DEF Kinds

(* Push-to-talk implements the turns of RadioTurns: one speaker after the  *)
(* other, each present while the radio is open, and a clip is put up for   *)
(* processing by what ends its turn or never.                              *)
THEOREM FloorKeepsTurns == Spec => OneTurnAfterAnother
  <1>1. Init => Turns!TurnsInit
    <2> SUFFICES ASSUME Init PROVE Turns!TurnsInit
      OBVIOUS
    <2>1. session = "ready" /\ Present \subseteq Members
      BY DEF Init, Present
    <2>2. Turn = {} /\ Spent = {} /\ Waiting = {}
      BY DEF Init, Talking, Turn, Spent, Waiting
    <2> QED BY <2>1, <2>2 DEF Turns!TurnsInit, Turn, Spent, Waiting
  <1> QED BY <1>1, TurnStep, BurstInvHolds, PTL DEF Spec, OneTurnAfterAnother, Turns!TurnsSpec
=============================================================================
