------------------------- MODULE RoomManagerProofs -------------------------
(***************************************************************************)
(* Theorems of RoomManager for every set of participants and connections.  *)
(***************************************************************************)
EXTENDS RoomManager, FiniteSetTheorems, TLAPS

(* A connection slot no handler uses is neither registered nor does its    *)
(* token live.                                                             *)
IdleIsFree ==
    \A c \in Conns : pc[c] = "idle" => c \notin conns \cup tokens

RegistryInv == TypeOK /\ OneConnectionPerParticipant /\ IdleIsFree

USE DEF roomVars, handlerVars, vars, Statuses, PCs

-----------------------------------------------------------------------------
(* What disconnect does to the registry, for any set of connections.       *)
LEMMA DisconnectType ==
    ASSUME TypeOK, NEW S \in SUBSET Conns, Disconnect(S)
    PROVE  /\ status' \in Statuses /\ endedAt' \in {"no", "recent", "old"}
           /\ active' \in [Participants -> Conns \cup {None, Absent}]
           /\ conns' \subseteq Conns /\ stale' \subseteq conns' /\ tokens' \subseteq Conns
  BY DEF TypeOK, Disconnect

(* The finally block keeps the types of the handler's own state.           *)
LEMMA FinallyType ==
    ASSUME TypeOK, NEW c \in Conns, NEW S \in SUBSET Conns, Finally(c, S)
    PROVE  TypeOK'
  <1>1. S \cup {c} \in SUBSET Conns /\ Disconnect(S \cup {c})
    BY DEF Finally
  <1>2. /\ status' \in Statuses /\ endedAt' \in {"no", "recent", "old"}
        /\ active' \in [Participants -> Conns \cup {None, Absent}]
        /\ conns' \subseteq Conns /\ stale' \subseteq conns' /\ tokens' \subseteq Conns
    BY <1>1, DisconnectType
  <1>3. /\ owner' \in [Conns -> Participants \cup {None}]
        /\ ws' \in [Conns -> {"open", "closed"}]
        /\ pc' \in [Conns -> PCs]
        /\ targets' \in [Conns -> SUBSET Conns]
    BY DEF Finally, TypeOK
  <1> QED BY <1>2, <1>3 DEF TypeOK

LEMMA AdmitType ==
    ASSUME TypeOK, NEW c \in Conns, NEW p \in Participants,
           NEW R \in SUBSET Conns, NEW U \in SUBSET Conns, Admit(c, p, R, U)
    PROVE  TypeOK'
  BY DEF Admit, TypeOK

(* Every action keeps the types.                                           *)
LEMMA TypeStep == TypeOK /\ [Next]_vars => TypeOK'
  <1> SUFFICES ASSUME TypeOK, [Next]_vars PROVE TypeOK'
    OBVIOUS
  <1>1. CASE UNCHANGED vars
    BY <1>1 DEF TypeOK
  <1>2. ASSUME NEW c \in Conns, Join(c) PROVE TypeOK'
    <2>1. ASSUME NEW p \in Participants, Connect(c, p) PROVE TypeOK'
      BY <2>1, AdmitType DEF Connect
    <2>2. ASSUME NEW p \in Participants, NEW t \in Conns, Reconnect(c, p, t) PROVE TypeOK'
      <3>1. {active[p]} \cap conns \in SUBSET Conns /\ {t} \in SUBSET Conns
        BY DEF TypeOK
      <3> QED BY <2>2, <3>1, AdmitType DEF Reconnect
    <2> QED BY <1>2, <2>1, <2>2 DEF Join
  <1>3. ASSUME NEW c \in Conns, Handler(c) PROVE TypeOK'
    <2>0. \A S \in Failures(c) : S \in SUBSET Conns
      BY DEF Failures, TypeOK
    <2>1. CASE Greet(c)
      BY <2>1 DEF Greet, TypeOK
    <2>2. CASE GreetFails(c)
      BY <2>2 DEF GreetFails, TypeOK
    <2>3. CASE SentToAll(c) \/ SentFarewell(c)
      <3>1. PICK S \in SUBSET Conns : Disconnect(S)
        BY <2>0, <2>3 DEF SentToAll, SentFarewell
      <3>2. /\ status' \in Statuses /\ endedAt' \in {"no", "recent", "old"}
            /\ active' \in [Participants -> Conns \cup {None, Absent}]
            /\ conns' \subseteq Conns /\ stale' \subseteq conns' /\ tokens' \subseteq Conns
        BY <3>1, DisconnectType
      <3>3. /\ owner' \in [Conns -> Participants \cup {None}]
            /\ ws' \in [Conns -> {"open", "closed"}]
            /\ pc' \in [Conns -> PCs]
            /\ targets' \in [Conns -> SUBSET Conns]
        BY <2>3 DEF SentToAll, SentFarewell, TypeOK
      <3> QED BY <3>2, <3>3 DEF TypeOK
    <2>4. CASE SentEnded(c)
      BY <2>0, <2>4, FinallyType DEF SentEnded
    <2>5. CASE SocketClosed(c)
      BY <2>5, FinallyType DEF SocketClosed
    <2> QED BY <1>3, <2>1, <2>2, <2>3, <2>4, <2>5 DEF Handler
  <1>4. ASSUME NEW c \in Conns, Event(c) PROVE TypeOK'
    <2>1. CASE Heartbeat(c)
      BY <2>1 DEF Heartbeat, Receives, Refresh, TypeOK
    <2>2. CASE MediaEvent(c)
      BY <2>2 DEF MediaEvent, Receives, Refresh, Relay, TypeOK
    <2>3. ASSUME NEW q \in Participants, Signal(c, q) PROVE TypeOK'
      BY <2>3 DEF Signal, Receives, Refresh, Relay, TypeOK
    <2>4. CASE SessionEnding(c)
      BY <2>4 DEF SessionEnding, Receives, Refresh, Relay, TypeOK
    <2>5. CASE SessionEnded(c)
      BY <2>5 DEF SessionEnded, Receives, Refresh, Relay, TypeOK
    <2>6. CASE SessionLeave(c)
      BY <2>6, FinallyType DEF SessionLeave
    <2> QED BY <1>4, <2>1, <2>2, <2>3, <2>4, <2>5, <2>6 DEF Event
  <1>5. ASSUME NEW c \in Conns,
               ClientDrop(c) \/ GoStale(c) \/ ExpireToken(c) \/ Recycle(c)
        PROVE  TypeOK'
    BY <1>5 DEF ClientDrop, GoStale, ExpireToken, Recycle, TypeOK
  <1>6. CASE RejectedReconnect
    BY <1>6 DEF RejectedReconnect, TypeOK
  <1>7. CASE Cleanup
    BY <1>7 DEF Cleanup, CleanupWith, TypeOK
  <1>8. CASE AgeEnded
    BY <1>8 DEF AgeEnded, TypeOK
  <1>9. CASE Restart
    BY <1>9 DEF Restart, TypeOK
  <1> QED
    BY <1>1, <1>2, <1>3, <1>4, <1>5, <1>6, <1>7, <1>8, <1>9 DEF Next

LEMMA TypeInit == Init => TypeOK
  BY DEF Init, TypeOK

(* The state of a room and of its handlers keeps its types.                *)
THEOREM TypeCorrect == Spec => []TypeOK
  BY TypeInit, TypeStep, PTL DEF Spec

-----------------------------------------------------------------------------
(* Every step of the handlers and of the clients does to the room one of   *)
(* three things: let a connection in, disconnect a set of them, or leave   *)
(* the registry as it is and at most end the session.                      *)
NoNewIdle == \A c \in Conns : pc'[c] = "idle" => pc[c] = "idle"

DisconnectStep ==
    /\ NoNewIdle /\ owner' = owner
    /\ \E S \in SUBSET Conns : Disconnect(S)

StatusStep ==
    /\ UNCHANGED <<active, conns, tokens, owner>> /\ NoNewIdle
    /\ \/ UNCHANGED <<status, endedAt>>
       \/ status' = "ending" /\ UNCHANGED endedAt
       \/ status' = "ended" /\ endedAt' = "recent"
       \/ status = "none" /\ status' = "created" /\ UNCHANGED endedAt

StepKind ==
    \/ \E c \in Conns, p \in Participants : Connect(c, p)
    \/ \E c \in Conns, p \in Participants, t \in Conns : Reconnect(c, p, t)
    \/ DisconnectStep
    \/ StatusStep
    \/ Cleanup
    \/ \E t \in Conns : ExpireToken(t)
    \/ AgeEnded
    \/ Restart
    \/ \E c \in Conns : Recycle(c)

LEMMA FinallyDisconnects ==
    ASSUME TypeOK, NEW c \in Conns, NEW S \in SUBSET Conns, Finally(c, S)
    PROVE  DisconnectStep
  <1>1. S \cup {c} \in SUBSET Conns /\ Disconnect(S \cup {c}) /\ owner' = owner
    BY DEF Finally
  <1>2. NoNewIdle
    BY DEF Finally, NoNewIdle, TypeOK
  <1> QED BY <1>1, <1>2 DEF DisconnectStep

LEMMA StepKinds == TypeOK /\ [Next]_vars => StepKind
  <1> SUFFICES ASSUME TypeOK, [Next]_vars PROVE StepKind
    OBVIOUS
  <1>1. CASE UNCHANGED vars
    BY <1>1 DEF StepKind, StatusStep, NoNewIdle
  <1>2. ASSUME NEW c \in Conns, Join(c) PROVE StepKind
    BY <1>2 DEF Join, StepKind
  <1>3. ASSUME NEW c \in Conns, Handler(c) PROVE StepKind
    <2>0. \A S \in Failures(c) : S \in SUBSET Conns
      BY DEF Failures, TypeOK
    <2>1. CASE Greet(c) \/ GreetFails(c)
      <3>1. NoNewIdle
        BY <2>1 DEF Greet, GreetFails, NoNewIdle, TypeOK
      <3> QED BY <2>1, <3>1 DEF Greet, GreetFails, StepKind, StatusStep
    <2>2. CASE SentToAll(c) \/ SentFarewell(c)
      <3>1. NoNewIdle /\ owner' = owner
        BY <2>2 DEF SentToAll, SentFarewell, NoNewIdle, TypeOK
      <3>2. \E S \in SUBSET Conns : Disconnect(S)
        BY <2>0, <2>2 DEF SentToAll, SentFarewell
      <3> QED BY <3>1, <3>2 DEF DisconnectStep, StepKind
    <2>3. CASE SentEnded(c) \/ SocketClosed(c)
      <3>1. PICK S \in SUBSET Conns : Finally(c, S)
        BY <2>0, <2>3 DEF SentEnded, SocketClosed
      <3> QED BY <3>1, FinallyDisconnects DEF StepKind
    <2> QED BY <1>3, <2>1, <2>2, <2>3 DEF Handler
  <1>4. ASSUME NEW c \in Conns, Event(c) PROVE StepKind
    <2>1. CASE SessionLeave(c)
      BY <2>1, FinallyDisconnects DEF SessionLeave, StepKind
    <2>2. CASE Heartbeat(c)
      BY <2>2 DEF Heartbeat, StepKind, StatusStep, NoNewIdle
    <2>3. ASSUME NEW to, NEW next \in {"relaying", "ending"}, Relay(c, to, next)
          PROVE  NoNewIdle /\ owner' = owner
      BY <2>3 DEF Relay, NoNewIdle, TypeOK
    <2>4. CASE MediaEvent(c) \/ \E q \in Participants : Signal(c, q)
      <3>1. NoNewIdle /\ owner' = owner
        BY <2>3, <2>4 DEF MediaEvent, Signal
      <3> QED BY <2>4, <3>1 DEF MediaEvent, Signal, StepKind, StatusStep
    <2>5. CASE SessionEnding(c) \/ SessionEnded(c)
      <3>1. NoNewIdle /\ owner' = owner
        BY <2>3, <2>5 DEF SessionEnding, SessionEnded
      <3> QED BY <2>5, <3>1 DEF SessionEnding, SessionEnded, StepKind, StatusStep
    <2> QED BY <1>4, <2>1, <2>2, <2>4, <2>5 DEF Event
  <1>5. ASSUME NEW c \in Conns, ClientDrop(c) \/ GoStale(c) PROVE StepKind
    BY <1>5 DEF ClientDrop, GoStale, StepKind, StatusStep, NoNewIdle
  <1>6. CASE RejectedReconnect
    BY <1>6 DEF RejectedReconnect, StepKind, StatusStep, NoNewIdle
  <1> QED
    BY <1>1, <1>2, <1>3, <1>4, <1>5, <1>6 DEF Next, StepKind

-----------------------------------------------------------------------------
LEMMA RegistryStep == RegistryInv /\ [Next]_vars => RegistryInv'
  <1> SUFFICES ASSUME RegistryInv, [Next]_vars
               PROVE  (OneConnectionPerParticipant /\ IdleIsFree)'
    BY TypeStep DEF RegistryInv
  <1> USE ConnsAssumption, ParticipantsAssumption DEF RegistryInv
  <1>1. StepKind
    BY StepKinds
  <1>2. ASSUME NEW c \in Conns, NEW p \in Participants, Connect(c, p)
        PROVE  (OneConnectionPerParticipant /\ IdleIsFree)'
    BY <1>2 DEF Connect, FreshRefused, Admit, TypeOK, OneConnectionPerParticipant, IdleIsFree
  <1>3. ASSUME NEW c \in Conns, NEW p \in Participants, NEW t \in Conns, Reconnect(c, p, t)
        PROVE  (OneConnectionPerParticipant /\ IdleIsFree)'
    <2>1. /\ conns' = (conns \ ({active[p]} \cap conns)) \cup {c}
          /\ tokens' = (tokens \ {t}) \cup {c}
          /\ active' = [active EXCEPT ![p] = c]
          /\ owner' = [owner EXCEPT ![c] = p]
          /\ pc' = [pc EXCEPT ![c] = "greeting"]
          /\ c \notin conns
      BY <1>3 DEF Reconnect, Admit, IdleIsFree
    <2>2. ASSUME NEW d \in conns' PROVE owner'[d] \in Participants /\ active'[owner'[d]] = d
      <3>1. CASE d = c
        BY <2>1, <3>1 DEF TypeOK
      <3>2. CASE d # c
        <4>1. d \in conns /\ d # active[p] /\ owner'[d] = owner[d]
          BY <2>1, <3>2 DEF TypeOK
        <4>2. owner[d] \in Participants /\ active[owner[d]] = d
          BY <4>1 DEF OneConnectionPerParticipant
        <4> QED BY <2>1, <4>1, <4>2 DEF TypeOK
      <3> QED BY <3>1, <3>2
    <2>3. ASSUME NEW q \in Participants, active'[q] \in Conns
          PROVE  active'[q] \in conns' /\ owner'[active'[q]] = q
      <3>1. CASE q = p
        BY <2>1, <3>1 DEF TypeOK
      <3>2. CASE q # p
        <4>1. active'[q] = active[q] /\ active[q] \in conns
          BY <2>1, <2>3, <3>2 DEF TypeOK, OneConnectionPerParticipant
        <4>2. owner[active[q]] = q /\ active[q] # active[p]
          BY <2>3, <3>2, <4>1 DEF OneConnectionPerParticipant
        <4> QED BY <2>1, <4>1, <4>2 DEF TypeOK
      <3> QED BY <3>1, <3>2
    <2>4. IdleIsFree'
      BY <2>1 DEF IdleIsFree, TypeOK
    <2> QED BY <2>2, <2>3, <2>4 DEF OneConnectionPerParticipant
  <1>4. CASE DisconnectStep
    BY <1>4 DEF DisconnectStep, NoNewIdle, Disconnect, TypeOK,
                OneConnectionPerParticipant, IdleIsFree
  <1>5. CASE StatusStep
    BY <1>5 DEF StatusStep, NoNewIdle, OneConnectionPerParticipant, IdleIsFree
  <1>6. CASE Cleanup
    BY <1>6 DEF Cleanup, CleanupWith, TypeOK, OneConnectionPerParticipant, IdleIsFree
  <1>7. ASSUME NEW t \in Conns, ExpireToken(t)
        PROVE  (OneConnectionPerParticipant /\ IdleIsFree)'
    BY <1>7 DEF ExpireToken, OneConnectionPerParticipant, IdleIsFree
  <1>8. CASE AgeEnded
    BY <1>8 DEF AgeEnded, OneConnectionPerParticipant, IdleIsFree
  <1>9. CASE Restart
    BY <1>9 DEF Restart, OneConnectionPerParticipant, IdleIsFree
  <1>10. ASSUME NEW c \in Conns, Recycle(c)
         PROVE  (OneConnectionPerParticipant /\ IdleIsFree)'
    BY <1>10 DEF Recycle, Forgotten, TypeOK, OneConnectionPerParticipant, IdleIsFree
  <1> QED
    BY <1>1, <1>2, <1>3, <1>4, <1>5, <1>6, <1>7, <1>8, <1>9, <1>10 DEF StepKind

LEMMA RegistryInit == Init => RegistryInv
  BY TypeInit, ConnsAssumption DEF Init, RegistryInv, OneConnectionPerParticipant, IdleIsFree

(* A participant never has two registered connections, and the one it has  *)
(* is the one its state names: what disconnect, called by a handler that   *)
(* ends late, removes is never the connection that took its place.         *)
THEOREM OneConnection == Spec => []OneConnectionPerParticipant
  <1>1. RegistryInv => OneConnectionPerParticipant
    BY DEF RegistryInv
  <1> QED BY RegistryInit, RegistryStep, <1>1, PTL DEF Spec

-----------------------------------------------------------------------------
(* The reconnect path of connect does not count the participants: it is    *)
(* safe because the holder of a live token still has its ParticipantState. *)
(* That holds as long as a room is dropped only after its tokens expired.  *)
EndedStaysOver == endedAt # "no" => Over

OldMeansSpent == endedAt = "old" => tokens = {}

TokenHolderJoined ==
    \A t \in tokens : owner[t] \in Participants /\ active[owner[t]] # Absent

CapacityInv ==
    /\ RegistryInv
    /\ EndedStaysOver /\ OldMeansSpent /\ TokenHolderJoined
    /\ RoomWithinCapacity

LEMMA JoinedIsFinite == IsFiniteSet(Joined) /\ IsFiniteSet(Joined')
  BY ParticipantsAssumption, FS_Subset DEF Joined

(* The inductive step for the tokens.                                      *)
LEMMA TokenStep ==
    ASSUME EndedCacheOutlivesTokens, CapacityInv, [Next]_vars
    PROVE  (EndedStaysOver /\ OldMeansSpent /\ TokenHolderJoined)'
  <1> DEFINE Goal == (EndedStaysOver /\ OldMeansSpent /\ TokenHolderJoined)'
  <1> USE ConnsAssumption DEF CapacityInv, RegistryInv, TokenHolderJoined, TypeOK
  <1>1. StepKind
    BY StepKinds
  <1>2. ASSUME NEW c \in Conns, NEW p \in Participants, Connect(c, p) PROVE Goal
    BY <1>2 DEF Connect, Admit, EndedStaysOver, OldMeansSpent, IdleIsFree
  <1>3. ASSUME NEW c \in Conns, NEW p \in Participants, NEW t \in Conns, Reconnect(c, p, t)
        PROVE  Goal
    BY <1>3 DEF Reconnect, Admit, EndedStaysOver, OldMeansSpent, IdleIsFree
  <1>4. CASE DisconnectStep
    BY <1>4 DEF DisconnectStep, Disconnect, EndedStaysOver, OldMeansSpent, Over
  <1>5. CASE StatusStep
    BY <1>5 DEF StatusStep, EndedStaysOver, OldMeansSpent, Over
  <1>6. CASE Cleanup
    <2>1. EndedStaysOver'
      BY <1>6 DEF Cleanup, CleanupWith, EndedStaysOver, Over
    <2>2. OldMeansSpent'
      BY <1>6 DEF Cleanup, CleanupWith, OldMeansSpent
    <2>3. TokenHolderJoined'
      BY <1>6 DEF Cleanup, CleanupWith, OldMeansSpent
    <2> QED BY <2>1, <2>2, <2>3
  <1>7. ASSUME NEW t \in Conns, ExpireToken(t) PROVE Goal
    BY <1>7 DEF ExpireToken, EndedStaysOver, OldMeansSpent, Over
  <1>8. CASE AgeEnded
    BY <1>8 DEF AgeEnded, EndedStaysOver, OldMeansSpent, Over
  <1>9. CASE Restart
    BY <1>9 DEF Restart, EndedStaysOver, OldMeansSpent
  <1>10. ASSUME NEW c \in Conns, Recycle(c) PROVE Goal
    BY <1>10 DEF Recycle, Forgotten, EndedStaysOver, OldMeansSpent, Over
  <1> QED
    BY <1>1, <1>2, <1>3, <1>4, <1>5, <1>6, <1>7, <1>8, <1>9, <1>10 DEF StepKind

(* The inductive step for the capacity.                                    *)
LEMMA CapacityStep ==
    ASSUME CapacityInv, [Next]_vars
    PROVE  RoomWithinCapacity'
  <1> USE ConnsAssumption, CapacityAssumption DEF CapacityInv, RegistryInv
  <1>1. StepKind
    BY StepKinds
  <1>2. Joined' \subseteq Joined => RoomWithinCapacity'
    <2> HAVE Joined' \subseteq Joined
    <2>1. Cardinality(Joined') <= Cardinality(Joined)
      BY JoinedIsFinite, FS_Subset
    <2> QED BY <2>1, JoinedIsFinite, FS_CardinalityType DEF RoomWithinCapacity
  <1>3. ASSUME NEW c \in Conns, NEW p \in Participants, Connect(c, p)
        PROVE  RoomWithinCapacity'
    <2>1. CASE active[p] # Absent
      BY <1>2, <1>3, <2>1 DEF Connect, Admit, Joined, TypeOK
    <2>2. CASE active[p] = Absent
      <3>1. Cardinality(Joined) < MaxRoomParticipants
        BY <1>3, <2>2, JoinedIsFinite, FS_CardinalityType DEF Connect, FreshRefused
      <3>2. Joined' = Joined \cup {p} /\ p \notin Joined
        BY <1>3, <2>2 DEF Connect, Admit, Joined, TypeOK
      <3>3. Cardinality(Joined') = Cardinality(Joined) + 1
        BY <3>2, JoinedIsFinite, FS_AddElement
      <3> QED BY <3>1, <3>3, JoinedIsFinite, FS_CardinalityType DEF RoomWithinCapacity
    <2> QED BY <2>1, <2>2
  <1>4. ASSUME NEW c \in Conns, NEW p \in Participants, NEW t \in Conns, Reconnect(c, p, t)
        PROVE  RoomWithinCapacity'
    <2>1. active[p] # Absent
      BY <1>4 DEF Reconnect, TokenHolderJoined
    <2> QED BY <1>2, <1>4, <2>1 DEF Reconnect, Admit, Joined, TypeOK
  <1>5. CASE DisconnectStep
    <2>1. Joined' \subseteq Joined
      BY <1>5 DEF DisconnectStep, Disconnect, Joined, TypeOK
    <2> QED BY <1>2, <2>1
  <1>6. CASE Cleanup
    <2>1. Joined' \subseteq Joined
      BY <1>6 DEF Cleanup, CleanupWith, Joined, TypeOK
    <2> QED BY <1>2, <2>1
  <1>7. CASE Restart
    <2>1. Joined' \subseteq Joined
      BY <1>7 DEF Restart, Joined
    <2> QED BY <1>2, <2>1
  <1>8. ASSUME active' = active PROVE RoomWithinCapacity'
    <2>1. Joined' \subseteq Joined
      BY <1>8 DEF Joined
    <2> QED BY <1>2, <2>1
  <1>9. StatusStep \/ AgeEnded \/ (\E t \in Conns : ExpireToken(t) \/ Recycle(t))
          => active' = active
    BY DEF StatusStep, AgeEnded, ExpireToken, Recycle
  <1> QED
    BY <1>1, <1>3, <1>4, <1>5, <1>6, <1>7, <1>8, <1>9 DEF StepKind

LEMMA CapacityInit == Init => CapacityInv
  <1> SUFFICES ASSUME Init PROVE CapacityInv
    OBVIOUS
  <1>1. RegistryInv
    BY RegistryInit
  <1>2. EndedStaysOver /\ OldMeansSpent /\ TokenHolderJoined
    BY DEF Init, EndedStaysOver, OldMeansSpent, TokenHolderJoined
  <1>3. Joined = {}
    BY DEF Init, Joined
  <1>4. RoomWithinCapacity
    BY <1>3, FS_EmptySet, CapacityAssumption DEF RoomWithinCapacity
  <1> QED BY <1>1, <1>2, <1>4 DEF CapacityInv

(* A room never holds more than max_room_participants participants, as     *)
(* long as the ended cache of a room outlives its reconnect tokens.        *)
THEOREM Capacity ==
    ASSUME EndedCacheOutlivesTokens
    PROVE  Spec => []RoomWithinCapacity
  <1>1. CapacityInv /\ [Next]_vars => CapacityInv'
    BY TokenStep, CapacityStep, RegistryStep DEF CapacityInv
  <1>2. CapacityInv => RoomWithinCapacity
    BY DEF CapacityInv
  <1> QED BY CapacityInit, <1>1, <1>2, PTL DEF Spec

-----------------------------------------------------------------------------
(* Once a session is over nobody enters its room, and no handler that ends *)
(* late makes it joinable again; only dropping the room does.              *)
THEOREM EndedStaysEnded == Spec => NoResurrection
  <1> DEFINE Step == Over => /\ conns' \subseteq conns
                            /\ status' \in {"ending", "ended", "none"}
  <1>1. TypeOK /\ [Next]_vars => Step
    <2> SUFFICES ASSUME TypeOK, [Next]_vars, Over PROVE Step
      OBVIOUS
    <2>1. StepKind
      BY StepKinds
    <2>2. ~ \E c \in Conns, p \in Participants : Connect(c, p)
      BY DEF Connect
    <2>3. ~ \E c \in Conns, p \in Participants, t \in Conns : Reconnect(c, p, t)
      BY DEF Reconnect
    <2>4. CASE DisconnectStep
      BY <2>4 DEF DisconnectStep, Disconnect, Over
    <2>5. CASE StatusStep
      BY <2>5 DEF StatusStep, Over
    <2>6. CASE Cleanup
      BY <2>6 DEF Cleanup, CleanupWith, Over
    <2>7. CASE AgeEnded \/ Restart \/ \E t \in Conns : ExpireToken(t) \/ Recycle(t)
      BY <2>7 DEF AgeEnded, Restart, ExpireToken, Recycle, Over
    <2> QED BY <2>1, <2>2, <2>3, <2>4, <2>5, <2>6, <2>7 DEF StepKind
  <1>2. TypeOK /\ [Next]_vars => [Step]_vars
    BY <1>1
  <1> QED BY TypeCorrect, <1>2, PTL DEF Spec, NoResurrection
-----------------------------------------------------------------------------
(* Why a connection may go away in a step.                                 *)
Excused(c) ==
    \/ pc[c] \in {"loop", "ending"} /\ pc'[c] = "farewell"
    \/ ws[c] = "closed" \/ c \in stale
    \/ \E d \in conns' \ conns : owner'[d] = owner[c]
    \/ status' = "none"

(* A handler that ends takes its own connection out, and of the others     *)
(* only those whose socket is closed.                                      *)
LEMMA FinallyExcused ==
    ASSUME TypeOK, NEW c \in Conns, pc[c] \in {"loop", "ending"},
           NEW S \in SUBSET {t \in Conns : ws[t] = "closed"}, Finally(c, S),
           NEW d \in conns \ conns'
    PROVE  Excused(d)
  <1>1. d \in Conns /\ (d = c \/ d \in S)
    BY DEF Finally, Disconnect, TypeOK
  <1>2. CASE d \in S
    BY <1>2 DEF Excused
  <1>3. CASE d = c /\ d \notin S
    BY <1>3 DEF Finally, TypeOK, Excused
  <1> QED BY <1>1, <1>2, <1>3

LEMMA HandlerExcused ==
    ASSUME TypeOK, NEW c \in Conns, Handler(c), NEW d \in conns \ conns'
    PROVE  Excused(d)
  <1>1. \A S \in Failures(c) : S \in SUBSET {t \in Conns : ws[t] = "closed"}
    BY DEF Failures, TypeOK
  <1>2. CASE Greet(c) \/ GreetFails(c)
    BY <1>2 DEF Greet, GreetFails
  <1>3. CASE SentToAll(c) \/ SentFarewell(c)
    <2>1. PICK S \in SUBSET {t \in Conns : ws[t] = "closed"} : Disconnect(S)
      BY <1>1, <1>3 DEF SentToAll, SentFarewell
    <2> QED BY <2>1 DEF Disconnect, Excused
  <1>4. CASE SentEnded(c)
    BY <1>1, <1>4, FinallyExcused DEF SentEnded
  <1>5. CASE SocketClosed(c)
    <2>1. {} \in SUBSET {t \in Conns : ws[t] = "closed"} /\ pc[c] = "loop" /\ Finally(c, {})
      BY <1>5 DEF SocketClosed
    <2> QED BY <2>1, FinallyExcused
  <1> QED BY <1>2, <1>3, <1>4, <1>5 DEF Handler

LEMMA EventExcused ==
    ASSUME TypeOK, NEW c \in Conns, Event(c), NEW d \in conns \ conns'
    PROVE  Excused(d)
  <1>1. CASE SessionLeave(c)
    <2>1. {} \in SUBSET {t \in Conns : ws[t] = "closed"} /\ pc[c] = "loop" /\ Finally(c, {})
      BY <1>1 DEF SessionLeave, Receives
    <2> QED BY <2>1, FinallyExcused
  <1>2. CASE ~SessionLeave(c)
    BY <1>2 DEF Event, Heartbeat, MediaEvent, Signal, SessionEnding, SessionEnded
  <1> QED BY <1>1, <1>2

(* No handler that ends late, and no broadcast that outlives its targets,  *)
(* takes a connection out of its room that is alive, heard from and not    *)
(* replaced by the same participant.                                       *)
THEOREM LateHandlersAreHarmless == Spec => LateHandlerHarmless
  <1> DEFINE Step == \A c \in conns \ conns' : Excused(c)
  <1>1. RegistryInv /\ [Next]_vars => Step
    <2> SUFFICES ASSUME RegistryInv, [Next]_vars, NEW d \in conns \ conns' PROVE Excused(d)
      OBVIOUS
    <2> USE ConnsAssumption, ParticipantsAssumption DEF RegistryInv
    <2>1. CASE UNCHANGED vars
      BY <2>1
    <2>2. ASSUME NEW c \in Conns, NEW p \in Participants, NEW t \in Conns, Reconnect(c, p, t)
          PROVE  Excused(d)
      <3>1. d = active[p] /\ c \in conns' \ conns /\ owner' = [owner EXCEPT ![c] = p]
        BY <2>2 DEF Reconnect, Admit, IdleIsFree
      <3>2. owner[d] = p /\ owner'[c] = p
        BY <3>1 DEF OneConnectionPerParticipant, TypeOK
      <3> QED BY <3>1, <3>2 DEF Excused
    <2>3. ASSUME NEW c \in Conns, Join(c) PROVE Excused(d)
      BY <2>2, <2>3 DEF Join, Connect, Admit
    <2>4. ASSUME NEW c \in Conns, Handler(c) \/ Event(c) PROVE Excused(d)
      BY <2>4, HandlerExcused, EventExcused
    <2>5. ASSUME NEW c \in Conns, ClientDrop(c) \/ GoStale(c) \/ ExpireToken(c) \/ Recycle(c)
          PROVE  Excused(d)
      BY <2>5 DEF ClientDrop, GoStale, ExpireToken, Recycle
    <2>6. CASE Cleanup
      BY <2>6 DEF Cleanup, CleanupWith, Excused
    <2>7. CASE RejectedReconnect \/ AgeEnded
      BY <2>7 DEF RejectedReconnect, AgeEnded
    <2>8. CASE Restart
      BY <2>8 DEF Restart, Excused
    <2> QED BY <2>1, <2>3, <2>4, <2>5, <2>6, <2>7, <2>8 DEF Next
  <1>2. RegistryInv /\ [Next]_vars => [Step]_vars
    BY <1>1
  <1>3. Spec => [][Step]_vars
    BY RegistryInit, RegistryStep, <1>2, PTL DEF Spec
  <1> QED BY <1>3 DEF LateHandlerHarmless, Excused
=============================================================================
