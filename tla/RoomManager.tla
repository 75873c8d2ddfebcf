---------------------------- MODULE RoomManager ----------------------------
(***************************************************************************)
(* One call room of app/communication/manager.py together with the         *)
(* WebSocket handlers of app/communication/router.py that work on it.      *)
(*                                                                         *)
(* Every method of RoomManager holds one asyncio.Lock and never awaits     *)
(* inside it, so a method body is one atomic step; the handlers            *)
(* interleave where they await a socket: the greeting, each message of a   *)
(* broadcast, and the next receive.  Rooms of different sessions share     *)
(* nothing, so one session is modelled.                                    *)
(*                                                                         *)
(* A member of Conns names one accepted WebSocket, the handler coroutine   *)
(* that serves it, the ConnectionState the manager registers for it and    *)
(* the reconnect token issued with it.  Event identifiers, sequence        *)
(* numbers, rate limits and the participants' media flags only decide      *)
(* whether an event is rejected; a rejected event changes nothing here.    *)
(***************************************************************************)
EXTENDS Naturals, FiniteSets

CONSTANTS
    Participants,              \* participant ids Timeblock may authorise
    Conns,                     \* connection ids, reused once forgotten
    MaxRoomParticipants,       \* settings.max_room_participants
    EndedCacheOutlivesTokens,  \* ended_session_cache_seconds >= reconnect_token_seconds
    None, Absent               \* no active connection; never in the room

ASSUME ConnsAssumption == None \notin Conns /\ Absent \notin Conns /\ None # Absent
ASSUME ParticipantsAssumption == IsFiniteSet(Participants) /\ None \notin Participants
ASSUME CapacityAssumption == MaxRoomParticipants \in Nat
ASSUME CacheAssumption == EndedCacheOutlivesTokens \in BOOLEAN

VARIABLES
    status,   \* RoomState.status, "none" when rooms has no entry
    endedAt,  \* RoomState.ended_at: unset, recent, or older than the ended cache
    active,   \* ParticipantState.active_connection_id of each participant
    conns,    \* the keys of RoomState.connections
    stale,    \* registered connections silent for connection_stale_seconds
    tokens,   \* connections whose reconnect token is unused and unexpired
    owner,    \* ConnectionState.participant_id
    ws,       \* the socket of each connection
    pc,       \* where each handler coroutine waits
    targets   \* the connections the handler's broadcast sends to

roomVars == <<status, endedAt, active, conns, stale, tokens>>
handlerVars == <<owner, ws, pc, targets>>
vars == <<roomVars, handlerVars>>

Statuses == {"none", "created", "active", "reconnecting", "ending", "ended"}
PCs == {"idle", "greeting", "loop", "relaying", "ending", "farewell",
        "done", "dead"}

(* Every participant keeps its ParticipantState until the room is dropped. *)
Joined == {p \in Participants : active[p] # Absent}

(* The statuses connect refuses with session_not_joinable.                 *)
Over == status \in {"ending", "ended"}

Init ==
    /\ status = "none" /\ endedAt = "no"
    /\ active = [p \in Participants |-> Absent]
    /\ conns = {} /\ stale = {} /\ tokens = {}
    /\ owner = [c \in Conns |-> None]
    /\ ws = [c \in Conns |-> "closed"]
    /\ pc = [c \in Conns |-> "idle"]
    /\ targets = [c \in Conns |-> {}]

-----------------------------------------------------------------------------
(* RoomManager.connect.  The registration replaces at most one connection. *)

(* Mutant: the capacity is not looked at. *)
FreshRefusedAnyNumber(p) == active[p] \in conns

FreshRefused(p) ==
    \/ active[p] \in conns                                       \* duplicate_participant
    \/ active[p] = Absent /\ Cardinality(Joined) >= MaxRoomParticipants  \* room_full

(* The common tail of connect.  The socket of a replaced connection is     *)
(* closed before the new handler goes on; whatever its own handler does in *)
(* between is rejected as stale_connection, so closing it here shows every *)
(* outcome.                                                                *)
Admit(c, p, replaced, spent) ==
    /\ conns' = (conns \ replaced) \cup {c}
    /\ stale' = stale \ replaced
    /\ active' = [active EXCEPT ![p] = c]
    /\ status' = "active"
    /\ tokens' = (tokens \ spent) \cup {c}
    /\ owner' = [owner EXCEPT ![c] = p]
    /\ ws' = [x \in Conns |-> IF x = c THEN "open"
                              ELSE IF x \in replaced THEN "closed" ELSE ws[x]]
    /\ pc' = [pc EXCEPT ![c] = "greeting"]
    /\ UNCHANGED <<endedAt, targets>>

Connect(c, p) ==
    /\ pc[c] = "idle" /\ ~Over
    /\ ~FreshRefused(p)
    /\ Admit(c, p, {}, {})

(* Mutant: the old connection of a reconnecting participant stays in.      *)
ReconnectBeside(c, p, t) ==
    /\ pc[c] = "idle" /\ ~Over
    /\ t \in tokens /\ owner[t] = p /\ pc[t] \notin {"greeting", "dead"}
    /\ Admit(c, p, {}, {t})

(* A token reaches its client only with the greeting it was issued for.    *)
(* A connection let in by token is not counted against the capacity.       *)
Reconnect(c, p, t) ==
    /\ pc[c] = "idle" /\ ~Over
    /\ t \in tokens /\ owner[t] = p /\ pc[t] \notin {"greeting", "dead"}
    /\ Admit(c, p, {active[p]} \cap conns, {t})

(* A token the manager does not know, such as one issued before a restart: *)
(* the entry made for the room at the top of connect stays behind.         *)
RejectedReconnect ==
    /\ status = "none"
    /\ status' = "created"
    /\ UNCHANGED <<endedAt, active, conns, stale, tokens, handlerVars>>

-----------------------------------------------------------------------------
(* Mutant: the last to leave reopens a room that is over.                  *)
DisconnectReopens(S) ==
    /\ conns' = conns \ S
    /\ stale' = stale \ S
    /\ active' = [p \in Participants |->
                    IF active[p] \in conns \cap S THEN None ELSE active[p]]
    /\ status' = IF conns \cap S # {} /\ conns \ S = {}
                 THEN "reconnecting" ELSE status
    /\ UNCHANGED <<endedAt, tokens>>

(* Mutant: removes whatever connection the participant has now.            *)
DisconnectByParticipant(S) ==
    LET T == {active[owner[c]] : c \in {d \in S : owner[d] # None}} \cap conns
    IN  /\ conns' = conns \ T
        /\ stale' = stale \ T
        /\ active' = [p \in Participants |->
                        IF active[p] \in T THEN None ELSE active[p]]
        /\ status' = IF T # {} /\ conns \ T = {} /\ ~Over
                     THEN "reconnecting" ELSE status
        /\ UNCHANGED <<endedAt, tokens>>

(* Mutant: the silence recorded for a connection outlives it.              *)
DisconnectKeepsStale(S) ==
    /\ conns' = conns \ S
    /\ active' = [p \in Participants |->
                    IF active[p] \in conns \cap S THEN None ELSE active[p]]
    /\ status' = IF conns \cap S # {} /\ conns \ S = {} /\ ~Over
                 THEN "reconnecting" ELSE status
    /\ UNCHANGED <<endedAt, tokens, stale>>

(* RoomManager.disconnect, for the connections of S still registered.      *)
Disconnect(S) ==
    /\ conns' = conns \ S
    /\ stale' = stale \ S
    /\ active' = [p \in Participants |->
                    IF active[p] \in conns \cap S THEN None ELSE active[p]]
    /\ status' = IF conns \cap S # {} /\ conns \ S = {} /\ ~Over
                 THEN "reconnecting" ELSE status
    /\ UNCHANGED <<endedAt, tokens>>

(* The handler's finally block: leave the room together with the targets   *)
(* of S, and tell the others only if the connection was still registered.  *)
Finally(c, S) ==
    /\ Disconnect(S \cup {c})
    /\ IF c \in conns \ S
       THEN /\ pc' = [pc EXCEPT ![c] = "farewell"]
            /\ targets' = [targets EXCEPT ![c] = conns \ (S \cup {c})]
            /\ UNCHANGED ws
       ELSE /\ pc' = [pc EXCEPT ![c] = "done"]
            /\ ws' = [ws EXCEPT ![c] = "closed"]
            /\ targets' = [targets EXCEPT ![c] = {}]
    /\ UNCHANGED owner

(* The greeting and the announcement are sent before the try block, so a   *)
(* greeting that fails ends the handler with its connection registered.    *)
Greet(c) ==
    /\ pc[c] = "greeting"
    /\ pc' = [pc EXCEPT ![c] = "relaying"]
    /\ targets' = [targets EXCEPT ![c] = conns \ {c}]
    /\ UNCHANGED <<roomVars, owner, ws>>

GreetFails(c) ==
    /\ pc[c] = "greeting" /\ ws[c] = "closed"
    /\ pc' = [pc EXCEPT ![c] = "dead"]
    /\ UNCHANGED <<roomVars, owner, ws, targets>>

(* broadcast sends to its targets one await at a time, swallows what a     *)
(* send raises, and disconnects those targets at its end.  Any target whose *)
(* socket has closed by then may have failed.                              *)
Failures(c) == SUBSET {t \in targets[c] : ws[t] = "closed"}

SentToAll(c) ==
    /\ pc[c] = "relaying"
    /\ \E S \in Failures(c) : Disconnect(S)
    /\ pc' = [pc EXCEPT ![c] = "loop"]
    /\ targets' = [targets EXCEPT ![c] = {}]
    /\ UNCHANGED <<owner, ws>>

SentEnded(c) ==
    /\ pc[c] = "ending"
    /\ \E S \in Failures(c) : Finally(c, S)

SentFarewell(c) ==
    /\ pc[c] = "farewell"
    /\ \E S \in Failures(c) : Disconnect(S)
    /\ pc' = [pc EXCEPT ![c] = "done"]
    /\ targets' = [targets EXCEPT ![c] = {}]
    /\ ws' = [ws EXCEPT ![c] = "closed"]
    /\ UNCHANGED owner

-----------------------------------------------------------------------------
(* handle_event accepts an event of a registered connection only; what the *)
(* client sent before its socket closed is still received after it.        *)
Receives(c) == pc[c] = "loop" /\ c \in conns

Refresh(c) == stale' = stale \ {c}

Relay(c, to, next) ==
    /\ pc' = [pc EXCEPT ![c] = next]
    /\ targets' = [targets EXCEPT ![c] = to]
    /\ UNCHANGED <<owner, ws>>

Heartbeat(c) ==
    /\ Receives(c) /\ Refresh(c)
    /\ UNCHANGED <<status, endedAt, active, conns, tokens, handlerVars>>

(* A media or camera event is relayed to every other connection.           *)
MediaEvent(c) ==
    /\ Receives(c) /\ Refresh(c)
    /\ Relay(c, conns \ {c}, "relaying")
    /\ UNCHANGED <<status, endedAt, active, conns, tokens>>

(* Offer, answer and ICE go to the target's active connection, if any.     *)
Signal(c, q) ==
    /\ Receives(c) /\ Refresh(c)
    /\ q # owner[c] /\ active[owner[c]] \in conns /\ active[q] \in conns
    /\ Relay(c, {active[q]}, "relaying")
    /\ UNCHANGED <<status, endedAt, active, conns, tokens>>

SessionEnding(c) ==
    /\ Receives(c) /\ Refresh(c)
    /\ status' = "ending"
    /\ Relay(c, conns \ {c}, "relaying")
    /\ UNCHANGED <<endedAt, active, conns, tokens>>

SessionEnded(c) ==
    /\ Receives(c) /\ Refresh(c)
    /\ status' = "ended" /\ endedAt' = "recent"
    /\ Relay(c, conns \ {c}, "ending")
    /\ UNCHANGED <<active, conns, tokens>>

SessionLeave(c) ==
    /\ Receives(c)
    /\ Finally(c, {})

(* receive_text raises once the socket is closed.                          *)
SocketClosed(c) ==
    /\ pc[c] = "loop" /\ ws[c] = "closed"
    /\ Finally(c, {})

-----------------------------------------------------------------------------
(* What becomes of the room once the connections in left remain.           *)
CleanupWith(left, expires) ==
    LET ended == expires \/ status = "ended"
        since == IF expires /\ endedAt = "no" THEN "recent" ELSE endedAt
        drop  == ended /\ since = "old"
    IN  /\ status' = IF drop THEN "none" ELSE IF expires THEN "ended" ELSE status
        /\ endedAt' = IF drop THEN "no" ELSE since
        /\ conns' = IF drop THEN {} ELSE left
        /\ active' = [p \in Participants |->
                        IF drop THEN Absent
                        ELSE IF active[p] \in conns \ left THEN None ELSE active[p]]
        /\ stale' = {}
        /\ ws' = [c \in Conns |-> IF c \in conns \ left THEN "closed" ELSE ws[c]]
        /\ UNCHANGED <<tokens, owner, pc, targets>>

(* Mutant: silent connections are left in place.                           *)
CleanupEvictsNobody ==
    CleanupWith(conns, conns = {} /\ status \notin {"none", "ended"} /\ tokens = {})

(* Mutant: only a room somebody disconnected from is ended.                *)
CleanupReconnectingOnly ==
    CleanupWith(conns \ stale,
                conns \ stale = {} /\ status = "reconnecting" /\ tokens = {})

(* RoomManager.cleanup, run by the 30-second loop: the stale connections   *)
(* are evicted, a room without connection and without live token ends, and *)
(* a room that ended long enough ago is dropped, whoever is still in it.   *)
Cleanup ==
    CleanupWith(conns \ stale,
                /\ conns \ stale = {}
                /\ status \notin {"none", "ended"}
                /\ tokens = {})

(* Time.  A token is issued before its room ends, so a cache that outlives *)
(* the tokens turns old only after the last of them expired.               *)
GoStale(c) ==
    /\ c \in conns \ stale
    /\ stale' = stale \cup {c}
    /\ UNCHANGED <<status, endedAt, active, conns, tokens, handlerVars>>

ExpireToken(t) ==
    /\ t \in tokens
    /\ tokens' = tokens \ {t}
    /\ UNCHANGED <<status, endedAt, active, conns, stale, handlerVars>>

AgeEnded ==
    /\ endedAt = "recent"
    /\ EndedCacheOutlivesTokens => tokens = {}
    /\ endedAt' = "old"
    /\ UNCHANGED <<status, active, conns, stale, tokens, handlerVars>>

(* The client, or the network, closes the socket.                          *)
ClientDrop(c) ==
    /\ pc[c] \notin {"idle", "done"} /\ ws[c] = "open"
    /\ ws' = [ws EXCEPT ![c] = "closed"]
    /\ UNCHANGED <<roomVars, owner, pc, targets>>

(* The process stops and starts again: everything was in memory.           *)
Restart ==
    /\ status' = "none" /\ endedAt' = "no"
    /\ active' = [p \in Participants |-> Absent]
    /\ conns' = {} /\ stale' = {} /\ tokens' = {}
    /\ owner' = [c \in Conns |-> None]
    /\ ws' = [c \in Conns |-> "closed"]
    /\ pc' = [c \in Conns |-> "idle"]
    /\ targets' = [c \in Conns |-> {}]

(* A connection nothing refers to any more stands for a fresh uuid.        *)
Forgotten(c) ==
    /\ c \notin conns \cup tokens
    /\ \A p \in Participants : active[p] # c
    /\ \A d \in Conns : c \notin targets[d]

Recycle(c) ==
    /\ pc[c] \in {"done", "dead"} /\ Forgotten(c)
    /\ pc' = [pc EXCEPT ![c] = "idle"]
    /\ owner' = [owner EXCEPT ![c] = None]
    /\ UNCHANGED <<roomVars, ws, targets>>

-----------------------------------------------------------------------------
Handler(c) ==
    \/ Greet(c) \/ GreetFails(c)
    \/ SentToAll(c) \/ SentEnded(c) \/ SentFarewell(c)
    \/ SocketClosed(c)

Event(c) ==
    \/ Heartbeat(c) \/ MediaEvent(c)
    \/ \E q \in Participants : Signal(c, q)
    \/ SessionEnding(c) \/ SessionEnded(c) \/ SessionLeave(c)

Join(c) ==
    \E p \in Participants :
        Connect(c, p) \/ \E t \in Conns : Reconnect(c, p, t)

Next ==
    \/ \E c \in Conns : Join(c) \/ Handler(c) \/ Event(c)
    \/ \E c \in Conns : ClientDrop(c) \/ GoStale(c) \/ ExpireToken(c) \/ Recycle(c)
    \/ RejectedReconnect \/ Cleanup \/ AgeEnded \/ Restart

Spec == Init /\ [][Next]_vars

(* The event loop runs every ready coroutine, the cleanup loop wakes every *)
(* 30 seconds and time passes.  What a client sent before it went away is  *)
(* finite, so the closed socket is noticed in the end (SF).  A silent      *)
(* connection is assumed only where no handler can receive any more.       *)
Fairness ==
    /\ \A c \in Conns :
         /\ WF_vars(Greet(c) \/ GreetFails(c))
         /\ WF_vars(SentToAll(c) \/ SentEnded(c) \/ SentFarewell(c))
         /\ SF_vars(SocketClosed(c))
         /\ WF_vars(pc[c] = "dead" /\ GoStale(c))
         /\ WF_vars(ExpireToken(c))
    /\ WF_vars(Cleanup) /\ WF_vars(AgeEnded)

FairSpec == Spec /\ Fairness

-----------------------------------------------------------------------------
(* Types of the manager's and of the handlers' state (manager.py:52-77).   *)
TypeOK ==
    /\ status \in Statuses
    /\ endedAt \in {"no", "recent", "old"}
    /\ active \in [Participants -> Conns \cup {None, Absent}]
    /\ conns \subseteq Conns /\ stale \subseteq conns /\ tokens \subseteq Conns
    /\ owner \in [Conns -> Participants \cup {None}]
    /\ ws \in [Conns -> {"open", "closed"}]
    /\ pc \in [Conns -> PCs]
    /\ targets \in [Conns -> SUBSET Conns]

(* A participant has at most one registered connection and it is the one   *)
(* its ParticipantState points to, through replacements, evictions and     *)
(* handlers that end late (connect, disconnect and cleanup all keep both). *)
OneConnectionPerParticipant ==
    /\ \A c \in conns : owner[c] \in Participants /\ active[owner[c]] = c
    /\ \A p \in Participants :
         active[p] \in Conns => active[p] \in conns /\ owner[active[p]] = p

(* A room never holds more participants than max_room_participants, though *)
(* the reconnect path of connect does not count them.                      *)
RoomWithinCapacity == Cardinality(Joined) <= MaxRoomParticipants

(* Once a participant ended the session nobody enters the room and its     *)
(* status never becomes joinable again, whichever handler ends later; only *)
(* the cleanup that drops the room opens the session id again.             *)
NoResurrection ==
    [][Over => /\ conns' \subseteq conns
               /\ status' \in {"ending", "ended", "none"}]_vars

(* A registered connection goes away only by its own exit, because its     *)
(* socket is closed or silent, because the same participant replaced it,   *)
(* or with the whole room: no other handler's late disconnect removes it.  *)
LateHandlerHarmless ==
    [][\A c \in conns \ conns' :
          \/ pc[c] \in {"loop", "ending"} /\ pc'[c] = "farewell"
          \/ ws[c] = "closed" \/ c \in stale
          \/ \E d \in conns' \ conns : owner'[d] = owner[c]
          \/ status' = "none"]_vars

(* A connection whose socket closed does not stay registered: a handler    *)
(* that died before its try block is evicted by the cleanup, so the        *)
(* participant is not refused as duplicate_participant for ever.           *)
ClosedSocketEvicted ==
    \A c \in Conns : (c \in conns /\ ws[c] = "closed") ~> c \notin conns

(* A room nobody is connected to is dropped unless somebody comes back.    *)
EmptyRoomReleased ==
    (status # "none" /\ conns = {}) ~> (status = "none" \/ conns # {})
=============================================================================
