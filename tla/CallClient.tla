----------------------------- MODULE CallClient -----------------------------
(***************************************************************************)
(* The assistant page's call client: one CallV1Runtime with its session,   *)
(* media, peer connection, signaling and ring (src/app/static/js/call-v1), *)
(* the page's polling of the call server (bootstrap.js) and the audio      *)
(* ownership that guards the ring (call_audio_ownership.js).               *)
(*                                                                         *)
(* Everything runs on one thread; an action is the code between two        *)
(* awaits.  A session is a number, its generation; `cur` is               *)
(* runtime.session (0 for null).  `op[g]` is what the set-up of session g  *)
(* (_startOutgoing or answer) is waiting for.  The call server, the other  *)
(* party and the browser's media and peer connection are external.         *)
(***************************************************************************)
EXTENDS Integers

CONSTANTS Outgoing,   \* ids of the calls this page may create
          Incoming,   \* ids of the calls others may place to this account
          NoCall,     \* no call id ("")
          Trickled,   \* bound: calls whose other party gathers candidates
          MaxGen      \* bound: sessions created in the page's life

CallsAssumption ==
  /\ Outgoing \cap Incoming = {}
  /\ NoCall \notin Outgoing \cup Incoming
  /\ Trickled \subseteq Outgoing \cup Incoming
  /\ MaxGen \in Nat \ {0}

VARIABLES
  open,      \* the page is loaded
  gen,       \* CallV1Session._nextGeneration
  cur,       \* runtime.session, by generation; 0 is null
  ses,       \* generation -> the session's record
  op,        \* generation -> where its _startOutgoing or answer waits
  ring,      \* generation -> its RingAudio and the guarded play
  owner,     \* call id of the audio ownership this tab holds
  poll,      \* the poll in flight
  pending,   \* call id of the page's address or of sessionStorage
  leaving,   \* calls not over with a terminal action on its way to the server
  server,    \* external: call id -> status at the call server
  ice        \* external: calls for which the server holds the other's ICE

vars == <<open, gen, cur, ses, op, ring, owner, poll, pending, leaving, server, ice>>
external == <<server, ice>>

Calls == Outgoing \cup Incoming
Gens == 1..MaxGen

States == {"IDLE", "OUTGOING_RINGING", "INCOMING_RINGING", "ANSWERING",
           "NEGOTIATING", "CONNECTED", "ENDED"}

\* The connection of a session: its remote description is set from "described"
\* (callee) or "stable" on.
Peers == {"none", "new", "offered", "described", "stable"}

\* A request of the signaling object, a promise of the peer connection, and a
\* promise of a connection that was closed, which never settles.
Requests == {"iceservers", "create", "created", "get", "post", "posted"}
PeerWaits == {"offer", "remote", "sdp"}
AnswerWaits == {"get", "media", "iceservers", "remote", "sdp", "post", "posted"}

Blank == [role |-> "caller", call |-> NoCall, made |-> NoCall, st |-> "IDLE",
          mic |-> FALSE, peer |-> "none", mine |-> "none", held |-> FALSE,
          twice |-> FALSE]

Silent == [pc |-> "idle", sounds |-> FALSE]

NoPoll == [pc |-> "idle", g |-> 0, call |-> NoCall, seen |-> "none", ice |-> FALSE]

Init ==
  /\ open = TRUE
  /\ gen = 0
  /\ cur = 0
  /\ ses = [g \in Gens |-> Blank]
  /\ op = [g \in Gens |-> "none"]
  /\ ring = [g \in Gens |-> Silent]
  /\ owner = NoCall
  /\ poll = NoPoll
  /\ pending \in Incoming \cup {NoCall}
  /\ leaving = {}
  /\ server = [k \in Calls |-> "unused"]
  /\ ice = {}

-----------------------------------------------------------------------------
(* The session's life *)

Live(g) == cur = g /\ g # 0

\* terminate: the tracks are stopped, the connection closed and forgotten, the
\* candidates dropped, before the server hears of it.
Ended(s) == [Blank EXCEPT !.call = s.call, !.role = s.role, !.st = "ENDED"]

\* abortAll rejects the set-up's request, whose catch finds no session; a
\* promise of the closed connection never settles; getUserMedia goes on.
OpAfterEnd(o) == IF o = "media" THEN "media" ELSE IF o \in PeerWaits THEN "lost" ELSE "none"

\* The TERMINATING event renders the page, which aborts the poll's read.  A poll
\* that awaits a promise of the browser is not aborted.
PollAfterEnd(p, o) ==
  IF p.pc \in {"call", "pending", "list"} \/ (p.pc = "answering" /\ p.g = cur /\ OpAfterEnd(o) = "none")
  THEN NoPoll ELSE p

OwnerAfterSilence == IF cur # 0 /\ ses[cur].call \in {NoCall, owner} THEN NoCall ELSE owner

\* terminate(reason, {serverAction}) ends whatever session is current; ops and p
\* are op and poll as the caller leaves them, tell says that an action is sent.
Terminate(ops, p, tell) ==
  IF cur = 0
  THEN /\ op' = ops
       /\ poll' = p
       /\ UNCHANGED <<cur, ses, ring, owner, leaving>>
  ELSE /\ ses' = [ses EXCEPT ![cur] = Ended(@)]
       /\ cur' = 0
       /\ op' = [ops EXCEPT ![cur] = OpAfterEnd(@)]
       /\ ring' = [ring EXCEPT ![cur].sounds = FALSE]
       /\ owner' = OwnerAfterSilence
       /\ poll' = PollAfterEnd(p, ops[cur])
       /\ leaving' = leaving \cup {k \in Calls : tell /\ k = ses[cur].call /\ server[k] # "over"}

\* _silenceRing: stops the ring that sounds and gives the ownership back.
Silence ==
  /\ ring' = [ring EXCEPT ![cur].sounds = FALSE]
  /\ owner' = OwnerAfterSilence

\* _newSession for the next generation.
NewSession(role, k, st) ==
  /\ gen < MaxGen
  /\ gen' = gen + 1
  /\ cur' = gen + 1
  /\ ses' = [ses EXCEPT ![gen + 1] = [Blank EXCEPT !.role = role, !.call = k, !.st = st]]

\* _applyRemoteIce: before the remote description a candidate is held, then all are
\* applied, each once.
WithIce(s, known) ==
  [s EXCEPT !.held = IF s.peer \in {"described", "stable"} THEN FALSE ELSE @ \/ (known /\ s.peer # "none")]

-----------------------------------------------------------------------------
(* The set-up of a call *)

StartOutgoing ==
  /\ open /\ cur = 0
  /\ NewSession("caller", NoCall, "IDLE")
  /\ op' = [op EXCEPT ![gen + 1] = "media"]
  /\ UNCHANGED <<open, ring, owner, poll, pending, leaving, external>>

\* A set-up that fails ends the current session, its own or a later one.
SetupFails(g, p) ==
  /\ Terminate([op EXCEPT ![g] = "none"], p, FALSE)
  /\ UNCHANGED <<open, gen, pending, external>>

\* pollCalls was waiting for this answer.
PollAfterOp(g) == IF poll.pc = "answering" /\ poll.g = g THEN NoPoll ELSE poll

\* Mutant: the stream of a stale session is kept.
MediaGrantedLate(g) ==
  /\ open /\ op[g] = "media"
  /\ ses' = [ses EXCEPT ![g].mic = TRUE]
  /\ op' = [op EXCEPT ![g] = "iceservers"]
  /\ UNCHANGED <<open, gen, cur, ring, owner, poll, pending, leaving, external>>

\* getUserMedia resolves: the tracks of a stale session are stopped and its
\* set-up fails.
MediaGranted(g) ==
  /\ open /\ op[g] = "media"
  /\ IF Live(g)
     THEN /\ ses' = [ses EXCEPT ![g].mic = TRUE]
          /\ op' = [op EXCEPT ![g] = "iceservers"]
          /\ UNCHANGED <<open, gen, cur, ring, owner, poll, pending, leaving, external>>
     ELSE SetupFails(g, PollAfterOp(g))

MediaRefused(g) ==
  /\ open /\ op[g] = "media"
  /\ SetupFails(g, PollAfterOp(g))

\* _peerConfiguration returns and _createPeer runs.
ConfigArrives(g) ==
  /\ open /\ op[g] = "iceservers"
  /\ ses' = [ses EXCEPT ![g].peer = "new",
                        ![g].st = IF ses[g].role = "caller" THEN "NEGOTIATING" ELSE @]
  /\ op' = [op EXCEPT ![g] = IF ses[g].role = "caller" THEN "offer" ELSE "remote"]
  /\ UNCHANGED <<open, gen, cur, ring, owner, poll, pending, leaving, external>>

OfferMade(g) ==
  /\ open /\ op[g] = "offer"
  /\ ses' = [ses EXCEPT ![g].peer = "offered"]
  /\ op' = [op EXCEPT ![g] = "create"]
  /\ UNCHANGED <<open, gen, cur, ring, owner, poll, pending, leaving, external>>

\* The server handles POST /calls; its answer may still be lost.
CreateServed(g, k) ==
  /\ open /\ op[g] = "create" /\ k \in Outgoing /\ server[k] = "unused"
  /\ server' = [server EXCEPT ![k] = "ringing"]
  /\ ses' = [ses EXCEPT ![g].made = k]
  /\ op' = [op EXCEPT ![g] = "created"]
  /\ UNCHANGED <<open, gen, cur, ring, owner, poll, pending, leaving, ice>>

CreateReplied(g) ==
  /\ open /\ op[g] = "created"
  /\ ses' = [ses EXCEPT ![g].call = ses[g].made, ![g].made = NoCall, ![g].st = "OUTGOING_RINGING"]
  /\ op' = [op EXCEPT ![g] = "ringback"]
  /\ ring' = [ring EXCEPT ![g].pc = "claiming"]
  /\ UNCHANGED <<open, gen, cur, owner, poll, pending, leaving, external>>

\* The ringback was started or refused: _flushPendingIce sends what was gathered.
FlushPendingIce(g) ==
  /\ open /\ op[g] = "ringback" /\ ring[g].pc = "done"
  /\ ses' = [ses EXCEPT ![g].mine = IF @ = "pending" THEN "sending" ELSE @]
  /\ op' = [op EXCEPT ![g] = "none"]
  /\ UNCHANGED <<open, gen, cur, ring, owner, poll, pending, leaving, external>>

\* A request of the set-up is refused, times out or loses its connection.
RequestFails(g) ==
  /\ open /\ op[g] \in Requests
  /\ SetupFails(g, PollAfterOp(g))

PeerStepFails(g) ==
  /\ open /\ op[g] \in PeerWaits
  /\ SetupFails(g, PollAfterOp(g))

Answer ==
  /\ open /\ cur # 0 /\ ses[cur].role = "callee" /\ ses[cur].st = "INCOMING_RINGING" /\ op[cur] = "none"
  /\ Silence
  /\ op' = [op EXCEPT ![cur] = "get"]
  /\ UNCHANGED <<open, gen, cur, ses, poll, pending, leaving, external>>

\* The status stays INCOMING_RINGING until the call is read again: a second tap
\* starts a second answer().
AnswerAgain ==
  /\ open /\ cur # 0 /\ op[cur] = "get" /\ ~ses[cur].twice
  /\ Silence
  /\ ses' = [ses EXCEPT ![cur].twice = TRUE]
  /\ UNCHANGED <<open, gen, cur, op, poll, pending, leaving, external>>

CallIsRead(g) ==
  /\ open /\ op[g] = "get"
  /\ IF server[ses[g].call] = "ringing"
     THEN /\ ses' = [ses EXCEPT ![g].st = "ANSWERING"]
          /\ op' = [op EXCEPT ![g] = "media"]
          /\ UNCHANGED <<open, gen, cur, ring, owner, poll, pending, leaving, external>>
     ELSE SetupFails(g, PollAfterOp(g))

\* The second answer() reads the call: ANSWERING has no transition to itself.
SecondAnswerFails(g) ==
  /\ open /\ Live(g) /\ ses[g].twice /\ op[g] # "get"
  /\ Terminate(op, poll, FALSE)
  /\ UNCHANGED <<open, gen, pending, external>>

OfferApplied(g) ==
  /\ open /\ op[g] = "remote"
  /\ ses' = [ses EXCEPT ![g].peer = "described"]
  /\ op' = [op EXCEPT ![g] = "sdp"]
  /\ UNCHANGED <<open, gen, cur, ring, owner, poll, pending, leaving, external>>

AnswerMade(g) ==
  /\ open /\ op[g] = "sdp"
  /\ ses' = [ses EXCEPT ![g].peer = "stable"]
  /\ op' = [op EXCEPT ![g] = "post"]
  /\ UNCHANGED <<open, gen, cur, ring, owner, poll, pending, leaving, external>>

\* The server takes the answer of a ringing call; any other gets 409, on which
\* the signaling's telemetry ends the session before answer()'s catch does.
AnswerServed(g) ==
  /\ open /\ op[g] = "post"
  /\ IF server[ses[g].call] = "ringing"
     THEN /\ server' = [server EXCEPT ![ses[g].call] = "accepted"]
          /\ op' = [op EXCEPT ![g] = "posted"]
          /\ UNCHANGED <<open, gen, cur, ses, ring, owner, poll, pending, leaving, ice>>
     ELSE SetupFails(g, PollAfterOp(g))

\* Mutant: no table of transitions.
AnswerRepliedUnguarded(g) ==
  /\ open /\ op[g] = "posted"
  /\ ses' = [ses EXCEPT ![g] = WithIce([@ EXCEPT !.st = "NEGOTIATING"], ses[g].call \in ice)]
  /\ op' = [op EXCEPT ![g] = "none"]
  /\ poll' = PollAfterOp(g)
  /\ pending' = NoCall
  /\ UNCHANGED <<open, gen, cur, ring, owner, leaving, external>>

\* A connection that came up before this reply has left ANSWERING, and CONNECTED
\* has no transition to NEGOTIATING: the set-up fails.
AnswerReplied(g) ==
  /\ open /\ op[g] = "posted"
  /\ IF ses[g].st = "ANSWERING"
     THEN /\ ses' = [ses EXCEPT ![g] = WithIce([@ EXCEPT !.st = "NEGOTIATING"], ses[g].call \in ice)]
          /\ op' = [op EXCEPT ![g] = "none"]
          /\ poll' = PollAfterOp(g)
          /\ pending' = NoCall
          /\ UNCHANGED <<open, gen, cur, ring, owner, leaving, external>>
     ELSE SetupFails(g, PollAfterOp(g))

-----------------------------------------------------------------------------
(* The ring: guardedPlay claims the ownership, then plays *)

\* The claim is granted.  A ring disposed meanwhile has no audio to play.
ClaimGranted(g) ==
  /\ open /\ ring[g].pc = "claiming"
  /\ IF Live(g)
     THEN /\ ring' = [ring EXCEPT ![g] = [pc |-> "starting", sounds |-> TRUE]]
          /\ owner' = ses[g].call
     ELSE /\ ring' = [ring EXCEPT ![g].pc = "done"]
          /\ owner' = NoCall
  /\ UNCHANGED <<open, gen, cur, ses, op, poll, pending, leaving, external>>

ClaimDenied(g) ==
  /\ open /\ ring[g].pc = "claiming"
  /\ ring' = [ring EXCEPT ![g] = [pc |-> "done", sounds |-> FALSE]]
  /\ UNCHANGED <<open, gen, cur, ses, op, owner, poll, pending, leaving, external>>

\* audio.play() settles: a ring stopped meanwhile, refused by the browser or no
\* longer owned falls silent and gives up its ownership.
PlaySettles(g) ==
  /\ open /\ ring[g].pc = "starting"
  /\ \E plays \in BOOLEAN :
       LET playable == plays /\ ring[g].sounds IN
       /\ ring' = [ring EXCEPT ![g] = [pc |-> "done", sounds |-> playable /\ owner = ses[g].call]]
       /\ owner' = IF ~playable /\ owner = ses[g].call THEN NoCall ELSE owner
  /\ UNCHANGED <<open, gen, cur, ses, op, poll, pending, leaving, external>>

\* Another tab of higher priority takes the audio: onLost stops the ring.
OwnershipLost ==
  /\ open /\ owner # NoCall
  /\ owner' = NoCall
  /\ ring' = IF cur = 0 THEN ring ELSE [ring EXCEPT ![cur].sounds = FALSE]
  /\ UNCHANGED <<open, gen, cur, ses, op, poll, pending, leaving, external>>

\* A call-state event of the page's event stream.
CallStateEvent ==
  /\ open /\ cur # 0 /\ ses[cur].call # NoCall
  /\ \/ server[ses[cur].call] = "over"
     \/ server[ses[cur].call] = "accepted" /\ ses[cur].role = "caller"
  /\ Silence
  /\ UNCHANGED <<open, gen, cur, ses, op, poll, pending, leaving, external>>

-----------------------------------------------------------------------------
(* The connection *)

\* An ICE candidate is gathered: kept until the call has an id, else sent.
IceGathered(g) ==
  /\ open /\ Live(g) /\ ses[g].mine = "none" /\ ses[g].peer \in {"offered", "stable"}
  /\ ses' = [ses EXCEPT ![g].mine = IF ses[g].call = NoCall THEN "pending" ELSE "sending"]
  /\ UNCHANGED <<open, gen, cur, op, ring, owner, poll, pending, leaving, external>>

\* sendIce settles, well or not: a call that is over answers 404 or 409, which ends
\* the session.
IceSent(g) ==
  /\ open /\ ses[g].mine = "sending"
  /\ IF server[ses[g].call] = "over"
     THEN /\ Terminate(op, poll, FALSE)
          /\ UNCHANGED <<open, gen, pending, external>>
     ELSE /\ ses' = [ses EXCEPT ![g].mine = "none"]
          /\ UNCHANGED <<open, gen, cur, op, ring, owner, poll, pending, leaving, external>>

RemoteTrack(g) ==
  /\ open /\ Live(g) /\ ses[g].peer \in {"described", "stable"}
  /\ Silence
  /\ UNCHANGED <<open, gen, cur, ses, op, poll, pending, leaving, external>>

Connected(g) ==
  /\ open /\ Live(g) /\ ses[g].peer = "stable"
  /\ Silence
  /\ ses' = [ses EXCEPT ![g].st = IF @ \in {"OUTGOING_RINGING", "ANSWERING", "NEGOTIATING"} THEN "CONNECTED" ELSE @]
  /\ UNCHANGED <<open, gen, cur, op, poll, pending, leaving, external>>

\* The connection failed: terminate with "end", "reject" or "cancel".
PeerFailure(g) ==
  /\ open /\ Live(g) /\ ses[g].peer \in {"offered", "described", "stable"}
  /\ Terminate(op, poll, TRUE)
  /\ UNCHANGED <<open, gen, pending, external>>

Hangup ==
  /\ open /\ cur # 0 /\ ses[cur].st \in {"OUTGOING_RINGING", "ANSWERING", "NEGOTIATING", "CONNECTED"}
  /\ Terminate(op, poll, TRUE)
  /\ UNCHANGED <<open, gen, pending, external>>

Reject ==
  /\ open /\ cur # 0 /\ ses[cur].st = "INCOMING_RINGING"
  /\ Terminate(op, poll, TRUE)
  /\ pending' = NoCall
  /\ UNCHANGED <<open, gen, external>>

\* pagehide: the session is terminated and a beacon tells the server; the page's
\* promises go with it.
PageHide ==
  /\ open
  /\ open' = FALSE
  /\ Terminate([g \in Gens |-> "none"], NoPoll, TRUE)
  /\ UNCHANGED <<gen, pending, external>>

-----------------------------------------------------------------------------
(* Polling *)

\* A read of pollCalls is answered: poll is what the server held then.  A read that
\* fails, or that terminate aborts, changes nothing.
PollReads(what, k, seen) == poll' = [NoPoll EXCEPT !.pc = what, !.call = k, !.seen = seen, !.ice = what = "call" /\ k \in ice]

PollRead ==
  /\ open /\ poll.pc = "idle"
  /\ IF cur # 0 /\ ses[cur].call # NoCall THEN PollReads("call", ses[cur].call, server[ses[cur].call])
     ELSE IF pending # NoCall THEN PollReads("pending", pending, server[pending])
     ELSE \E k \in Incoming : server[k] = "ringing" /\ PollReads("list", k, "ringing")
  /\ UNCHANGED <<open, gen, cur, ses, op, ring, owner, pending, leaving, external>>

\* The read answers 404: whatever session is current ends.
PollGone ==
  /\ open /\ poll.pc \in {"call", "pending"} /\ poll.seen \in {"unused", "over"} /\ cur # 0
  /\ Terminate(op, NoPoll, FALSE)
  /\ pending' = NoCall
  /\ UNCHANGED <<open, gen, external>>

\* applyCanonicalCall: the answer of the call this page created.
AnswerSeen ==
  /\ ses[cur].role = "caller" /\ ses[cur].peer # "none" /\ poll.seen = "accepted"

\* Mutant: a call that is over is not told from one that rings.
CanonicalCallNeverOver ==
  /\ open /\ poll.pc = "call" /\ poll.seen # "none"
  /\ ses' = [ses EXCEPT ![cur] = WithIce(@, poll.ice)]
  /\ poll' = NoPoll
  /\ UNCHANGED <<open, gen, cur, op, ring, owner, pending, leaving, external>>

CanonicalCall ==
  /\ open /\ poll.pc = "call"
  /\ IF poll.seen = "over"
     THEN Terminate(op, NoPoll, FALSE)
     ELSE /\ IF poll.seen = "accepted" THEN Silence ELSE UNCHANGED <<ring, owner>>
          /\ IF ~AnswerSeen
             THEN /\ ses' = [ses EXCEPT ![cur] = WithIce(@, poll.ice)]
                  /\ poll' = NoPoll
             ELSE IF ses[cur].st \in {"OUTGOING_RINGING", "NEGOTIATING"}
             THEN /\ ses' = [ses EXCEPT ![cur].st = "NEGOTIATING"]
                  /\ poll' = IF ses[cur].peer = "offered" THEN [poll EXCEPT !.pc = "describing", !.g = cur] ELSE NoPoll
             ELSE /\ UNCHANGED ses
                  /\ poll' = NoPoll
          /\ UNCHANGED <<cur, op, leaving>>
  /\ UNCHANGED <<open, gen, pending, external>>

\* applyRemoteDescription of the answer settles, then the candidates it came with.
AnswerApplied ==
  /\ open /\ poll.pc = "describing" /\ Live(poll.g)
  /\ \E applied \in BOOLEAN :
       ses' = IF applied THEN [ses EXCEPT ![cur] = WithIce([@ EXCEPT !.peer = "stable"], poll.ice)] ELSE ses
  /\ poll' = NoPoll
  /\ UNCHANGED <<open, gen, cur, op, ring, owner, pending, leaving, external>>

\* showIncoming of a ringing call; with a session it throws and the poll ends.
ShowIncoming ==
  /\ open /\ poll.pc \in {"pending", "list"} /\ poll.seen = "ringing" /\ cur = 0
  /\ NewSession("callee", poll.call, "INCOMING_RINGING")
  /\ ring' = [ring EXCEPT ![gen + 1].pc = "claiming"]
  /\ pending' = IF poll.pc = "pending" THEN NoCall ELSE pending
  /\ \/ /\ poll' = NoPoll
        /\ UNCHANGED <<op, owner>>
     \/ /\ poll.pc = "pending"      \* the page was opened to answer
        /\ poll' = [NoPoll EXCEPT !.pc = "answering", !.g = gen + 1]
        /\ op' = [op EXCEPT ![gen + 1] = "get"]
        /\ owner' = IF owner = poll.call THEN NoCall ELSE owner
  /\ UNCHANGED <<open, leaving, external>>

NothingToShow ==
  /\ open /\ poll.pc \in {"pending", "list"}
  /\ poll.seen # "ringing" \/ cur # 0
  /\ poll' = NoPoll
  /\ UNCHANGED <<open, gen, cur, ses, op, ring, owner, pending, leaving, external>>

-----------------------------------------------------------------------------
(* External: the call server, and the other party through it *)

RemoteCalls(k) ==
  /\ open /\ k \in Incoming /\ server[k] = "unused"
  /\ server' = [server EXCEPT ![k] = "ringing"]
  /\ UNCHANGED <<open, gen, cur, ses, op, ring, owner, poll, pending, leaving, ice>>

\* The other party accepts, or another device of this account does.
RemoteAccepts(k) ==
  /\ open /\ server[k] = "ringing"
  /\ server' = [server EXCEPT ![k] = "accepted"]
  /\ UNCHANGED <<open, gen, cur, ses, op, ring, owner, poll, pending, leaving, ice>>

RemoteIce(k) ==
  /\ open /\ k \in Trickled \ ice /\ server[k] \in {"ringing", "accepted"}
  /\ ice' = ice \cup {k}
  /\ UNCHANGED <<open, gen, cur, ses, op, ring, owner, poll, pending, leaving, server>>

\* The other party ends the call, or the server stops its ringing; an action of
\* this page on it then changes nothing.
CallOver(k) ==
  /\ open /\ server[k] \in {"ringing", "accepted"}
  /\ server' = [server EXCEPT ![k] = "over"]
  /\ leaving' = leaving \ {k}
  /\ UNCHANGED <<open, gen, cur, ses, op, ring, owner, poll, pending, ice>>

Missed(k) == server[k] = "ringing" /\ CallOver(k)

ActionArrives(k) ==
  /\ k \in leaving
  /\ leaving' = leaving \ {k}
  /\ server' = [server EXCEPT ![k] = "over"]
  /\ UNCHANGED <<open, gen, cur, ses, op, ring, owner, poll, pending, ice>>

ActionLost(k) ==
  /\ k \in leaving
  /\ leaving' = leaving \ {k}
  /\ UNCHANGED <<open, gen, cur, ses, op, ring, owner, poll, pending, external>>

-----------------------------------------------------------------------------
SetupSettles(g) ==
  \/ ConfigArrives(g) \/ OfferMade(g) \/ (\E k \in Calls : CreateServed(g, k)) \/ CreateReplied(g)
  \/ FlushPendingIce(g) \/ RequestFails(g) \/ PeerStepFails(g)
  \/ CallIsRead(g) \/ OfferApplied(g) \/ AnswerMade(g) \/ AnswerServed(g) \/ AnswerReplied(g)

RingSettles(g) == ClaimGranted(g) \/ ClaimDenied(g) \/ PlaySettles(g)

PollSettles == PollGone \/ CanonicalCall \/ AnswerApplied \/ ShowIncoming \/ NothingToShow

User == StartOutgoing \/ Answer \/ AnswerAgain \/ Hangup \/ Reject \/ PageHide

SessionStep(g) ==
  \/ MediaGranted(g) \/ MediaRefused(g) \/ SetupSettles(g) \/ SecondAnswerFails(g) \/ RingSettles(g)
  \/ IceGathered(g) \/ IceSent(g) \/ RemoteTrack(g) \/ Connected(g) \/ PeerFailure(g)

Environment(k) ==
  RemoteCalls(k) \/ RemoteAccepts(k) \/ RemoteIce(k) \/ CallOver(k) \/ ActionArrives(k) \/ ActionLost(k)

Next ==
  \/ User
  \/ \E g \in Gens : SessionStep(g)
  \/ OwnershipLost \/ CallStateEvent
  \/ PollRead \/ PollSettles
  \/ \E k \in Calls : Environment(k)

Spec == Init /\ [][Next]_vars

\* Requests settle because each has a timeout, promises of an open connection and
\* of the audio because the browser settles them, and polls because of the page's
\* timer; a poll's reads do not fail forever, and the server stops unanswered
\* ringing.  Nothing is assumed of the user, of the permission prompt or of the
\* other party.
Fairness ==
  /\ \A g \in Gens : WF_vars(SetupSettles(g)) /\ WF_vars(RingSettles(g)) /\ WF_vars(IceSent(g))
  /\ WF_vars(PollRead) /\ WF_vars(PollSettles)
  /\ \A k \in Calls : WF_vars(Missed(k))

FairSpec == Spec /\ Fairness

-----------------------------------------------------------------------------
(* Properties *)

OpStates == {"none", "media", "ringback", "lost"} \cup Requests \cup PeerWaits
PollStates == {"idle", "call", "pending", "list", "describing", "answering"}

\* The state is well-formed: a session's record, its set-up and its ring hold the
\* values the code gives them, and the current session is a created one that has
\* not ended.
TypeOK ==
  /\ open \in BOOLEAN
  /\ gen \in 0..MaxGen
  /\ cur \in 0..gen
  /\ ses \in [Gens -> [role : {"caller", "callee"}, call : Calls \cup {NoCall}, made : Calls \cup {NoCall},
                       st : States, mic : BOOLEAN, peer : Peers,
                       mine : {"none", "pending", "sending"},
                       held : BOOLEAN, twice : BOOLEAN]]
  /\ op \in [Gens -> OpStates]
  /\ ring \in [Gens -> [pc : {"idle", "claiming", "starting", "done"}, sounds : BOOLEAN]]
  /\ owner \in Calls \cup {NoCall}
  /\ poll \in [pc : PollStates, g : 0..gen, call : Calls \cup {NoCall},
               seen : {"none", "unused", "ringing", "accepted", "over"}, ice : BOOLEAN]
  /\ pending \in Incoming \cup {NoCall}
  /\ leaving \in SUBSET Calls
  /\ server \in [Calls -> {"unused", "ringing", "accepted", "over"}]
  /\ ice \in SUBSET Calls
  /\ cur # 0 => ses[cur].st # "ENDED"

\* Nothing of a call outlives it: a session that is not the current one has no
\* live microphone, no open connection and no ring that sounds, whatever its
\* promises do when they settle late (media.js, ring-audio.js).
NothingOutlivesItsCall ==
  \A g \in Gens : g # cur => /\ ~ses[g].mic
                             /\ ses[g].peer = "none"
                             /\ ~ring[g].sounds

\* The session, its microphone, its ring and its conversation, as the line of the
\* device.
Line == INSTANCE PhoneLine WITH
  line <- cur,
  last <- gen,
  mic <- \E g \in Gens : ses[g].mic,
  sound <- \E g \in Gens : ring[g].sounds,
  talking <- \E g \in Gens : ses[g].st = "CONNECTED"

\* The client implements the line: every step of a session, of a late promise, of a
\* poll or of the user takes it, uses it, frees it or leaves it alone.
OneLine == Line!PhoneSpec

\* runtime.js: "Answer intent must silence the callee before any network or media
\* work": while answer() works, no ring has started to play.
AnswerIsSilent ==
  \A g \in Gens : ses[g].role = "callee" /\ op[g] \in AnswerWaits
                    => ~(ring[g].sounds /\ ring[g].pc = "done")

\* The page waits for the user's permission, or for a promise of a connection
\* that was closed, which never settles: until then no poll runs.
PollWaits ==
  \/ poll.pc = "describing" /\ poll.g # cur
  \/ poll.pc = "answering" /\ op[poll.g] \in {"media", "lost"}

\* A ring does not sound for ever: an unanswered call is ended by the server and
\* the poll ends the session, an accepted one is silenced by the poll.
RingEnds ==
  \A g \in Gens : ring[g].sounds ~> (~ring[g].sounds \/ PollWaits)

\* A session whose call is over at the server is closed.
EndedCallsClose ==
  \A g \in Gens : (cur = g /\ ses[g].call # NoCall /\ server[ses[g].call] = "over") ~> (cur # g \/ PollWaits)

\* A ringing call is shown by a page without a pending link that is not in a call.
IncomingShown ==
  \A k \in Incoming :
    (server[k] = "ringing" /\ cur = 0) ~>
      \/ server[k] # "ringing" \/ cur # 0
      \/ pending # NoCall \/ PollWaits \/ ~open \/ gen = MaxGen
=============================================================================
