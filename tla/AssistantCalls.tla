----------------------------- MODULE AssistantCalls -----------------------------
(***************************************************************************)
(* The assistant page's own calls (assistant.js), used where the call-v1    *)
(* client is not enabled: attempts to call or to answer, the incoming call  *)
(* shown and rung, the polls and the canonical refreshes, and the terminal  *)
(* cleanup that every end goes through.  callGeneration is modelled by what *)
(* it decides of an attempt, a refresh or a display (fresh).                *)
(***************************************************************************)
EXTENDS Naturals

CONSTANTS
  Incoming, Outgoing,  \* calls to this principal, calls it makes
  None,
  MaxAttempts          \* bound on the attempts

CallsAssumption == None \notin Incoming \cup Outgoing /\ Incoming \cap Outgoing = {} /\ MaxAttempts \in Nat

VARIABLES
  server,   \* external: the status of each call
  page,     \* callAttempt, activeCall, incomingCall, callSetupInFlight, peer, ringtone
  att,      \* the attempts
  dead,     \* terminalCallIds
  refresh,  \* callRefreshes
  show,     \* renderIncomingCall under way
  poll,     \* pollCalls under way
  asks      \* actions sent to the server: reject or end

vars == <<server, page, att, dead, refresh, show, poll, asks>>

Calls == Incoming \cup Outgoing
Opt == Calls \cup {None}
Atts == 1 .. MaxAttempts
NoAttempt == [at |-> "none", call |-> None, life |-> "none", fresh |-> FALSE, cleaned |-> FALSE, mic |-> FALSE]
NoRefresh == [at |-> "none", again |-> FALSE, fresh |-> FALSE, status |-> "none"]
NoShow == [call |-> None, fresh |-> FALSE]
NoPoll == [at |-> "none", list |-> {}, call |-> None]

Init ==
  /\ server = [k \in Calls |-> "none"]
  /\ page = [cur |-> 0, active |-> None, incoming |-> None, setup |-> FALSE, peer |-> 0, ring |-> None]
  /\ att = [g \in Atts |-> NoAttempt]
  /\ dead = {} /\ show = NoShow /\ poll = NoPoll /\ asks = {}
  /\ refresh = [k \in Calls |-> NoRefresh]

\* isCurrentCallAttempt and its lifecycle
Live(g) == page.cur = g /\ att[g].life = "active"
\* isCurrentPeer
PeerOf(g) == page.peer = g /\ Live(g) /\ att[g].fresh

\* What a new callGeneration makes of the contexts captured before.
Aged == [g \in Atts |-> [att[g] EXCEPT !.fresh = FALSE]]

\* rememberTerminalCallId
Buried(k) == dead \cup ({k} \ {None})

\* Mutant of Terminal: what ended is forgotten.
NeverTerminal(k) == FALSE
\* isTerminalCallId
Terminal(k) == k \in dead /\ page.active # k /\ page.incoming # k

-----------------------------------------------------------------------------
(* terminalCleanup *)

\* The call is k, else the active or the incoming one; g is the attempt it ends, 0
\* when it is not one's end (a call refused or over before it was answered).
Clean(a, g, k) ==
  LET call == IF k # None THEN k ELSE IF page.active # None THEN page.active ELSE page.incoming
      id == IF call # None THEN call ELSE IF g # 0 THEN a[g].call ELSE None IN
  /\ dead' = Buried(id)
  /\ page' = [page EXCEPT !.active = None, !.incoming = None, !.setup = FALSE, !.peer = 0,
                          !.ring = IF id \in {None, @} THEN None ELSE @]
  /\ att' = [h \in Atts |-> [a[h] EXCEPT !.fresh = FALSE,
                                         !.mic = @ /\ h # page.peer,
                                         !.life = IF h = g /\ @ = "active" THEN "over" ELSE @,
                                         !.cleaned = @ \/ h = g]]
  /\ refresh' = [j \in Calls |-> NoRefresh]
  /\ show' = [show EXCEPT !.fresh = FALSE]

\* An attempt is cleaned once.
Cleanup(a, g, k) ==
  IF g # 0 /\ a[g].cleaned
  THEN att' = a /\ UNCHANGED <<page, dead, refresh, show>>
  ELSE Clean(a, g, k)

-----------------------------------------------------------------------------
(* startCall and answerIncomingCall *)

\* beginCallAttempt
Begin(call, p) ==
  \E g \in Atts :
    /\ att[g] = NoAttempt /\ \A h \in 1 .. (g - 1) : att[h] # NoAttempt
    /\ att' = [Aged EXCEPT ![g] = [NoAttempt EXCEPT !.at = "gum", !.call = call, !.life = "active", !.fresh = TRUE]]
    /\ page' = [p EXCEPT !.cur = g, !.setup = TRUE]
    /\ show' = [show EXCEPT !.fresh = FALSE]
    /\ refresh' = [k \in Calls |-> [refresh[k] EXCEPT !.fresh = FALSE]]

StartClicked ==
  /\ page.active = None /\ page.peer = 0 /\ ~page.setup
  /\ Begin(None, page)
  /\ UNCHANGED <<server, dead, poll, asks>>

AnswerClicked ==
  /\ page.incoming # None /\ page.peer = 0 /\ ~page.setup
  /\ Begin(page.incoming, [page EXCEPT !.active = page.incoming])
  /\ UNCHANGED <<server, dead, poll, asks>>

Stage(g, at) == [att EXCEPT ![g].at = at]

\* The catch of both: closePeer cleans whatever attempt is current by then.
Failed(a, g) ==
  /\ IF page.cur # 0 /\ a[page.cur].cleaned
     THEN /\ page' = [page EXCEPT !.setup = FALSE, !.active = IF att[g].call \in Incoming THEN None ELSE @]
          /\ att' = [a EXCEPT ![g].at = "over"] /\ UNCHANGED <<dead, refresh, show>>
     ELSE Clean([a EXCEPT ![g].at = "over"], page.cur, None)
  /\ UNCHANGED <<server, poll, asks>>

\* A return without an error, after another cleanup has closed everything.
Returned(g) ==
  /\ att' = Stage(g, "over")
  /\ page' = [page EXCEPT !.setup = FALSE]
  /\ UNCHANGED <<server, dead, refresh, show, poll, asks>>

\* preparePeer: the microphone, then the ICE servers, that may be kept from before.
MicReplied(g, ok) ==
  /\ att[g].at = "gum"
  /\ IF ok /\ Live(g)
     THEN /\ att' = [att EXCEPT ![g].at = "servers", ![g].mic = TRUE]
          /\ UNCHANGED <<server, page, dead, refresh, show, poll, asks>>
     ELSE Failed(att, g)

ServersReplied(g, ok, kept) ==
  /\ att[g].at = "servers"
  /\ IF ok /\ Live(g) /\ (kept \/ att[g].fresh)
     THEN /\ att' = Stage(g, "described")
          /\ page' = [page EXCEPT !.peer = g]
          /\ UNCHANGED <<server, dead, refresh, show, poll, asks>>
     ELSE Failed([att EXCEPT ![g].mic = FALSE], g)

\* The descriptions are made; answering looks again whether the attempt is live and
\* its request is aborted when its context is not current.
Described(g, ok) ==
  /\ att[g].at = "described"
  /\ IF ~ok THEN Failed(att, g)
     ELSE IF att[g].call \in Incoming /\ ~Live(g) THEN Returned(g)
     ELSE IF att[g].call \in Incoming /\ ~att[g].fresh THEN Failed(att, g)
     ELSE att' = Stage(g, "asked") /\ UNCHANGED <<server, page, dead, refresh, show, poll, asks>>

\* At the server: the call is created, or accepted while it rings.
Served(g) ==
  /\ att[g].at = "asked"
  /\ \/ /\ att[g].call = None
        /\ \E k \in Outgoing : /\ server[k] = "none" /\ server' = [server EXCEPT ![k] = "ringing"]
                               /\ att' = [att EXCEPT ![g].at = "created", ![g].call = k]
     \/ /\ att[g].call \in Incoming /\ server[att[g].call] = "ringing"
        /\ server' = [server EXCEPT ![att[g].call] = "accepted"] /\ att' = Stage(g, "accepted")
  /\ UNCHANGED <<page, dead, refresh, show, poll, asks>>

Refused(g) ==
  /\ att[g].at \in {"asked", "created", "accepted"}
  /\ Failed(att, g)

\* A call created for an attempt that is over is ended at the server; else the
\* candidates found before it had an id are sent, and the setup is still in flight.
Created(g) ==
  LET k == att[g].call IN
  /\ att[g].at = "created"
  /\ IF Live(g)
     THEN /\ page' = [page EXCEPT !.active = k]
          /\ att' = Stage(g, "flush") /\ UNCHANGED asks
     ELSE /\ asks' = asks \cup {[kind |-> "end", call |-> k]}
          /\ att' = Stage(g, "over") /\ page' = [page EXCEPT !.setup = FALSE]
  /\ UNCHANGED <<server, dead, refresh, show, poll>>

Accepted(g) ==
  /\ att[g].at = "accepted"
  /\ IF PeerOf(g)
     THEN /\ page' = [page EXCEPT !.active = att[g].call, !.incoming = None, !.ring = None]
          /\ att' = Stage(g, "flush")
          /\ UNCHANGED <<server, dead, refresh, show, poll, asks>>
     ELSE Returned(g)

\* flushIce and the lists read after it: a candidate that is refused, or that another
\* cleanup aborts, fails the attempt like any other step.
FlushReplied(g, ok) ==
  /\ att[g].at = "flush"
  /\ IF ok
     THEN /\ att' = Stage(g, "up") /\ page' = [page EXCEPT !.setup = FALSE]
          /\ UNCHANGED <<server, dead, refresh, show, poll, asks>>
     ELSE Failed(att, g)

-----------------------------------------------------------------------------
(* endCall, rejectIncomingCall and their replies *)

EndClicked ==
  /\ page.cur # 0 /\ (page.peer # 0 \/ page.active # None \/ page.setup)
  /\ asks' = IF page.active = None THEN asks ELSE asks \cup {[kind |-> "end", call |-> page.active]}
  /\ Cleanup(att, page.cur, None)
  /\ UNCHANGED <<server, poll>>

RejectClicked ==
  /\ page.incoming # None
  /\ asks' = asks \cup {[kind |-> "reject", call |-> page.incoming]}
  /\ UNCHANGED <<server, page, att, dead, refresh, show, poll>>

\* A refusal cleans up when its reply comes, whatever the page does by then.
AskReplied(a, ok) ==
  /\ a \in asks
  /\ asks' = asks \ {a}
  /\ server' = IF ok THEN [server EXCEPT ![a.call] = "over"] ELSE server
  /\ IF a.kind = "reject" THEN Clean(att, 0, a.call) ELSE UNCHANGED <<page, att, dead, refresh, show>>
  /\ UNCHANGED poll

-----------------------------------------------------------------------------
(* renderIncomingCall, applyCanonicalCall and requestCanonicalCallRefresh *)

\* A new incoming call is shown at once, and rung after the conversations are loaded.
Render(k, r) ==
  IF Terminal(k) THEN r /\ UNCHANGED <<page, att, dead, show>>
  ELSE IF page.incoming # k
  THEN /\ page' = [page EXCEPT !.incoming = k] /\ show' = [call |-> k, fresh |-> TRUE]
       /\ r /\ UNCHANGED <<att, dead>>
  ELSE page' = [page EXCEPT !.ring = k] /\ r /\ UNCHANGED <<att, dead, show>>

Rung ==
  /\ show.call # None
  /\ page' = IF show.fresh /\ page.incoming = show.call THEN [page EXCEPT !.ring = show.call] ELSE page
  /\ show' = NoShow
  /\ UNCHANGED <<server, att, dead, refresh, poll, asks>>

Done(k) ==
  refresh' = [refresh EXCEPT ![k] = IF @.again THEN [NoRefresh EXCEPT !.at = "asked", !.fresh = TRUE] ELSE NoRefresh]

Apply(k, status) ==
  \/ /\ status = "over" /\ page.active = k
     /\ IF page.cur # 0 /\ att[page.cur].cleaned
        THEN Done(k) /\ UNCHANGED <<page, att, dead, show>>
        ELSE Clean(att, page.cur, None)
  \/ /\ status = "over" /\ page.active # k /\ page.incoming = k
     /\ Clean(att, 0, k)
  \/ /\ status # "over" /\ page.active = k
     /\ Done(k) /\ UNCHANGED <<page, att, dead, show>>
  \/ /\ status = "ringing" /\ page.active # k /\ k \in Incoming
     /\ Render(k, Done(k))
  \/ /\ status # "over" /\ ~(status = "ringing" /\ k \in Incoming) /\ page.active # k /\ page.incoming = k
     /\ Clean(att, 0, k)
  \/ /\ page.active # k /\ page.incoming # k /\ ~(status = "ringing" /\ k \in Incoming)
     /\ Done(k) /\ UNCHANGED <<page, att, dead, show>>

\* isCurrentCallContext of a refresh: while the page has a call, or its last attempt
\* had one, another call is not looked at.
Heeded(k) ==
  LET ids == {page.active, page.incoming, IF page.cur = 0 THEN None ELSE att[page.cur].call} \ {None} IN
  ids = {} \/ k \in ids

\* One refresh of a call at a time; what is asked meanwhile makes it read again, unless
\* an attempt was begun since, which gives it up for a new one.
Ask(k) ==
  refresh' = IF Terminal(k) THEN refresh
             ELSE IF refresh[k].at # "none" /\ refresh[k].fresh THEN [refresh EXCEPT ![k].again = TRUE]
             ELSE [refresh EXCEPT ![k] = [NoRefresh EXCEPT !.at = "asked", !.fresh = Heeded(k)]]

\* A realtime event about a call of this principal.
EventArrives(k) ==
  /\ server[k] # "none"
  /\ Ask(k)
  /\ UNCHANGED <<server, page, att, dead, show, poll, asks>>

RefreshServed(k) ==
  /\ refresh[k].at = "asked" /\ server[k] # "none"
  /\ refresh' = [refresh EXCEPT ![k].at = "served", ![k].status = server[k]]
  /\ UNCHANGED <<server, page, att, dead, show, poll, asks>>

RefreshReplied(k) ==
  /\ refresh[k].at = "served"
  /\ IF refresh[k].fresh /\ Heeded(k) THEN Apply(k, refresh[k].status)
     ELSE refresh' = [refresh EXCEPT ![k] = NoRefresh] /\ UNCHANGED <<page, att, dead, show>>
  /\ UNCHANGED <<server, poll, asks>>

RefreshFailed(k) ==
  /\ refresh[k].at \in {"asked", "served"}
  /\ refresh' = [refresh EXCEPT ![k] = NoRefresh]
  /\ UNCHANGED <<server, page, att, dead, show, poll, asks>>

-----------------------------------------------------------------------------
(* pollCalls *)

\* A poll follows the call that is active, or lists the calls.
PollTick ==
  /\ poll = NoPoll
  /\ IF page.active # None
     THEN Ask(page.active) /\ poll' = [NoPoll EXCEPT !.at = "follows", !.call = page.active]
     ELSE poll' = [NoPoll EXCEPT !.at = "asked"] /\ UNCHANGED refresh
  /\ UNCHANGED <<server, page, att, dead, show, asks>>

PollServed ==
  /\ poll.at = "asked"
  /\ poll' = [poll EXCEPT !.at = "served", !.list = {k \in Incoming : server[k] = "ringing"}]
  /\ UNCHANGED <<server, page, att, dead, refresh, show, asks>>

\* Where no call rings any more, the ring stops after the shown call is read again.
PollReplied ==
  /\ poll.at = "served"
  /\ \/ /\ poll.list = {} /\ page.incoming = None
        /\ page' = [page EXCEPT !.ring = None] /\ poll' = NoPoll
        /\ UNCHANGED <<att, dead, refresh, show>>
     \/ /\ poll.list = {} /\ page.incoming # None
        /\ Ask(page.incoming) /\ poll' = [NoPoll EXCEPT !.at = "clears", !.call = page.incoming]
        /\ UNCHANGED <<page, att, dead, show>>
     \/ \E k \in poll.list : Render(k, UNCHANGED refresh) /\ poll' = NoPoll
  /\ UNCHANGED <<server, asks>>

PollFailed ==
  /\ poll.at \in {"asked", "served"}
  /\ poll' = NoPoll
  /\ UNCHANGED <<server, page, att, dead, refresh, show, asks>>

\* The refresh it waited for has settled.  A call that is still active may have come
\* back over with the reply to a signal meanwhile (AssistantNegotiation).
PollWaited ==
  /\ poll.at \in {"follows", "clears"} /\ refresh[poll.call].at = "none"
  /\ poll' = NoPoll
  /\ \/ /\ poll.at = "clears" /\ page' = [page EXCEPT !.ring = None]
        /\ UNCHANGED <<att, dead, refresh, show>>
     \/ poll.at = "follows" /\ UNCHANGED <<page, att, dead, refresh, show>>
     \/ /\ poll.at = "follows" /\ page.active # None /\ server[page.active] = "over"
        /\ Cleanup(att, page.cur, None)
  /\ UNCHANGED <<server, asks>>

-----------------------------------------------------------------------------
\* External: a call comes, the peer accepts or ends one, or a call is missed.
Others(k) ==
  /\ \/ k \in Incoming /\ server[k] = "none" /\ server' = [server EXCEPT ![k] = "ringing"]
     \/ k \in Outgoing /\ server[k] = "ringing" /\ server' = [server EXCEPT ![k] = "accepted"]
     \/ server[k] \in {"ringing", "accepted"} /\ server' = [server EXCEPT ![k] = "over"]
  /\ UNCHANGED <<page, att, dead, refresh, show, poll, asks>>

Next ==
  \/ StartClicked \/ AnswerClicked \/ EndClicked \/ RejectClicked \/ Rung
  \/ PollTick \/ PollServed \/ PollReplied \/ PollFailed \/ PollWaited
  \/ \E g \in Atts, ok, kept \in BOOLEAN :
       MicReplied(g, ok) \/ ServersReplied(g, ok, kept) \/ Described(g, ok) \/ FlushReplied(g, ok)
  \/ \E g \in Atts : Served(g) \/ Refused(g) \/ Created(g) \/ Accepted(g)
  \/ \E a \in asks, ok \in BOOLEAN : AskReplied(a, ok)
  \/ \E k \in Calls : EventArrives(k) \/ RefreshServed(k) \/ RefreshReplied(k) \/ RefreshFailed(k) \/ Others(k)

Spec == Init /\ [][Next]_vars

-----------------------------------------------------------------------------
Statuses == {"none", "ringing", "accepted", "over"}

TypeOK ==
  /\ server \in [Calls -> Statuses]
  /\ page \in [cur : 0 .. MaxAttempts, active : Opt, incoming : Opt, setup : BOOLEAN,
               peer : 0 .. MaxAttempts, ring : Opt]
  /\ att \in [Atts -> [at : {"none", "gum", "servers", "described", "asked", "created", "accepted", "flush", "up", "over"},
                       call : Opt, life : {"none", "active", "over"}, fresh : BOOLEAN, cleaned : BOOLEAN, mic : BOOLEAN]]
  /\ dead \subseteq Calls
  /\ refresh \in [Calls -> [at : {"none", "asked", "served"}, again : BOOLEAN, fresh : BOOLEAN, status : Statuses]]
  /\ show \in [call : Opt, fresh : BOOLEAN]
  /\ poll \in [at : {"none", "asked", "served", "follows", "clears"}, list : SUBSET Incoming, call : Opt]
  /\ asks \subseteq [kind : {"end", "reject"}, call : Calls]

\* A call this page has cleaned up is neither shown, rung nor active again, however
\* late a poll, a refresh, a display or the reply of an attempt comes back with it.
NoCallReturns == \A k \in dead : page.active # k /\ page.incoming # k /\ page.ring # k

\* A microphone in use belongs to an attempt that is being set up or to the peer.
MicrophoneAccounted == \A g \in Atts : att[g].mic => att[g].at \in {"servers"} \/ page.peer = g
=============================================================================
