------------------------------- MODULE Contacts -------------------------------
(***************************************************************************)
(* The contacts rail of the messaging page (messaging_contact_v1.js): what   *)
(* the user may do with a peer, offered by the relation the page shows, each *)
(* change followed by a reload of the profile, the connections and the       *)
(* blocked peers.                                                            *)
(***************************************************************************)
EXTENDS Naturals, FiniteSets

CONSTANTS Peers, None,
          MaxChanges  \* bound on the changes of relation, the user's and the peers'
ContactsAssumption == MaxChanges \in Nat

VARIABLES
  server,   \* external: every peer's connection, the peers blocked, how many changes there were
  shown,    \* state.connections, state.blocks and the relations in state.searchResults
  surface,  \* the menu or the confirmation on screen, for a peer, with what it was opened with
  ops,      \* per busy key the step under way: the peers' and the page's
  reload,   \* per key: what refresh() has read, and when (the number of changes)
  behind    \* a reload failed, was overtaken, or a peer changed something since

vars == <<server, shown, surface, ops, reload, behind>>

Keys == Peers \cup {"page"}  \* "page": the first load and the avatar's
Links == {"none", "pending_sent", "pending_received", "accepted"}
Actions == {"request", "cancel", "accept", "reject", "remove", "block", "unblock"}
NoRead == [links |-> None, blocked |-> None, since |-> 0]
NoSurface == [kind |-> "none", peer |-> None, action |-> "none"]
NoOp == [at |-> "none", action |-> "none"]

Init ==
  /\ \E l \in [Peers -> Links] : server = [links |-> l, blocked |-> {}, changes |-> 0]
  /\ shown = [links |-> [p \in Peers |-> "none"], blocked |-> {}, found |-> [p \in Peers |-> None]]
  /\ surface = NoSurface
  /\ ops = [k \in Keys |-> IF k = "page" THEN [NoOp EXCEPT !.at = "reload"] ELSE NoOp]
  /\ reload = [k \in Keys |-> NoRead]
  /\ behind = FALSE

-----------------------------------------------------------------------------
(* External: the relation of two users *)

After(s, p, action) ==
  CASE action = "block" -> [s EXCEPT !.blocked = @ \cup {p}, !.links[p] = "none"]
    [] action = "unblock" -> [s EXCEPT !.blocked = @ \ {p}]
    [] action = "request" -> [s EXCEPT !.links[p] = "pending_sent"]
    [] action = "accept" -> [s EXCEPT !.links[p] = "accepted"]
    [] OTHER -> [s EXCEPT !.links[p] = "none"]

Allowed(p, action) ==
  CASE action = "block" -> p \notin server.blocked
    [] action = "unblock" -> p \in server.blocked
    [] action = "request" -> server.links[p] = "none" /\ p \notin server.blocked
    [] action = "cancel" -> server.links[p] = "pending_sent"
    [] action \in {"accept", "reject"} -> server.links[p] = "pending_received"
    [] OTHER -> server.links[p] = "accepted"

Change(s) == server' = [s EXCEPT !.changes = @ + 1]

\* The peer asks, withdraws, answers or leaves: nothing tells the page.
PeerActs(p) ==
  /\ server.changes < MaxChanges /\ p \notin server.blocked
  /\ \E l \in Links \ {server.links[p]} :
       /\ CASE server.links[p] = "none" -> l = "pending_received"
            [] server.links[p] = "pending_sent" -> l \in {"none", "accepted"}
            [] OTHER -> l = "none"
       /\ Change([server EXCEPT !.links[p] = l])
  /\ behind' = TRUE
  /\ UNCHANGED <<shown, surface, ops, reload>>

-----------------------------------------------------------------------------
(* openSurface, closeSurface: one surface, and what it does *)

\* relationshipFor: without a block or a connection, what the search has told.
Relation(p) ==
  IF p \in shown.blocked THEN "blocked_by_me" ELSE IF shown.links[p] # "none" THEN shown.links[p] ELSE shown.found[p]

\* The relations the rows of the peer, in the tabs and in the search, are rendered with.
Rows(p) ==
  ({shown.links[p]} \ {"none"}) \cup {r \in {"blocked_by_me"} : p \in shown.blocked}
    \cup {r \in {Relation(p)} : shown.found[p] # None}

\* actionSpecs.
Offered(relation) ==
  CASE relation = "blocked_by_me" -> {"unblock"}
    [] relation = "accepted" -> {"remove", "block"}
    [] relation = "pending_received" -> {"accept", "reject", "block"}
    [] relation = "pending_sent" -> {"cancel", "block"}
    [] OTHER -> {"request", "block"}
Confirmed == {"block", "unblock", "remove"}

\* openContactMenu: the actions are those of the relation when it opens.
MenuOpened(p) ==
  /\ surface.kind = "none"
  /\ \E relation \in Rows(p) : \E action \in Offered(relation) :
       surface' = [kind |-> "menu", peer |-> p, action |-> action]
  /\ UNCHANGED <<server, shown, ops, reload, behind>>

SurfaceClosed ==
  /\ surface.kind # "none"
  /\ surface' = NoSurface
  /\ UNCHANGED <<server, shown, ops, reload, behind>>

\* mutate: refused while the peer is busy.
Mutate(p, action) ==
  ops' = IF ops[p].at = "none" THEN [ops EXCEPT ![p] = [NoOp EXCEPT !.at = "task", !.action = action]] ELSE ops

\* A button of the menu: what must be confirmed opens the confirmation.
MenuClicked ==
  /\ surface.kind = "menu" /\ ops[surface.peer].at = "none"
  /\ IF surface.action \in Confirmed
     THEN surface' = [surface EXCEPT !.kind = "confirm"] /\ UNCHANGED ops
     ELSE surface' = NoSurface /\ Mutate(surface.peer, surface.action)
  /\ UNCHANGED <<server, shown, reload, behind>>

ConfirmClicked ==
  /\ surface.kind = "confirm"
  /\ surface' = NoSurface
  /\ Mutate(surface.peer, surface.action)
  /\ UNCHANGED <<server, shown, reload, behind>>

\* openChat: the peer stays busy until the page is left, or the request fails.
ChatClicked(p) ==
  /\ "accepted" \in Rows(p) /\ surface.kind = "none"
  /\ ops[p].at = "none"
  /\ ops' = [ops EXCEPT ![p].at = "chat"]
  /\ UNCHANGED <<server, shown, surface, reload, behind>>

ChatFailed(p) ==
  /\ ops[p].at = "chat"
  /\ ops' = [ops EXCEPT ![p] = NoOp]
  /\ UNCHANGED <<server, shown, surface, reload, behind>>

\* uploadAvatar and removeAvatar.
AvatarChanged ==
  /\ ops["page"].at = "none"
  /\ ops' = [ops EXCEPT !["page"].at = "task"]
  /\ UNCHANGED <<server, shown, surface, reload, behind>>

-----------------------------------------------------------------------------
(* A change under way: the request, refresh(), rerunSearch() *)

TaskServed(p) ==
  /\ ops[p].at = "task" /\ Allowed(p, ops[p].action) /\ server.changes < MaxChanges
  /\ Change(After(server, p, ops[p].action))
  /\ ops' = [ops EXCEPT ![p].at = "served"]
  /\ UNCHANGED <<shown, surface, reload, behind>>

\* Mutant of TaskReplied: the change is made and nothing is loaded again.
NothingReloaded(k) ==
  /\ ops[k].at = "served"
  /\ ops' = [ops EXCEPT ![k] = NoOp]
  /\ UNCHANGED <<server, shown, surface, reload, behind>>
TaskReplied(k) ==
  /\ ops[k].at = "served" \/ (k = "page" /\ ops[k].at = "task")
  /\ ops' = [ops EXCEPT ![k].at = "reload"]
  /\ UNCHANGED <<server, shown, surface, reload, behind>>

\* The task or the reload fails; what the server did, the page does not know.
OpFailed(k) ==
  /\ ops[k].at \in {"task", "served", "reload"}
  /\ behind' = (behind \/ ops[k].at # "task")
  /\ ops' = [ops EXCEPT ![k] = NoOp]
  /\ reload' = [reload EXCEPT ![k] = NoRead]
  /\ UNCHANGED <<server, shown, surface>>

\* refresh() is as old as the older of its two reads.
Later(k) == IF reload[k].links = None /\ reload[k].blocked = None THEN server.changes ELSE reload[k].since

\* refresh() asks for the connections and for the blocked peers at once.
Reads(k, links) ==
  /\ ops[k].at = "reload"
  /\ IF links
     THEN reload[k].links = None /\ reload' = [reload EXCEPT ![k].links = server.links, ![k].since = Later(k)]
     ELSE reload[k].blocked = None /\ reload' = [reload EXCEPT ![k].blocked = server.blocked, ![k].since = Later(k)]
  /\ UNCHANGED <<server, shown, surface, ops, behind>>

\* Both have answered: shown, whatever another reload has shown meanwhile.
Reloaded(k) ==
  /\ reload[k].links # None /\ reload[k].blocked # None
  /\ shown' = [shown EXCEPT !.links = reload[k].links, !.blocked = reload[k].blocked]
  /\ behind' = (reload[k].since # server.changes)
  /\ reload' = [reload EXCEPT ![k] = NoRead]
  /\ ops' = [ops EXCEPT ![k] = IF k \in Peers THEN [NoOp EXCEPT !.at = "search"] ELSE NoOp]
  /\ UNCHANGED <<server, surface>>

\* The search shows what it finds, nothing for a query too short, and what was shown
\* before when it fails.  Serving and showing are one step: what a reply shows may be as
\* old as one likes by the next step, but two replies do not overtake one another.
Search ==
  \/ UNCHANGED shown
  \/ \E hits \in SUBSET Peers :
       shown' = [shown EXCEPT !.found = [p \in Peers |-> IF p \in hits THEN server.links[p] ELSE None]]

\* rerunSearch: the peer is busy until the search has answered or failed.
Searched(k) ==
  /\ ops[k].at = "search"
  /\ Search
  /\ ops' = [ops EXCEPT ![k] = NoOp]
  /\ UNCHANGED <<server, surface, reload, behind>>

\* The search form.
SearchSubmitted == Search /\ UNCHANGED <<server, surface, ops, reload, behind>>

Next ==
  \/ SurfaceClosed \/ MenuClicked \/ ConfirmClicked \/ AvatarChanged \/ SearchSubmitted
  \/ \E p \in Peers : PeerActs(p) \/ MenuOpened(p) \/ ChatClicked(p) \/ ChatFailed(p) \/ TaskServed(p)
  \/ \E k \in Keys : TaskReplied(k) \/ OpFailed(k) \/ Reloaded(k) \/ Searched(k) \/ \E links \in BOOLEAN : Reads(k, links)

Spec == Init /\ [][Next]_vars

-----------------------------------------------------------------------------
TypeOK ==
  /\ server.links \in [Peers -> Links] /\ server.blocked \subseteq Peers /\ server.changes \in 0 .. MaxChanges
  /\ shown.links \in [Peers -> Links] /\ shown.blocked \subseteq Peers /\ shown.found \in [Peers -> Links \cup {None}]
  /\ surface = NoSurface \/ (surface.kind \in {"menu", "confirm"} /\ surface.peer \in Peers /\ surface.action \in Actions)
  /\ \A k \in Keys : ops[k] \in [at : {"none", "task", "served", "reload", "search", "chat"},
                                 action : Actions \cup {"none"}]
  /\ behind \in BOOLEAN

\* When nothing is under way the rail shows the relations as they are, the user's last
\* change included: unless a reload failed or was overtaken by a change, or a peer did
\* something, of which the rail is told nothing.
ShownIsTrue ==
  (\A k \in Keys : ops[k].at \in {"none", "search", "chat"}) /\ ~behind =>
    /\ shown.links = server.links
    /\ shown.blocked = server.blocked
=============================================================================
