------------------------------ MODULE GroupEvents ------------------------------
(***************************************************************************)
(* The group page's own data (group_v3_app.js): the list of spaces, the     *)
(* messages of the selected one, the stream of its events and the refresh  *)
(* that an event queues, beside the operations that load the same data:    *)
(* refresh, selecting, creating and leaving a space, sending, pinning and  *)
(* managing members.  The messages are modelled by the number of changes   *)
(* they show.                                                              *)
(***************************************************************************)
EXTENDS Naturals

CONSTANTS
  Spaces,      \* the spaces there may be
  None,
  MaxChanges,  \* bound on the changes of a space
  MaxLoads     \* bound on the operations under way

EventsAssumption == None \notin Spaces /\ MaxChanges \in Nat /\ MaxLoads \in Nat \ {0}

VARIABLES
  server,  \* external: the spaces of this member, the changes of each
  page,    \* the selected space, the messages shown, busy, refreshQueued
  ev,      \* the event source and the refresh that waits
  ops      \* operations under way

vars == <<server, page, ev, ops>>
Ops == 1 .. MaxLoads

NoOp == [at |-> "none", kind |-> "none", want |-> None, of |-> None, ver |-> 0]
Closed == [source |-> None, up |-> FALSE, mail |-> FALSE, pending |-> None, timer |-> None]

\* wrong records that a load failed, or that an older reply or another space's
\* came last, until what is shown is current again.
Init ==
  /\ \E mine \in SUBSET Spaces : server = [mine |-> mine, log |-> [s \in Spaces |-> 0]]
  /\ page = [space |-> None, of |-> None, ver |-> 0, busy |-> TRUE, queued |-> FALSE, wrong |-> FALSE]
  /\ ev = Closed
  /\ ops = [o \in Ops |-> IF o = 1 THEN [NoOp EXCEPT !.at = "list", !.kind = "refresh"] ELSE NoOp]

\* closeGroupEvents, keeping the refresh that waits or not
Close(keep) == [Closed EXCEPT !.pending = IF keep THEN ev.pending ELSE None]

\* Mutant of Flushed: what comes while the page is busy is not kept.
FlushedOrDropped(e, p) ==
  IF e.pending = None \/ e.timer # None THEN e
  ELSE IF p.busy \/ p.space # e.pending THEN [e EXCEPT !.pending = None]
  ELSE [e EXCEPT !.timer = e.pending]

\* flushGroupEventRefresh
Flushed(e, p) ==
  IF e.pending = None \/ e.timer # None \/ p.busy \/ p.space # e.pending THEN e
  ELSE [e EXCEPT !.timer = e.pending]

\* queueGroupEventRefresh
Queued(e, p) == IF p.space # e.source THEN e ELSE Flushed([e EXCEPT !.pending = e.source], p)

\* connectGroupEvents
Connected(e, space) ==
  IF e.source # None /\ e.source = space THEN e
  ELSE [Closed EXCEPT !.pending = e.pending, !.source = space]

\* setBusy(false) and, after a refresh, the one that was asked meanwhile.
Free(p) == [p EXCEPT !.busy = FALSE]

-----------------------------------------------------------------------------
(* Operations: the button, the change at the server, the loads *)

Busy == {"refresh", "select", "create", "send"}   \* they set busy
Listing == {"refresh", "select", "create", "decide", "delete", "event"}   \* they call loadSpaces
Changing == {"create", "decide", "delete", "send", "member"}

\* The first step of an operation: its own request, or its load.
\* Deleting remembers the space of the click.
Started(kind) == IF kind \in Changing \cup {"select"} THEN "act" ELSE IF kind \in Listing THEN "list" ELSE "space"

Asked(kind, want) ==
  \E o \in Ops :
    /\ ops[o] = NoOp
    /\ ops' = [ops EXCEPT ![o] = [NoOp EXCEPT !.at = Started(kind), !.kind = kind, !.want = want,
                                              !.of = IF kind \in Listing \ {"delete"} THEN None ELSE page.space]]

Clicked(kind, want) ==
  /\ kind # "event" /\ kind # "refresh"
  /\ kind \notin {"create", "decide"} => page.space # None
  /\ kind = "select" => want # None /\ want # page.space
  /\ kind \in {"create", "decide"} => want # None /\ want \notin server.mine
  /\ kind \notin {"select", "create", "decide"} => want = None
  /\ Asked(kind, want)
  /\ page' = [page EXCEPT !.busy = @ \/ kind \in Busy]
  /\ UNCHANGED <<server, ev>>

\* refreshAll: while the page is busy it only notes that it was asked.
RefreshAsked ==
  /\ IF page.busy THEN page' = [page EXCEPT !.queued = TRUE] /\ UNCHANGED ops
     ELSE page' = [page EXCEPT !.busy = TRUE] /\ Asked("refresh", page.space)
  /\ UNCHANGED <<server, ev>>

\* The end of an operation, with the refresh that it held back.
Finish(o, p, e) ==
  LET q == IF ops[o].kind \in Busy THEN Free(p) ELSE p
      f == IF ops[o].kind \in Busy \cup {"event"} THEN Flushed(e, q) ELSE e
      again == ops[o].kind = "refresh" /\ q.queued IN
  /\ page' = IF again THEN [q EXCEPT !.queued = FALSE, !.busy = TRUE] ELSE q
  /\ ev' = f
  /\ ops' = [ops EXCEPT ![o] = IF again THEN [NoOp EXCEPT !.at = "list", !.kind = "refresh", !.want = q.space]
                               ELSE NoOp]

\* An operation that fails shows its error; the refresh of an event is refused
\* with 403 when the member was removed.
Refused(o) ==
  LET p == [page EXCEPT !.wrong = @ \/ ops[o].at \in {"list", "space", "read"}] IN
  /\ ops[o].at # "none"
  /\ IF ops[o].kind = "event" /\ page.space \notin server.mine
     THEN Finish(o, p, Close(FALSE)) ELSE Finish(o, p, ev)
  /\ UNCHANGED server

\* At the server: a space is joined or left, or one of its data changes.
Change(s) ==
  /\ server.log[s] < MaxChanges
  /\ server' = [server EXCEPT !.log[s] = @ + 1]
  /\ ev' = IF ev.source = s /\ ev.up THEN [ev EXCEPT !.mail = TRUE] ELSE ev

Acted(o) ==
  LET op == ops[o] IN
  /\ op.at = "act"
  /\ CASE op.kind = "select" -> UNCHANGED <<server, ev>>
       [] op.kind \in {"create", "decide"} -> server' = [server EXCEPT !.mine = @ \cup {op.want}] /\ UNCHANGED ev
       [] op.kind = "delete" -> server' = [server EXCEPT !.mine = @ \ {op.of}] /\ UNCHANGED ev
       [] OTHER -> Change(op.of)
  /\ ops' = [ops EXCEPT ![o].at = IF op.kind \in Listing THEN "list" ELSE "space",
                        ![o].of = IF op.kind \in Listing THEN @ ELSE page.space]
  /\ UNCHANGED page

\* loadSpaces: the space wished for, else the one shown, else any.
Chosen(want) ==
  {s \in server.mine \cup {None} :
     IF want \in server.mine THEN s = want
     ELSE IF page.space \in server.mine THEN s = page.space
     ELSE s # None \/ server.mine = {}}

ListReplied(o) ==
  /\ ops[o].at = "list"
  /\ \E s \in Chosen(ops[o].want) :
       IF s = None
       THEN Finish(o, [page EXCEPT !.space = None, !.of = None, !.wrong = FALSE], Close(FALSE))
       ELSE /\ page' = [page EXCEPT !.space = s]
            /\ ops' = [ops EXCEPT ![o].at = "space", ![o].of = s]
            /\ UNCHANGED ev
  /\ UNCHANGED server

\* loadSpace: the server reads, the page shows what came and does not look
\* again which space is selected.
SpaceRead(o) ==
  /\ ops[o].at = "space" /\ ops[o].of \in server.mine
  /\ ops' = [ops EXCEPT ![o].at = "read", ![o].ver = server.log[ops[o].of]]
  /\ UNCHANGED <<server, page, ev>>

SpaceReplied(o) ==
  LET op == ops[o]
      older == op.of = page.of /\ op.ver < page.ver
      wrong == older \/ op.of # page.space \/ (page.wrong /\ op.ver < server.log[op.of]) IN
  /\ op.at = "read"
  /\ page' = [page EXCEPT !.of = op.of, !.ver = op.ver, !.wrong = wrong]
  /\ ops' = [ops EXCEPT ![o].at = "rest"]
  /\ UNCHANGED <<server, ev>>

\* The rest of loadSpace, the members and what the surface shows, is awaited before the
\* stream is opened and the operation ends.
RestLoaded(o) ==
  /\ ops[o].at = "rest"
  /\ Finish(o, page, IF ops[o].kind \in Listing THEN Connected(ev, page.space) ELSE ev)
  /\ UNCHANGED server

-----------------------------------------------------------------------------
(* The stream of events *)

\* The stream opens, also again after it was lost.
SourceOpened ==
  /\ ev.source # None /\ ~ev.up /\ ev.source \in server.mine
  /\ ev' = Queued([ev EXCEPT !.up = TRUE], page)
  /\ UNCHANGED <<server, page, ops>>

SourceLost ==
  /\ ev.up
  /\ ev' = [ev EXCEPT !.up = FALSE, !.mail = FALSE]
  /\ UNCHANGED <<server, page, ops>>

\* group-change
EventArrives ==
  /\ ev.mail
  /\ ev' = Queued([ev EXCEPT !.mail = FALSE], page)
  /\ UNCHANGED <<server, page, ops>>

\* A timer left from another space leaves the refresh that waits for this one without
\* a timer, until the next event or the next operation that ends.
TimerFires ==
  LET e == [ev EXCEPT !.timer = None] IN
  /\ ev.timer # None
  /\ IF page.space # ev.timer \/ page.busy THEN ev' = e /\ UNCHANGED ops
     ELSE ev' = [e EXCEPT !.pending = None] /\ Asked("event", ev.timer)
  /\ page' = [page EXCEPT !.wrong = @ \/ (page.space # ev.timer /\ page.space = ev.pending)]
  /\ UNCHANGED server

\* External: another member changes a space or removes this one.
Others ==
  /\ \/ \E s \in server.mine : Change(s)
     \/ \E s \in server.mine : server' = [server EXCEPT !.mine = @ \ {s}] /\ UNCHANGED ev
  /\ UNCHANGED <<page, ops>>

Next ==
  \/ \E kind \in Busy \cup Listing \cup Changing \cup {"open"}, want \in Spaces \cup {None} : Clicked(kind, want)
  \/ RefreshAsked
  \/ \E o \in Ops : Refused(o) \/ Acted(o) \/ ListReplied(o) \/ SpaceRead(o) \/ SpaceReplied(o) \/ RestLoaded(o)
  \/ SourceOpened \/ SourceLost \/ EventArrives \/ TimerFires \/ Others

Spec == Init /\ [][Next]_vars

-----------------------------------------------------------------------------
TypeOK ==
  /\ server \in [mine : SUBSET Spaces, log : [Spaces -> 0 .. MaxChanges]]
  /\ page \in [space : Spaces \cup {None}, of : Spaces \cup {None}, ver : 0 .. MaxChanges,
               busy : BOOLEAN, queued : BOOLEAN, wrong : BOOLEAN]
  /\ ev \in [source : Spaces \cup {None}, up : BOOLEAN, mail : BOOLEAN,
             pending : Spaces \cup {None}, timer : Spaces \cup {None}]
  /\ ops \in [Ops -> [at : {"none", "act", "list", "space", "read", "rest"},
                      kind : {"none", "open"} \cup Busy \cup Listing \cup Changing,
                      want : Spaces \cup {None}, of : Spaces \cup {None}, ver : 0 .. MaxChanges]]

\* No change of the selected space is forgotten: when the page is idle, its stream
\* open and every event of it delivered, with no operation under way and no refresh
\* due, the messages shown are those of the space as it is.  Left out is what the
\* page cannot tell, until what it shows is current again: a load that failed, an older
\* or another space's reply that came last (loadSpace looks neither at the space nor at
\* the order), and a refresh that waits for the selected space behind a timer left from
\* the space selected before: there is one timer, and its callback, finding another
\* space, returns and sets none for what waits.
QuietPageIsCurrent ==
  (/\ ~page.busy /\ \A o \in Ops : ops[o] = NoOp
   /\ page.space # None /\ page.space \in server.mine /\ ev.source = page.space /\ ev.up /\ ~ev.mail /\ ev.timer = None
   /\ ~page.wrong)
    => page.of = page.space /\ page.ver = server.log[page.space]
=============================================================================
