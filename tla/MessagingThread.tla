-------------------------- MODULE MessagingThread --------------------------
(***************************************************************************)
(* The conversation open on the messaging page (assistant.js and           *)
(* messaging_core_v2.js): its messages loaded page by page, the older ones *)
(* asked for and the pinned ones.  Every load is a request whose reply may *)
(* come late, or after another conversation was selected.                  *)
(*                                                                         *)
(* A message is its place in the log of the messaging service.  Receipts,  *)
(* reactions and edits, which change how a message is drawn, are left out: *)
(* their handlers end in the refresh modelled here.                        *)
(***************************************************************************)
EXTENDS Naturals, Sequences, FiniteSetsExt

CONSTANTS
  Convs, None,
  PageSize,      \* messages of a page: 30 in the code
  MaxMessages,   \* bound on the log
  MaxFlights     \* bound on the requests under way

ThreadAssumption ==
  /\ None \notin Convs
  /\ {PageSize, MaxMessages, MaxFlights} \subseteq Nat \ {0}

VARIABLES
  log,       \* external: the conversation of each message stored
  pinned,    \* external: the messages pinned
  page,      \* the page's state
  flights    \* requests under way

vars == <<log, pinned, page, flights>>
Ids == 1 .. MaxMessages

\* conversation; threadMessages; the cursor of messagePage (0: no older page);
\* pinnedItems and pinnedLoading.  "met" is history: each page taken since the
\* thread's last whole page was of the conversation and met what was shown.
Init ==
  /\ log = <<>> /\ pinned = {} /\ flights = {}
  /\ page = [conv |-> None, shown |-> {}, cursor |-> 0, met |-> TRUE, pins |-> {}, pinning |-> FALSE]

-----------------------------------------------------------------------------
(* External: pages of the messaging service, of the log as it was at n *)

OfConv(c, n) == {i \in 1 .. n : log[i] = c}
Largest(S) == {i \in S : Cardinality({j \in S : j > i}) < PageSize}
Smallest(S) == {i \in S : Cardinality({j \in S : j < i}) < PageSize}
\* next_before_cursor: the page's first message while there are older ones.
Before(S, answer) == IF \E i \in S : \A j \in answer : i < j THEN
                       IF answer = {} THEN 0 ELSE Min(answer)
                     ELSE 0

-----------------------------------------------------------------------------
(* Helpers *)

Load(c, mode, s) ==
  [kind |-> "load", conv |-> c, mode |-> mode, shown |-> s.shown, cursor |-> s.cursor,
   met |-> s.met, from |-> Len(log)]
Older(c, cursor, target) ==
  [kind |-> "older", conv |-> c, before |-> cursor, target |-> target, from |-> Len(log)]
Pins(c) == [kind |-> "pins", conv |-> c]

Room(n) == Cardinality(flights) + n <= MaxFlights

\* refreshPinnedMessages.
RefreshPins(s) == IF s.conv = None \/ s.pinning THEN s ELSE [s EXCEPT !.pinning = TRUE]
PinFlight(s) == IF s.conv = None \/ s.pinning THEN {} ELSE {Pins(s.conv)}

\* renderThreadMessages; the "messages" event loads the pinned messages.
Render(s, rest) == page' = RefreshPins(s) /\ flights' = rest \cup PinFlight(s)

External == UNCHANGED <<log, pinned>>

-----------------------------------------------------------------------------
(* Loading *)

\* selectConversation; the "conversation" event empties the pins.
SelectConversation(c) ==
  LET s == [page EXCEPT !.conv = c, !.shown = {}, !.cursor = 0, !.met = TRUE, !.pins = {}] IN
  /\ Room(1)
  /\ page' = s
  /\ flights' = flights \cup {Load(c, "plain", s)}
  /\ External

\* loadConversationMessages(true): a poll, or a refresh that asks the latest.
LoadConversationMessages(mode) ==
  /\ page.conv # None /\ Room(1)
  /\ flights' = flights \cup
       {Load(page.conv, IF mode = "after" /\ page.shown = {} THEN "plain" ELSE mode, page)}
  /\ page' = page
  /\ External

\* Mutant: the cursor kept is the page's at the reply, not at the request.
LoadReplied_CurrentCursor(f, n) ==
  LET S == OfConv(f.conv, n)
      after == Smallest({i \in S : \A j \in f.shown : i > j})
      latest == Largest(S)
      kept == {i \in f.shown : i < Min(latest)}
      answer ==
        CASE f.mode = "after" -> [shown |-> f.shown \cup after, cursor |-> page.cursor, met |-> f.met]
          [] f.mode = "latest" /\ f.shown # {} /\ latest # {} /\ kept # {} ->
               [shown |-> kept \cup latest, cursor |-> page.cursor,
                met |-> f.met /\ latest \cap f.shown # {}]
          [] OTHER -> [shown |-> latest, cursor |-> Before(S, latest), met |-> TRUE]
  IN
  /\ f \in flights /\ f.kind = "load" /\ n \in f.from .. Len(log)
  /\ Render([page EXCEPT !.shown = answer.shown, !.cursor = answer.cursor,
                          !.met = answer.met /\ f.conv = page.conv], flights \ {f})
  /\ External

\* The reply is taken whatever the conversation selected since.
LoadReplied(f, n) ==
  LET S == OfConv(f.conv, n)
      after == Smallest({i \in S : \A j \in f.shown : i > j})
      latest == Largest(S)
      kept == {i \in f.shown : i < Min(latest)}
      answer ==
        CASE f.mode = "after" -> [shown |-> f.shown \cup after, cursor |-> f.cursor, met |-> f.met]
          [] f.mode = "latest" /\ f.shown # {} /\ latest # {} /\ kept # {} ->
               [shown |-> kept \cup latest, cursor |-> f.cursor,
                met |-> f.met /\ latest \cap f.shown # {}]
          [] OTHER -> [shown |-> latest, cursor |-> Before(S, latest), met |-> TRUE]
  IN
  /\ f \in flights /\ f.kind = "load" /\ n \in f.from .. Len(log)
  /\ Render([page EXCEPT !.shown = answer.shown, !.cursor = answer.cursor,
                          !.met = answer.met /\ f.conv = page.conv], flights \ {f})
  /\ External

\* The button of older messages, which a timer makes ready again under a request.
LoadOlderClicked ==
  /\ page.conv # None /\ page.cursor # 0 /\ Room(1)
  /\ flights' = flights \cup {Older(page.conv, page.cursor, 0)}
  /\ page' = page
  /\ External

\* jumpToPinnedMessage of one not shown: ensureConversationMessageLoaded.
JumpToPinnedMessage(m) ==
  /\ m \in page.pins \ page.shown /\ page.cursor # 0 /\ Room(1)
  /\ flights' = flights \cup {Older(page.conv, page.cursor, m)}
  /\ page' = page
  /\ External

\* loadOlderConversationMessages; a jump goes on until it finds its message.
OlderReplied(f, n) ==
  LET S == {i \in OfConv(f.conv, n) : i < f.before}
      answer == Largest(S)
      s == [page EXCEPT !.shown = @ \cup answer, !.cursor = Before(S, answer),
                        !.met = @ /\ page.cursor = f.before]
      again == IF f.target # 0 /\ f.target \notin s.shown /\ s.cursor # 0
               THEN {Older(f.conv, s.cursor, f.target)} ELSE {}
  IN
  /\ f \in flights /\ f.kind = "older" /\ n \in f.from .. Len(log)
  \* a thread just emptied has no page to take the other cursor from: it throws
  /\ IF page.conv = f.conv /\ page.shown # {} THEN Render(s, (flights \ {f}) \cup again)
     ELSE page' = page /\ flights' = flights \ {f}
  /\ External

RequestFailed(f) ==
  /\ f \in flights
  /\ flights' = flights \ {f}
  /\ page' = [page EXCEPT !.pinning = IF f.kind = "pins" THEN FALSE ELSE @]
  /\ External

-----------------------------------------------------------------------------
(* Pinned messages *)

\* Mutant: the reply is taken whatever the conversation.
PinsReplied_Unchecked(f) ==
  /\ f \in flights /\ f.kind = "pins"
  /\ page' = [page EXCEPT !.pinning = FALSE, !.pins = {i \in pinned : log[i] = f.conv}]
  /\ flights' = flights \ {f}
  /\ External

PinsReplied(f) ==
  /\ f \in flights /\ f.kind = "pins"
  /\ page' = [page EXCEPT !.pinning = FALSE,
                          !.pins = IF page.conv # f.conv THEN @
                                   ELSE {i \in pinned : log[i] = f.conv}]
  /\ flights' = flights \ {f}
  /\ External

\* togglePin and unpinFromPinnedCenter: the service has it at once, the thread
\* and the pins are loaded again.
TogglePin(m) ==
  /\ m \in page.shown \cup page.pins /\ page.conv # None /\ Room(2)
  /\ pinned' = (pinned \cup {m}) \ (pinned \cap {m})
  /\ page' = RefreshPins(page)
  /\ flights' = flights \cup {Load(page.conv, "latest", page)} \cup PinFlight(page)
  /\ log' = log

\* openPinnedCenter loads the pins again.
OpenPinnedCenter ==
  /\ page.conv # None /\ Room(1)
  /\ page' = RefreshPins(page)
  /\ flights' = flights \cup PinFlight(page)
  /\ External

-----------------------------------------------------------------------------
\* External: a message, of the peer or of this page.
MessageArrives(c) ==
  /\ Len(log) < MaxMessages
  /\ log' = Append(log, c)
  /\ UNCHANGED <<pinned, page, flights>>

-----------------------------------------------------------------------------
Next ==
  \/ \E c \in Convs : SelectConversation(c) \/ MessageArrives(c)
  \/ \E mode \in {"after", "latest"} : LoadConversationMessages(mode)
  \/ \E f \in flights :
       \/ \E n \in 0 .. Len(log) : LoadReplied(f, n) \/ OlderReplied(f, n)
       \/ RequestFailed(f) \/ PinsReplied(f)
  \/ LoadOlderClicked \/ OpenPinnedCenter
  \/ \E m \in Ids : JumpToPinnedMessage(m) \/ TogglePin(m)

Spec == Init /\ [][Next]_vars

-----------------------------------------------------------------------------
Flights ==
  [kind : {"load"}, conv : Convs, mode : {"plain", "after", "latest"}, shown : SUBSET Ids,
   cursor : Ids \cup {0}, met : BOOLEAN, from : 0 .. MaxMessages]
  \cup [kind : {"older"}, conv : Convs, before : Ids, target : Ids \cup {0}, from : 0 .. MaxMessages]
  \cup [kind : {"pins"}, conv : Convs]

TypeOK ==
  /\ log \in Seq(Convs) /\ Len(log) <= MaxMessages
  /\ pinned \subseteq 1 .. Len(log)
  /\ flights \subseteq Flights
  /\ page \in [conv : Convs \cup {None}, shown : SUBSET Ids, cursor : Ids \cup {0},
               met : BOOLEAN, pins : SUBSET Ids, pinning : BOOLEAN]

\* The pinned messages listed are of the conversation selected, however late
\* the replies come.
PinsOfConversation == \A m \in page.pins : log[m] = page.conv

\* No message above which the thread shows one is passed over: it is shown, or
\* lies before the cursor the older ones are asked from, however loads, polls
\* and requests of older messages overlap.  Excepted ("met") is a thread that
\* since its last whole page took a reply of another conversation, a latest page
\* that shares no message with what was shown, or an older page asked from
\* another cursor than the thread's when it came: these may leave a hole, which
\* nothing asks for until the conversation is loaded whole again.
NoOlderSkipped ==
  page.met => \A j \in page.shown : \A i \in OfConv(page.conv, Len(log)) :
                i < j => i \in page.shown \/ i < page.cursor
=============================================================================
