------------------------------ MODULE MailboxLock ------------------------------
(***************************************************************************)
(* The settings and the mailbox lock of the open conversation, and the       *)
(* actions on its messages (messaging_core_v2.js).  The open conversation is *)
(* an object of the page (assistant.js): the module shares it until the list *)
(* of conversations gives it an object of its own, and takes the page's up   *)
(* again with every list of messages.  What an answer changes is written to  *)
(* the object the module has then.                                           *)
(***************************************************************************)
EXTENDS Naturals, FiniteSets

CONSTANTS Convs, None,
          MaxChanges,  \* bounds on the changes of a conversation's settings
          MaxLoads,    \* on the lists under way
          MaxOps       \* and on the requests under way at once
LockAssumption == None \notin Convs /\ {MaxChanges, MaxLoads, MaxOps} \subseteq Nat

VARIABLES
  server,  \* external: lock_enabled, locked and the change they are from, of each conversation
  list,    \* the page's list: the settings last loaded of each
  open,    \* the open conversation; the page's object of it, the module's, whether they are one
  dialogs, \* the dialogs open
  ops,     \* the requests under way: what they are for and what was answered
  loads,   \* lists of conversations and of messages under way, and the refresh due
  autoLock, \* the page is hidden and its timer to lock runs
  behind   \* the module has old settings, or another conversation's

vars == <<server, list, open, dialogs, ops, loads, autoLock, behind>>

Settings == [lock : BOOLEAN, locked : BOOLEAN, n : 0 .. MaxChanges]
Dialogs == {"settings", "unlock"}
Locks == {"lock", "lock again"}  \* bound: two requests to lock under way
Ops == {"save", "unlock"} \cup Locks
Loads == 1 .. MaxLoads
Nothing == [lock |-> FALSE, locked |-> FALSE, n |-> 0]
NoOp == [at |-> "none", conv |-> None, is |-> Nothing, over |-> 0, quiet |-> FALSE]
NoList == [at |-> "none", is |-> [c \in Convs |-> Nothing]]

Init ==
  /\ \E locked \in BOOLEAN : server = [c \in Convs |-> [lock |-> TRUE, locked |-> locked, n |-> 0]]
  /\ list = server
  /\ open = [conv |-> None, page |-> Nothing, core |-> Nothing, one |-> TRUE]
  /\ dialogs = {}
  /\ ops = [o \in Ops |-> NoOp]
  /\ loads = [lists |-> [l \in Loads |-> NoList], messages |-> 0, due |-> FALSE]
  /\ autoLock = FALSE
  /\ behind = FALSE

\* state.conversation.preferences is assigned.
Assign(is) == open' = [open EXCEPT !.core = is, !.page = IF open.one THEN is ELSE @]
Shows(d) == dialogs' = dialogs \cup {d}
Closes(d) == dialogs' = dialogs \ {d}
ListAsked(ls) == \E l \in Loads : ls.lists[l] = NoList /\ loads' = [ls EXCEPT !.lists[l].at = "asked"]

-----------------------------------------------------------------------------
(* The page's events *)

\* selectConversation: a new object, from the list as it was last loaded.
Selected(c) ==
  /\ dialogs = {} /\ loads.messages < MaxLoads
  /\ open' = [conv |-> c, page |-> list[c], core |-> list[c], one |-> TRUE]
  /\ loads' = [loads EXCEPT !.messages = @ + 1]
  /\ dialogs' = IF list[c].locked THEN {"unlock"} ELSE {}
  /\ behind' = (list[c].n # server[c].n)
  /\ UNCHANGED <<server, list, ops, autoLock>>

\* The filter or the poll; the refresh that was asked for.
ListWanted == ListAsked(loads) /\ UNCHANGED <<server, list, open, dialogs, ops, autoLock, behind>>

RefreshDue ==
  /\ loads.due /\ loads.messages < MaxLoads
  /\ ListAsked([loads EXCEPT !.due = FALSE, !.messages = IF open.conv # None THEN @ + 1 ELSE @])
  /\ UNCHANGED <<server, list, open, dialogs, ops, autoLock, behind>>

ListServed(l) ==
  /\ loads.lists[l].at = "asked"
  /\ loads' = [loads EXCEPT !.lists[l] = [at |-> "served", is |-> server]]
  /\ UNCHANGED <<server, list, open, dialogs, ops, autoLock, behind>>

\* "conversations": the module's conversation becomes a merged object of its own.
ListReplied(l) ==
  /\ loads.lists[l].at = "served"
  /\ list' = loads.lists[l].is
  /\ loads' = [loads EXCEPT !.lists[l] = NoList]
  /\ IF open.conv = None THEN UNCHANGED <<open, behind>>
     ELSE /\ open' = [open EXCEPT !.core = list'[open.conv], !.one = FALSE]
          /\ behind' = (list'[open.conv].n # server[open.conv].n)
  /\ UNCHANGED <<server, dialogs, ops, autoLock>>

\* "messages": the module takes the page's object, as it was when it was selected.
MessagesReplied ==
  /\ loads.messages > 0
  /\ loads' = [loads EXCEPT !.messages = @ - 1]
  /\ open' = [open EXCEPT !.core = open.page, !.one = TRUE]
  /\ behind' = IF open.one THEN behind ELSE open.page.n # server[open.conv].n
  /\ UNCHANGED <<server, list, dialogs, ops, autoLock>>

LoadFailed ==
  /\ \/ loads.messages > 0 /\ loads' = [loads EXCEPT !.messages = @ - 1]
     \/ \E l \in Loads : loads.lists[l].at # "none" /\ loads' = [loads EXCEPT !.lists[l] = NoList]
  /\ UNCHANGED <<server, list, open, dialogs, ops, autoLock, behind>>

-----------------------------------------------------------------------------
(* The dialogs and their requests *)

OpenSettings ==
  /\ open.conv # None /\ dialogs = {}
  /\ Shows("settings")
  /\ UNCHANGED <<server, list, open, ops, loads, autoLock, behind>>

\* Escape or a button of its own.
DialogClosed(d) ==
  /\ d \in dialogs /\ Closes(d)
  /\ UNCHANGED <<server, list, open, ops, loads, autoLock, behind>>

\* closeMessagingOverlaysForCall.
CallBegins ==
  /\ dialogs # {}
  /\ dialogs' = {}
  /\ UNCHANGED <<server, list, open, ops, loads, autoLock, behind>>

\* A history cleared or deleted, once it is: the page is loaded again.
ConversationActionDone ==
  /\ "settings" \in dialogs
  /\ list' = server
  /\ open' = [conv |-> None, page |-> Nothing, core |-> Nothing, one |-> TRUE]
  /\ dialogs' = {}
  /\ ops' = [o \in Ops |-> NoOp]
  /\ loads' = [lists |-> [l \in Loads |-> NoList], messages |-> 0, due |-> FALSE]
  /\ autoLock' = FALSE /\ behind' = FALSE
  /\ UNCHANGED server

\* A request for the open conversation.  The buttons to save and to unlock are disabled until it is
\* answered; the one to lock is not, and the page locks without asking.
Asks(o, is, quiet) ==
  /\ ops[o] = NoOp /\ (o = "lock again" => ops["lock"] # NoOp)
  /\ open.conv # None /\ Cardinality({p \in Ops : ops[p] # NoOp}) < MaxOps
  /\ ops' = [ops EXCEPT ![o] = [at |-> "asked", conv |-> open.conv, is |-> is, over |-> 0, quiet |-> quiet]]
  /\ UNCHANGED <<server, list, open, dialogs, behind>>
LocksQuietly == \E o \in Locks : Asks(o, Nothing, TRUE)

\* The box may be ticked or not.
SaveClicked ==
  /\ "settings" \in dialogs
  /\ \E box \in BOOLEAN : Asks("save", [Nothing EXCEPT !.lock = box], FALSE)
  /\ UNCHANGED <<loads, autoLock>>
UnlockSubmitted == "unlock" \in dialogs /\ Asks("unlock", Nothing, FALSE) /\ UNCHANGED <<loads, autoLock>>
\* The toolbar's button, which asks for the password of a locked mailbox.
LockClicked ==
  /\ dialogs = {} /\ open.core.lock /\ ~open.core.locked
  /\ \E o \in Locks : Asks(o, [open.core EXCEPT !.n = 0], FALSE)
  /\ UNCHANGED <<loads, autoLock>>
UnlockClicked ==
  /\ open.conv # None /\ dialogs = {} /\ open.core.lock /\ open.core.locked
  /\ Shows("unlock")
  /\ UNCHANGED <<server, list, open, ops, loads, autoLock, behind>>

\* External: the settings are saved, the mailbox locked or unlocked.
Changed(c, lock, locked) ==
  \E n \in 1 .. MaxChanges :
    /\ n = 1 + Cardinality({m \in 1 .. MaxChanges : \E d \in Convs : server[d].n >= m})
    /\ server' = [server EXCEPT ![c] = [lock |-> lock, locked |-> locked, n |-> n]]

\* The page takes no note of the answer to a lock it asked for by itself.
OpServed(o) ==
  LET c == ops[o].conv IN
  /\ ops[o].at = "asked"
  /\ \/ o = "save" /\ Changed(c, ops[o].is.lock, ops[o].is.lock /\ server[c].locked)
     \/ o \in Locks /\ Changed(c, TRUE, TRUE)
     \/ o = "unlock" /\ Changed(c, server[c].lock, FALSE)
  /\ IF ops[o].quiet THEN ops' = [ops EXCEPT ![o] = NoOp] /\ behind' = (behind \/ c = open.conv)
     ELSE /\ ops' = [ops EXCEPT ![o].at = "served", ![o].over = IF o = "unlock" THEN server[c].n ELSE 0,
                                ![o].is = IF o = "save" THEN server'[c] ELSE [@ EXCEPT !.n = server'[c].n]]
          /\ behind' = behind
  /\ UNCHANGED <<list, open, dialogs, loads, autoLock>>

\* An answer is written to the conversation open by now.
Elsewhere(o) == ops[o].conv # open.conv \/ ops[o].is.n # server[open.conv].n
Answered(o) == ops[o].at = "served" /\ ops' = [ops EXCEPT ![o] = NoOp] /\ UNCHANGED <<server, list, autoLock>>
Refreshes == loads' = [loads EXCEPT !.due = TRUE]

\* Mutant of SaveReplied: the answer is not taken.
SaveForgotten ==
  /\ Answered("save")
  /\ Closes("settings") /\ UNCHANGED <<open, loads, behind>>
SaveReplied ==
  /\ Answered("save")
  /\ Assign(ops["save"].is)
  /\ behind' = Elsewhere("save")
  /\ dialogs' = (dialogs \ {"settings"}) \cup (IF ops["save"].is.locked THEN {"unlock"} ELSE {})
  /\ Refreshes

\* What was known when it was clicked, locked.
LockReplied(o) ==
  /\ Answered(o)
  /\ Assign([ops[o].is EXCEPT !.lock = TRUE, !.locked = TRUE])
  /\ behind' = Elsewhere(o)
  /\ Shows("unlock")
  /\ UNCHANGED loads

\* What is known now, unlocked.  Settings other than those the server unlocked are still
\* from before that.
UnlockReplied ==
  LET op == ops["unlock"]
      mixed == op.conv = open.conv /\ open.core.n # op.over
  IN
  /\ Answered("unlock")
  /\ Assign([open.core EXCEPT !.locked = FALSE, !.n = IF mixed THEN op.over ELSE op.is.n])
  /\ behind' = (behind \/ Elsewhere("unlock") \/ mixed)
  /\ Closes("unlock")
  /\ Refreshes

\* A message was edited, deleted or reacted to, or the peer blocked: a refresh shows it.
Refreshed ==
  /\ open.conv # None
  /\ Refreshes
  /\ UNCHANGED <<server, list, open, dialogs, ops, autoLock, behind>>
EditSaved == Refreshed
MessageDeleted == Refreshed
ReactionToggled == Refreshed
PeerBlockToggled == Refreshed

\* Refused, or the answer is lost after the change was made.
OpFailed(o) ==
  /\ ops[o].at # "none"
  /\ behind' = (behind \/ ops[o].at = "served")
  /\ ops' = [ops EXCEPT ![o] = NoOp]
  /\ UNCHANGED <<server, list, open, dialogs, loads, autoLock>>

-----------------------------------------------------------------------------
(* scheduleMailboxAutoLock and pagehide *)

Hidden ==
  /\ autoLock' = (open.conv # None /\ open.core.lock)
  /\ UNCHANGED <<server, list, open, dialogs, ops, loads, behind>>

Shown ==
  /\ autoLock' = FALSE
  /\ UNCHANGED <<server, list, open, dialogs, ops, loads, behind>>

\* The conversation open then is locked.
AutoLockDue ==
  /\ autoLock /\ autoLock' = FALSE
  /\ LocksQuietly
  /\ UNCHANGED loads

\* The page is left, and may come back as it was.
PageHides ==
  /\ autoLock' = FALSE
  /\ loads' = [loads EXCEPT !.due = FALSE]
  /\ IF open.conv # None /\ open.core.lock THEN LocksQuietly ELSE UNCHANGED <<server, list, open, dialogs, ops, behind>>

Next ==
  \/ \E c \in Convs : Selected(c)
  \/ \E l \in Loads : ListServed(l) \/ ListReplied(l)
  \/ ListWanted \/ RefreshDue \/ MessagesReplied \/ LoadFailed
  \/ OpenSettings \/ SaveClicked \/ UnlockSubmitted
  \/ LockClicked \/ UnlockClicked
  \/ \E d \in Dialogs : DialogClosed(d)
  \/ \E o \in Ops : OpServed(o) \/ OpFailed(o)
  \/ SaveReplied \/ UnlockReplied \/ \E o \in Locks : LockReplied(o)
  \/ EditSaved \/ MessageDeleted \/ ReactionToggled \/ PeerBlockToggled \/ CallBegins \/ ConversationActionDone
  \/ Hidden \/ Shown \/ AutoLockDue \/ PageHides

Spec == Init /\ [][Next]_vars

-----------------------------------------------------------------------------
TypeOK ==
  /\ server \in [Convs -> Settings] /\ list \in [Convs -> Settings]
  /\ open \in [conv : Convs \cup {None}, page : Settings, core : Settings, one : BOOLEAN]
  /\ dialogs \subseteq Dialogs
  /\ ops \in [Ops -> [at : {"none", "asked", "served"}, conv : Convs \cup {None}, is : Settings, over : 0 .. MaxChanges,
                  quiet : BOOLEAN]]
  /\ loads.lists \in [Loads -> [at : {"none", "asked", "served"}, is : [Convs -> Settings]]]
  /\ loads.messages \in 0 .. MaxLoads /\ loads.due \in BOOLEAN
  /\ autoLock \in BOOLEAN /\ behind \in BOOLEAN

\* With no request under way the toolbar tells whether the open conversation's mailbox is
\* locked, whichever object the module has: unless an answer came after another one was
\* opened or after a newer change, was lost, the page's old object was taken up again, or
\* the page locked the mailbox by itself, hidden or left.
LockIsTold ==
  open.conv # None /\ ~behind /\ (\A o \in Ops : ops[o] = NoOp) => open.core = server[open.conv]
=============================================================================
