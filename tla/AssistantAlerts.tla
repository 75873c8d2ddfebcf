---------------------------- MODULE AssistantAlerts ----------------------------
(***************************************************************************)
(* The alerts panel of the assistant page (assistant.js): the price alerts,  *)
(* the inbox and the preferences, each loaded, changed and loaded again,     *)
(* with nothing to order the answers.  The three share no state: a behaviour *)
(* follows one, as a set: the alerts there are, the messages unread, the     *)
(* boxes ticked.                                                             *)
(***************************************************************************)
EXTENDS Naturals

CONSTANTS Items,
          MaxLoads,   \* bounds on the loads at once
          MaxChanges  \* and on the changes
AlertsAssumption == "form" \notin Items /\ MaxLoads \in Nat /\ MaxChanges \in Nat

VARIABLES
  list,    \* the list this behaviour follows
  server,  \* external: the set, and how often it changed
  shown,   \* the set shown, and whether boxes were ticked since
  loads,   \* the loads under way and what was read for them
  ops,     \* per item, and for the form, the request under way; its button is disabled
  behind   \* a load failed or was overtaken, or the set changed by itself since

vars == <<list, server, shown, loads, ops, behind>>
Loads == 1 .. MaxLoads
NoLoad == [at |-> "none", set |-> {}, when |-> 0]
NoOp == [at |-> "none", set |-> {}, when |-> 0]

Init ==
  /\ list \in {"alerts", "inbox", "preferences"}
  /\ \E set \in SUBSET Items : server = [set |-> set, changes |-> 0]
  /\ shown = [set |-> {}, edited |-> FALSE]
  /\ loads = [l \in Loads |-> NoLoad]
  /\ ops = [o \in Items \cup {"form"} |-> NoOp]
  /\ behind = TRUE  \* nothing is loaded before the panel is opened

\* loadAlerts, loadInbox, loadPreferences.
Load == \E l \in Loads : loads[l] = NoLoad /\ loads' = [loads EXCEPT ![l].at = "asked"]

\* activateMode; the inbox is also loaded by the poll.
PanelOpened == Load /\ UNCHANGED <<list, server, shown, ops, behind>>

LoadServed(l) ==
  /\ loads[l].at = "asked"
  /\ loads' = [loads EXCEPT ![l] = [at |-> "served", set |-> server.set, when |-> server.changes]]
  /\ UNCHANGED <<list, server, shown, ops, behind>>

\* renderAlerts, renderInbox, applyPreferences: shown, over another answer or over boxes
\* the user has ticked.
LoadReplied(l) ==
  /\ loads[l].at = "served"
  /\ shown' = [set |-> loads[l].set, edited |-> FALSE]
  /\ behind' = (loads[l].when # server.changes)
  /\ loads' = [loads EXCEPT ![l] = NoLoad]
  /\ UNCHANGED <<list, server, ops>>

LoadFailed(l) ==
  /\ loads[l].at # "none"
  /\ loads' = [loads EXCEPT ![l] = NoLoad] /\ behind' = TRUE
  /\ UNCHANGED <<list, server, shown, ops>>

\* External: a message arrives, another device changes the alerts or the preferences.
Changed(set) == server.changes < MaxChanges /\ server' = [set |-> set, changes |-> server.changes + 1]
ServerChanges ==
  /\ \E i \in Items \ server.set : Changed(server.set \cup {i})
  /\ behind' = TRUE
  /\ UNCHANGED <<list, shown, loads, ops>>

-----------------------------------------------------------------------------
(* createAlert, deleteAlert, evaluateAlerts, markInboxMessageRead, savePreferences *)

Ticked(i) ==
  /\ list = "preferences"
  /\ shown' = [set |-> IF i \in shown.set THEN shown.set \ {i} ELSE shown.set \cup {i}, edited |-> TRUE]
  /\ UNCHANGED <<list, server, loads, ops, behind>>

\* A new alert or its evaluation, or every box as it is ticked.
Submitted ==
  /\ list # "inbox" /\ ops["form"] = NoOp
  /\ ops' = [ops EXCEPT !["form"] = [NoOp EXCEPT !.at = "asked", !.set = IF list = "preferences" THEN shown.set ELSE {}]]
  /\ UNCHANGED <<list, server, shown, loads, behind>>

\* The button of an item shown is disabled while its request is under way.
Asked(i) ==
  /\ i \in shown.set /\ ops[i] = NoOp
  /\ ops' = [ops EXCEPT ![i].at = "asked"]
  /\ UNCHANGED <<list, server, shown, loads, behind>>

AlertDeleted(i) == list = "alerts" /\ Asked(i)
MessageRead(i) == list = "inbox" /\ Asked(i)

OpServed(o) ==
  /\ ops[o].at = "asked"
  /\ ops' = [ops EXCEPT ![o].at = "served", ![o].when = server.changes + 1]
  /\ \/ o = "form" /\ list = "alerts" /\ \E i \in Items : Changed(server.set \cup {i})
     \/ o = "form" /\ list = "preferences" /\ Changed(ops[o].set)
     \/ o \in Items /\ Changed(server.set \ {o})
  /\ UNCHANGED <<list, shown, loads, behind>>

\* Mutant of OpReplied: the list is not loaded again.
ReplyOnly(o) ==
  /\ ops[o].at = "served"
  /\ ops' = [ops EXCEPT ![o] = NoOp]
  /\ UNCHANGED <<list, server, shown, loads, behind>>
\* The list is loaded again; the preferences are shown as they were saved.
OpReplied(o) ==
  /\ ops[o].at = "served"
  /\ ops' = [ops EXCEPT ![o] = NoOp]
  /\ IF list = "preferences"
     THEN /\ shown' = [set |-> ops[o].set, edited |-> FALSE]
          /\ behind' = (ops[o].when # server.changes)
          /\ UNCHANGED loads
     ELSE Load /\ UNCHANGED <<shown, behind>>
  /\ UNCHANGED <<list, server>>

OpFailed(o) ==
  /\ ops[o].at # "none"
  /\ behind' = (behind \/ ops[o].at = "served")
  /\ ops' = [ops EXCEPT ![o] = NoOp]
  /\ UNCHANGED <<list, server, shown, loads>>

Next ==
  \/ PanelOpened \/ ServerChanges \/ Submitted
  \/ \E l \in Loads : LoadServed(l) \/ LoadReplied(l) \/ LoadFailed(l)
  \/ \E i \in Items : Ticked(i) \/ AlertDeleted(i) \/ MessageRead(i)
  \/ \E o \in Items \cup {"form"} : OpServed(o) \/ OpReplied(o) \/ OpFailed(o)

Spec == Init /\ [][Next]_vars

-----------------------------------------------------------------------------
TypeOK ==
  /\ list \in {"alerts", "inbox", "preferences"}
  /\ server \in [set : SUBSET Items, changes : 0 .. MaxChanges]
  /\ shown \in [set : SUBSET Items, edited : BOOLEAN]
  /\ loads \in [Loads -> [at : {"none", "asked", "served"}, set : SUBSET Items, when : 0 .. MaxChanges]]
  /\ \A o \in Items \cup {"form"} : ops[o] \in [at : {"none", "asked", "served"}, set : SUBSET Items, when : 0 .. MaxChanges]
  /\ behind \in BOOLEAN

\* When nothing is under way and no box was ticked since, the panel shows the list as it
\* is, the user's own changes included: unless a load failed or was overtaken by a change,
\* or another device changed the list.
PanelIsTrue ==
  /\ \A l \in Loads : loads[l] = NoLoad
  /\ \A o \in Items \cup {"form"} : ops[o] = NoOp
  /\ ~behind /\ ~shown.edited
  => shown.set = server.set
=============================================================================
