---------------------------- MODULE TranslateHistory ----------------------------
(***************************************************************************)
(* The history of translations under the live translator                     *)
(* (live_translate_history.js): pages before a cursor, pinned and deleted    *)
(* items, and a reload that is dropped while another load runs.  Items are   *)
(* numbered in their order, the newest last.                                 *)
(***************************************************************************)
EXTENDS Naturals, FiniteSets

CONSTANTS Limit,              \* items of a page
          MaxItems, MaxEdits  \* bounds on the items and on the edits at once
HistoryAssumption == Limit \in Nat \ {0} /\ MaxItems \in Nat /\ MaxEdits \in Nat

VARIABLES
  server,  \* external: the items there ever were, those that are, those pinned
  list,    \* the items shown, those shown as pinned, nextBeforeId, hasMore, the reloads dropped
  load,    \* bridge.loading, the load under way and what the server has read for it
  edits    \* the pins and deletions under way

vars == <<server, list, load, edits>>
Items == 1 .. MaxItems
NoLoad == [at |-> "none", append |-> FALSE, before |-> 0, items |-> {}, pinned |-> {}, more |-> FALSE]

Init ==
  /\ \E n \in 0 .. MaxItems : server = [last |-> n, alive |-> 1 .. n, pinned |-> {}]
  /\ list = [items |-> {}, pinned |-> {}, next |-> 0, more |-> FALSE, behind |-> FALSE]
  /\ load = [NoLoad EXCEPT !.at = "asked"]  \* installUi
  /\ edits = [i \in Items |-> "none"]

\* Mutant of Loading: a load does not wait for the one before.
NeverLoading == FALSE
Loading == load.at # "none"

\* loadHistory: a load is asked for, or dropped.
Load(append) ==
  IF Loading THEN load' = load /\ list' = [list EXCEPT !.behind = @ \/ ~append]
  ELSE /\ load' = [NoLoad EXCEPT !.at = "asked", !.append = append, !.before = IF append THEN list.next ELSE 0]
       /\ UNCHANGED list

RefreshClicked == Load(FALSE) /\ UNCHANGED <<server, edits>>
LoadMoreClicked == list.more /\ Load(TRUE) /\ UNCHANGED <<server, edits>>

\* External: the last items, or the last before the cursor.
Older == {i \in server.alive : load.before = 0 \/ i < load.before}
Page == {i \in Older : Cardinality({j \in Older : j > i}) < Limit}

LoadServed ==
  /\ load.at = "asked"
  /\ load' = [load EXCEPT !.at = "served", !.items = Page, !.pinned = server.pinned \cap Page, !.more = Page # Older]
  /\ UNCHANGED <<server, list, edits>>

\* renderHistory: a page after those shown, or alone.
LoadReplied ==
  /\ load.at = "served"
  /\ list' = [items |-> IF load.append THEN list.items \cup load.items ELSE load.items,
              pinned |-> IF load.append THEN list.pinned \cup load.pinned ELSE load.pinned,
              next |-> IF load.more THEN CHOOSE i \in load.items : \A j \in load.items : i <= j ELSE 0,
              more |-> load.more, behind |-> list.behind]
  /\ load' = NoLoad
  /\ UNCHANGED <<server, edits>>

LoadFailed ==
  /\ load.at # "none"
  /\ load' = NoLoad /\ list' = [list EXCEPT !.behind = TRUE]
  /\ UNCHANGED <<server, edits>>

\* renderResult: a translation is saved and the history loaded again.
Translated ==
  /\ server.last < MaxItems
  /\ server' = [server EXCEPT !.last = @ + 1, !.alive = @ \cup {server.last + 1}]
  /\ Load(FALSE)
  /\ UNCHANGED edits

\* pinHistory and deleteHistory, with the item as it is shown; its button is disabled.
EditClicked(i) ==
  /\ i \in list.items /\ edits[i] = "none"
  /\ Cardinality({j \in Items : edits[j] # "none"}) < MaxEdits
  /\ \E edit \in {"delete", IF i \in list.pinned THEN "unpin" ELSE "pin"} : edits' = [edits EXCEPT ![i] = edit]
  /\ UNCHANGED <<server, list, load>>

EditServed(i) ==
  /\ edits[i] \in {"pin", "unpin", "delete"}
  /\ edits' = [edits EXCEPT ![i] = "served"]
  /\ server' = IF edits[i] = "delete" THEN [server EXCEPT !.alive = @ \ {i}, !.pinned = @ \ {i}]
               ELSE IF edits[i] = "pin" /\ i \in server.alive THEN [server EXCEPT !.pinned = @ \cup {i}]
               ELSE [server EXCEPT !.pinned = @ \ {i}]
  /\ UNCHANGED <<list, load>>

EditReplied(i) ==
  /\ edits[i] = "served"
  /\ edits' = [edits EXCEPT ![i] = "none"]
  /\ Load(FALSE)
  /\ UNCHANGED server

EditFailed(i) ==
  /\ edits[i] # "none"
  /\ edits' = [edits EXCEPT ![i] = "none"]
  /\ list' = [list EXCEPT !.behind = @ \/ edits[i] = "served"]
  /\ UNCHANGED <<server, load>>

Next ==
  \/ RefreshClicked \/ LoadMoreClicked \/ LoadServed \/ LoadReplied \/ LoadFailed \/ Translated
  \/ \E i \in Items : EditClicked(i) \/ EditServed(i) \/ EditReplied(i) \/ EditFailed(i)

Spec == Init /\ [][Next]_vars

-----------------------------------------------------------------------------
TypeOK ==
  /\ server \in [last : 0 .. MaxItems, alive : SUBSET Items, pinned : SUBSET Items]
  /\ list \in [items : SUBSET Items, pinned : SUBSET Items, next : 0 .. MaxItems, more : BOOLEAN, behind : BOOLEAN]
  /\ load \in [at : {"none", "asked", "served"}, append : BOOLEAN, before : 0 .. MaxItems,
               items : SUBSET Items, pinned : SUBSET Items, more : BOOLEAN]
  /\ edits \in [Items -> {"none", "pin", "unpin", "delete", "served"}]

\* The pages fit: no item between two that are shown is missing, and what is loaded next
\* begins below what is shown, whatever loads, deletions and new items overlap.
NoHole ==
  /\ \A i, j \in list.items : (i .. j) \cap server.alive \subseteq list.items
  /\ list.more => \A i \in list.items : list.next <= i

\* But for a load that failed and a reload dropped because another load was under way,
\* the list follows what the page has done: a deleted item is not shown again.
ListFollows ==
  ~Loading /\ ~list.behind /\ (\A i \in Items : edits[i] = "none")
    => /\ list.items \subseteq server.alive
       /\ list.pinned = server.pinned \cap list.items
=============================================================================
