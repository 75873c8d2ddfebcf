----------------------------- MODULE ServiceWorker -----------------------------
(***************************************************************************)
(* The service worker (service-worker.js): its versions install and take     *)
(* over at once, their caches answer first and are refreshed behind the      *)
(* answer, and the notifications of calls are shown and taken away by a push *)
(* and a message that come in any order.  One asset of each kind.            *)
(***************************************************************************)
EXTENDS Naturals

CONSTANTS Calls,
          MaxVersions,  \* bounds on the deployments
          MaxFetches    \* and on the fetches
WorkerAssumption == MaxVersions \in Nat \ {0} /\ MaxFetches \in Nat

VARIABLES
  site,     \* external: the version deployed
  worker,   \* the versions active and installing (0: none), those whose activation still deletes
  caches,   \* per version its cache: the asset's version, 0 while it has none, or "gone"
  fetches,  \* the fetches of the asset whose answer is not stored yet
  newest,   \* per version, the newest asset its worker has read and the one stored last
  late,     \* the caches made again after they were deleted, and those an older answer overwrote
  notes,    \* per call: the push, its notification, the call-terminal message
  front     \* a page of the assistant is visible

vars == <<site, worker, caches, fetches, newest, late, notes, front>>
Versions == 1 .. MaxVersions
Fetches == 1 .. MaxFetches
Gone == 0  \* no cache of that version
Empty == 1 \* a cache without the asset; n + 1: with the asset of version n
Held(n) == n + 1

Init ==
  /\ site = 1
  /\ worker = [active |-> 0, installing |-> 1, deletes |-> {}]
  /\ caches = [v \in Versions |-> Gone]
  /\ fetches = [f \in Fetches |-> [at |-> "none", by |-> 0, read |-> 0]]
  /\ newest = [v \in Versions |-> 0]
  /\ late = [made |-> {}, older |-> {}]
  /\ notes = [c \in Calls |-> [push |-> "none", shown |-> "none", told |-> FALSE, raced |-> FALSE]]
  /\ front = FALSE

-----------------------------------------------------------------------------
(* install and activate *)

Deployed ==
  /\ site < MaxVersions /\ worker.installing = 0
  /\ site' = site + 1
  /\ worker' = [worker EXCEPT !.installing = site + 1]
  /\ UNCHANGED <<caches, fetches, newest, late, notes, front>>

\* addAll stores the core assets, or fails and the worker is installed all the same;
\* skipWaiting: it takes over from the one before.
Installed(ok) ==
  /\ worker.installing # 0
  /\ caches' = [caches EXCEPT ![worker.installing] = IF ok THEN Held(site) ELSE Empty]
  /\ newest' = [newest EXCEPT ![worker.installing] = IF ok THEN site ELSE 0]
  /\ worker' = [active |-> worker.installing, installing |-> 0, deletes |-> worker.deletes \cup {worker.installing}]
  /\ UNCHANGED <<site, fetches, late, notes, front>>

\* Mutant of Activated: the caches of other versions are kept.
NothingDeleted(v) ==
  /\ v \in worker.deletes
  /\ worker' = [worker EXCEPT !.deletes = @ \ {v}]
  /\ UNCHANGED <<site, caches, fetches, newest, late, notes, front>>
\* activate deletes every cache but its own, later ones included.
Activated(v) ==
  /\ v \in worker.deletes
  /\ worker' = [worker EXCEPT !.deletes = @ \ {v}]
  /\ caches' = [c \in Versions |-> IF c = v THEN caches[c] ELSE Gone]
  /\ late' = [late EXCEPT !.made = IF v = worker.active THEN {} ELSE @]
  /\ UNCHANGED <<site, fetches, newest, notes, front>>

-----------------------------------------------------------------------------
(* fetch *)

\* A page asks for the asset; the worker asks the network, whatever its cache answers.
Fetched(f) ==
  /\ worker.active # 0 /\ fetches[f].at = "none"
  /\ fetches' = [fetches EXCEPT ![f] = [at |-> "asked", by |-> worker.active, read |-> 0]]
  /\ UNCHANGED <<site, worker, caches, newest, late, notes, front>>

FetchServed(f) ==
  /\ fetches[f].at = "asked"
  /\ fetches' = [fetches EXCEPT ![f].at = "served", ![f].read = site]
  /\ newest' = [newest EXCEPT ![fetches[f].by] = IF @ > site THEN @ ELSE site]
  /\ UNCHANGED <<site, worker, caches, late, notes, front>>

\* Mutant of Stored: the answer is given to the page and not stored.
NotStored(f) ==
  /\ fetches[f].at = "served"
  /\ fetches' = [fetches EXCEPT ![f] = [at |-> "none", by |-> 0, read |-> 0]]
  /\ UNCHANGED <<site, worker, caches, newest, late, notes, front>>
\* The answer is stored in the cache of the worker that asked, which is made again if it
\* is gone, and over a newer answer stored before.
Stored(f) ==
  LET by == fetches[f].by  read == fetches[f].read IN
  /\ fetches[f].at = "served"
  /\ fetches' = [fetches EXCEPT ![f] = [at |-> "none", by |-> 0, read |-> 0]]
  /\ caches' = [caches EXCEPT ![by] = Held(read)]
  /\ late' = [made |-> IF caches[by] = Gone THEN late.made \cup {by} ELSE late.made,
              older |-> IF read < newest[by] THEN late.older \cup {by} ELSE late.older \ {by}]
  /\ UNCHANGED <<site, worker, newest, notes, front>>

FetchFailed(f) ==
  /\ fetches[f].at = "asked"
  /\ fetches' = [fetches EXCEPT ![f].at = "none", ![f].by = 0]
  /\ UNCHANGED <<site, worker, caches, newest, late, notes, front>>

-----------------------------------------------------------------------------
(* push, message and notificationclick *)

\* Looking for a page in front takes a while.
Pushed(c) ==
  /\ notes[c].push = "none"
  /\ notes' = [notes EXCEPT ![c].push = "looking", ![c].raced = @ \/ notes[c].told]
  /\ UNCHANGED <<site, worker, caches, fetches, newest, late, front>>

\* Silent when the assistant's page is visible.
Shown(c) ==
  /\ notes[c].push = "looking"
  /\ notes' = [notes EXCEPT ![c].push = "over", ![c].shown = IF front THEN "silent" ELSE "ringing"]
  /\ UNCHANGED <<site, worker, caches, fetches, newest, late, front>>

\* Mutant of CallTerminal: the notification stays.
NotClosed(c) ==
  /\ ~notes[c].told
  /\ notes' = [notes EXCEPT ![c].told = TRUE, ![c].raced = @ \/ notes[c].push = "looking"]
  /\ UNCHANGED <<site, worker, caches, fetches, newest, late, front>>
\* call-terminal: the page says that the call is over; a notification not shown yet is
\* not known.
CallTerminal(c) ==
  /\ ~notes[c].told
  /\ notes' = [notes EXCEPT ![c].told = TRUE, ![c].shown = "none", ![c].raced = @ \/ notes[c].push = "looking"]
  /\ UNCHANGED <<site, worker, caches, fetches, newest, late, front>>

\* The click closes it, asks where the call stands, and brings a page to the front.
Clicked(c) ==
  /\ notes[c].shown # "none"
  /\ notes' = [notes EXCEPT ![c].shown = "none"]
  /\ front' = TRUE
  /\ UNCHANGED <<site, worker, caches, fetches, newest, late>>

FrontChanges ==
  /\ front' = ~front
  /\ UNCHANGED <<site, worker, caches, fetches, newest, late, notes>>

Next ==
  \/ Deployed \/ FrontChanges \/ \E ok \in BOOLEAN : Installed(ok)
  \/ \E v \in Versions : Activated(v)
  \/ \E f \in Fetches : Fetched(f) \/ FetchServed(f) \/ Stored(f) \/ FetchFailed(f)
  \/ \E c \in Calls : Pushed(c) \/ Shown(c) \/ CallTerminal(c) \/ Clicked(c)

Spec == Init /\ [][Next]_vars

-----------------------------------------------------------------------------
TypeOK ==
  /\ site \in Versions
  /\ worker \in [active : 0 .. MaxVersions, installing : 0 .. MaxVersions, deletes : SUBSET Versions]
  /\ caches \in [Versions -> 0 .. MaxVersions + 1]
  /\ fetches \in [Fetches -> [at : {"none", "asked", "served"}, by : 0 .. MaxVersions, read : 0 .. MaxVersions]]
  /\ newest \in [Versions -> 0 .. MaxVersions]
  /\ late.made \subseteq Versions /\ late.older \subseteq Versions
  /\ notes \in [Calls -> [push : {"none", "looking", "over"}, shown : {"none", "silent", "ringing"},
                          told : BOOLEAN, raced : BOOLEAN]]
  /\ front \in BOOLEAN

\* When nothing is under way: the active worker's cache holds the newest answer it had,
\* but for an older one stored after it; no cache of another version is left, but one an
\* answer that came late made again; and no notification of a call that is over, but one
\* whose push was still on its way.
WorkerSettled ==
  /\ (\A f \in Fetches : fetches[f].at = "none") /\ worker.active \notin {0} \cup late.older /\ newest[worker.active] # 0 =>
       caches[worker.active] \in {Held(newest[worker.active]), Gone}
  /\ worker.deletes = {} => \A v \in Versions \ {worker.active} : caches[v] # Gone => v \in late.made
  /\ \A c \in Calls : notes[c].told /\ notes[c].shown # "none" => notes[c].raced
=============================================================================
