---------------------------- MODULE SecurityConsole ----------------------------
(***************************************************************************)
(* The live console of security events (security.js): polls for the events   *)
(* after a cursor and those changed since the server's time of the last      *)
(* answer, its rows replaced by what an answer holds.  Coming back to the    *)
(* page polls at once, whether or not a poll is under way.  The server, which *)
(* the repository does not hold, is external: it renders rows of its choice,  *)
(* and answers with what is asked for, as far as the asked limit goes.        *)
(***************************************************************************)
EXTENDS Naturals, FiniteSets

CONSTANTS Events,      \* the events' numbers
          MaxChanges,  \* bounds on the changes at the server
          MaxPolls,    \* and on the polls under way
          MaxRows,     \* the table's rows (200)
          MaxAnswer    \* the limit of an answer (100)
ConsoleAssumption ==
  /\ Events \subseteq Nat \ {0} /\ IsFiniteSet(Events)
  /\ MaxChanges \in Nat /\ MaxPolls \in Nat /\ MaxRows \in Nat /\ MaxAnswer \in Nat

VARIABLES
  log,    \* external: the events in the order they were recorded or recorded again
  rows,   \* per event, the change its row shows (0: no row)
  known,  \* cursor and since, the latter as a number of changes
  polls,  \* the polls under way: what was asked, what was read
  page,   \* document.hidden, the timer, stopped, filtered, and the changes there were when it was rendered
  excused \* an answer older than what a poll under way asks from was shown, one was cut at its limit,
          \* or the page's own clock was taken for the server's

vars == <<log, rows, known, polls, page, excused>>
Polls == 1 .. MaxPolls
Times == 0 .. MaxChanges
NoPoll == [at |-> "none", cursor |-> 0, since |-> 0, time |-> 0]

Now == Cardinality({t \in 1 .. MaxChanges : log[t] # 0})
Newest(set) == IF set = {} THEN 0 ELSE CHOOSE x \in set : \A y \in set : y <= x
\* The last change of an event up to a time.
Last(e, time) == Newest({t \in 1 .. time : log[t] = e})

Shown == {e \in Events : rows[e] # 0}

\* The page is rendered with rows of events there are, and with the server's time or without.
Init ==
  /\ \E n \in Times, l \in [1 .. MaxChanges -> Events], with \in SUBSET Events, filtered \in BOOLEAN, since \in Times :
       /\ log = [t \in 1 .. MaxChanges |-> IF t <= n THEN l[t] ELSE 0]
       /\ rows = [e \in Events |-> IF e \in with THEN Newest({t \in 1 .. n : l[t] = e}) ELSE 0]
       /\ known = [cursor |-> Newest({l[t] : t \in 1 .. n}), since |-> since]
       /\ page = [hidden |-> FALSE, timer |-> TRUE, stopped |-> FALSE, filtered |-> filtered, from |-> n]
       /\ excused = (since # n)
  /\ polls = [p \in Polls |-> NoPoll]

\* External: an event is recorded, or one more of its kind.
Recorded ==
  /\ Now < MaxChanges
  /\ \E e \in Events : log' = [log EXCEPT ![Now + 1] = e]
  /\ UNCHANGED <<rows, known, polls, page, excused>>

\* poll: paused while hidden, the timer armed again.
PollDue(p) ==
  /\ page.timer /\ ~page.stopped /\ ~page.hidden
  /\ polls[p] = NoPoll
  /\ polls' = [polls EXCEPT ![p] = [at |-> "asked", cursor |-> known.cursor, since |-> known.since, time |-> 0]]
  /\ page' = [page EXCEPT !.timer = FALSE]
  /\ UNCHANGED <<log, rows, known, excused>>

PollServed(p) ==
  /\ polls[p].at = "asked"
  /\ polls' = [polls EXCEPT ![p].at = "served", ![p].time = Now]
  /\ UNCHANGED <<log, rows, known, page, excused>>

\* The events an answer holds, as they were when it was read.
Held(poll) == {e \in Events : Last(e, poll.time) > (IF e > poll.cursor THEN 0 ELSE poll.since)}

\* Mutant of Since: a late answer does not take the time back.
SinceNeverBack(time) == IF time > known.since THEN time ELSE known.since
\* The time of the answer, even one overtaken by a later poll's.
Since(time) == time

\* upsertEvent for each of them: a new row on top, and no more than MaxRows; what the order of the
\* rows says of those cut is only that a new one goes after all that were not in the answer.
Tables(held) ==
  LET all == Shown \cup held IN
  IF held = {} \/ Cardinality(all) <= MaxRows THEN {all}
  ELSE {kept \in SUBSET all : Cardinality(kept) = MaxRows /\ \A e \in held \ (Shown \cup kept) : kept \subseteq held}

\* The events of an answer, as many as the limit allows.
Answers(poll) ==
  IF Cardinality(Held(poll)) <= MaxAnswer THEN {Held(poll)}
  ELSE {some \in SUBSET Held(poll) : Cardinality(some) = MaxAnswer}

\* The rows of a filtered page stay; the cursor only grows; the time may be missing.
PollReplied(p) ==
  LET poll == polls[p] IN
  /\ poll.at = "served"
  /\ \E held \in Answers(poll), time \in Times :
       /\ IF page.filtered THEN rows' = rows
          ELSE \E kept \in Tables(held) :
                 rows' = [e \in Events |-> IF e \notin kept THEN 0 ELSE IF e \in held THEN Last(e, poll.time) ELSE rows[e]]
       /\ known' = [cursor |-> Newest({known.cursor} \cup held), since |-> Since(time)]
       /\ excused' = \/ excused \/ held # Held(poll) \/ time # poll.time
                      \/ \E q \in Polls : polls[q].at # "none" /\ polls[q].since > poll.time
  /\ polls' = [polls EXCEPT ![p] = NoPoll]
  /\ page' = [page EXCEPT !.timer = ~page.stopped]
  /\ UNCHANGED log

PollFailed(p) ==
  /\ polls[p].at # "none"
  /\ polls' = [polls EXCEPT ![p] = NoPoll]
  /\ page' = [page EXCEPT !.timer = ~page.stopped]
  /\ UNCHANGED <<log, rows, known, excused>>

\* visibilitychange.
Hidden == ~page.hidden /\ page' = [page EXCEPT !.hidden = TRUE] /\ UNCHANGED <<log, rows, known, polls, excused>>
Visible ==
  /\ page.hidden
  /\ page' = [page EXCEPT !.hidden = FALSE, !.timer = ~page.stopped]
  /\ UNCHANGED <<log, rows, known, polls, excused>>

\* beforeunload, also of a leaving the user then cancels.
Unloading ==
  /\ page' = [page EXCEPT !.stopped = TRUE, !.timer = FALSE]
  /\ UNCHANGED <<log, rows, known, polls, excused>>

Next ==
  \/ Recorded \/ Hidden \/ Visible \/ Unloading
  \/ \E p \in Polls : PollDue(p) \/ PollServed(p) \/ PollReplied(p) \/ PollFailed(p)

Spec == Init /\ [][Next]_vars

-----------------------------------------------------------------------------
TypeOK ==
  /\ log \in [1 .. MaxChanges -> Events \cup {0}]
  /\ rows \in [Events -> Times]
  /\ known.since \in Times /\ known.cursor \in Events \cup {0}
  /\ polls \in [Polls -> [at : {"none", "asked", "served"}, cursor : Events \cup {0}, since : Times, time : Times]]
  /\ page \in [hidden : BOOLEAN, timer : BOOLEAN, stopped : BOOLEAN, filtered : BOOLEAN, from : Times]
  /\ excused \in BOOLEAN

\* On a page without a filter every event that changed since the page was rendered has a row, as new
\* as the time the next poll asks from, or the table is full; although answers come out of order and
\* take rows back.  Three cases are excused: an answer shown while a poll was under way that asks from
\* a later time, an answer cut at its limit, and the page's clock taken for the server's.  (A filtered
\* page shows nothing that is new while its cursor and its time go on.)  And until the page is left a
\* poll is under way or due.
ConsoleFollows ==
  /\ ~page.filtered /\ ~excused =>
       \A e \in Events : \/ rows[e] >= Last(e, known.since)
                         \/ rows[e] = 0 /\ (Last(e, known.since) <= page.from \/ Cardinality(Shown) >= MaxRows)
  /\ ~page.stopped => page.timer \/ \E p \in Polls : polls[p] # NoPoll
=============================================================================
