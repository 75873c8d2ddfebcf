----------------------------- MODULE AssistantChat -----------------------------
(***************************************************************************)
(* The assistant's conversation (assistant.js): the pages of its history,    *)
(* loaded one at a time, the questions, and the recorder of a spoken one.    *)
(* Messages are numbered in their order at the server; what a question adds  *)
(* is one message.                                                           *)
(***************************************************************************)
EXTENDS Naturals, FiniteSets

CONSTANTS AI_HISTORY_LIMIT,
          MaxMessages, MaxAsks, MaxRecords  \* bounds
ChatAssumption == AI_HISTORY_LIMIT \in Nat \ {0} /\ MaxMessages \in Nat /\ MaxAsks \in Nat /\ MaxRecords \in Nat

VARIABLES
  server,   \* external: how many messages there are
  page,     \* the messages shown, aiHistoryPage, aiHistoryLoaded, the echoes of questions
  op,       \* aiHistoryPromise, and what it has read
  asks,     \* the questions under way
  audio,    \* aiAudio
  recorder, \* state.recorder, or 0
  recs      \* the recordings

vars == <<server, page, op, asks, audio, recorder, recs>>
Asks == 1 .. MaxAsks
Recs == 1 .. MaxRecords
NoOp == [kind |-> "none", cursor |-> 0, msgs |-> {}, served |-> FALSE]
NoAsk == [at |-> "none", audio |-> 0]
NoRec == [at |-> "none", cancelled |-> FALSE, alone |-> TRUE]

Init ==
  /\ server \in 0 .. MaxMessages
  /\ page = [msgs |-> {}, cursor |-> 0, more |-> FALSE, loaded |-> FALSE, echo |-> 0]
  /\ op = NoOp /\ asks = [a \in Asks |-> NoAsk] /\ audio = 0
  /\ recorder = 0 /\ recs = [r \in Recs |-> NoRec]

-----------------------------------------------------------------------------
(* loadAiHistory and loadEarlierAiHistory: one promise for both *)

\* External: the last messages, or the last before the cursor.
Window(before) == {m \in 1 .. (before - 1) : m + AI_HISTORY_LIMIT >= before}
CursorOf(msgs) == IF msgs = {} \/ 1 \in msgs THEN 0 ELSE CHOOSE m \in msgs : \A n \in msgs : m <= n

LoadOp == IF op = NoOp THEN [NoOp EXCEPT !.kind = "last"] ELSE op

\* ensureAiHistoryLoaded, when the mode is shown.
Shown ==
  /\ ~page.loaded
  /\ op' = LoadOp
  /\ UNCHANGED <<server, page, asks, audio, recorder, recs>>

EarlierClicked ==
  /\ op = NoOp /\ page.more /\ page.cursor # 0
  /\ op' = [NoOp EXCEPT !.kind = "earlier", !.cursor = page.cursor]
  /\ UNCHANGED <<server, page, asks, audio, recorder, recs>>

OpServed ==
  /\ op # NoOp /\ ~op.served
  /\ op' = [op EXCEPT !.served = TRUE, !.msgs = Window(IF op.kind = "last" THEN server + 1 ELSE op.cursor)]
  /\ UNCHANGED <<server, page, asks, audio, recorder, recs>>

Paged(p, msgs) == [p EXCEPT !.cursor = CursorOf(msgs), !.more = CursorOf(msgs) # 0]
\* Mutant of LastShown: the cursor of the earlier messages stays.
LastShownCursorKept(msgs) == [page EXCEPT !.msgs = msgs, !.echo = 0, !.loaded = TRUE, !.more = @ \/ CursorOf(msgs) # 0,
                                          !.cursor = IF @ = 0 THEN CursorOf(msgs) ELSE @]
\* renderAiMessages replaces what is shown, the echoes too.
LastShown(msgs) == Paged([page EXCEPT !.msgs = msgs, !.echo = 0, !.loaded = TRUE], msgs)

\* What waited for the operation goes on with it.
Joined == [a \in Asks |-> IF asks[a].at = "reload" THEN NoAsk ELSE asks[a]]
ReloadsOver == audio' = IF \E a \in Asks : asks[a].at = "reload" THEN 0 ELSE audio

OpReplied ==
  /\ op.served
  /\ page' = IF op.kind = "last" THEN LastShown(op.msgs)
             ELSE IF page.cursor # op.cursor THEN page
             ELSE Paged([page EXCEPT !.msgs = @ \cup op.msgs], op.msgs)
  /\ op' = NoOp /\ asks' = Joined /\ ReloadsOver
  /\ UNCHANGED <<server, recorder, recs>>

OpFailed ==
  /\ op # NoOp
  /\ page' = IF op.kind = "last" THEN [page EXCEPT !.loaded = FALSE] ELSE page
  /\ op' = NoOp /\ asks' = Joined /\ ReloadsOver
  /\ UNCHANGED <<server, recorder, recs>>

-----------------------------------------------------------------------------
(* submitAi *)

\* Enter submits again while a question is under way: only its button is disabled.
Submit(a) ==
  /\ asks[a] = NoAsk /\ \A b \in 1 .. (a - 1) : asks[b] # NoAsk
  /\ asks' = [asks EXCEPT ![a] = [at |-> "asked", audio |-> audio]]
  /\ page' = [page EXCEPT !.echo = IF @ < MaxAsks THEN @ + 1 ELSE @]
  /\ UNCHANGED <<server, op, audio, recorder, recs>>

Answered(a) ==
  /\ asks[a].at = "asked" /\ server < MaxMessages
  /\ server' = server + 1
  /\ asks' = [asks EXCEPT ![a].at = "served"]
  /\ UNCHANGED <<page, op, audio, recorder, recs>>

\* The history is loaded again, or the load under way awaited, that of the earlier
\* messages as well; the form is cleared after it.
AskReplied(a) ==
  /\ asks[a].at = "served"
  /\ asks' = [asks EXCEPT ![a].at = "reload"]
  /\ op' = LoadOp
  /\ UNCHANGED <<server, page, audio, recorder, recs>>

\* A reply without the messages kept: its answer is appended as it came, and the form cleared.
AnswerAppended(a) ==
  /\ asks[a].at = "served"
  /\ page' = [page EXCEPT !.echo = IF @ < MaxAsks THEN @ + 1 ELSE @]
  /\ asks' = [asks EXCEPT ![a] = NoAsk]
  /\ audio' = 0
  /\ UNCHANGED <<server, op, recorder, recs>>

AskFailed(a) ==
  /\ asks[a].at \in {"asked", "served"}
  /\ asks' = [asks EXCEPT ![a] = NoAsk]  \* nothing is cleared
  /\ op' = LoadOp
  /\ UNCHANGED <<server, page, audio, recorder, recs>>

-----------------------------------------------------------------------------
(* toggleAudioRecording and stopRecorder *)

Cancel(r) == [recs EXCEPT ![r].cancelled = TRUE]

\* The recording is stopped; or one that is stopping is cancelled and another asked
\* for, the permission of which is awaited.
RecordClicked ==
  /\ IF recorder # 0 /\ recs[recorder].at = "recording"
     THEN recs' = [recs EXCEPT ![recorder].at = "stopping"] /\ UNCHANGED recorder
     ELSE \E r \in Recs :
            /\ recs[r] = NoRec /\ \A q \in 1 .. (r - 1) : recs[q] # NoRec
            /\ LET rest == IF recorder = 0 THEN recs ELSE [Cancel(recorder) EXCEPT ![recorder].at = "closing"]
                   asked == {q \in Recs : recs[q].at = "asked"} IN
               recs' = [q \in Recs |-> IF q = r THEN [NoRec EXCEPT !.at = "asked", !.alone = asked = {}]
                                       ELSE IF q \in asked THEN [rest[q] EXCEPT !.alone = FALSE] ELSE rest[q]]
            /\ recorder' = 0
  /\ UNCHANGED <<server, page, op, asks, audio>>

Permitted(r) ==
  /\ recs[r].at = "asked"
  /\ recs' = [recs EXCEPT ![r].at = "recording"]
  /\ recorder' = r
  /\ UNCHANGED <<server, page, op, asks, audio>>

Denied(r) ==
  /\ recs[r].at = "asked"
  /\ recs' = [recs EXCEPT ![r].at = "over"]
  /\ UNCHANGED <<server, page, op, asks, audio, recorder>>

\* The stop event: the stream is freed, and what was not cancelled is the form's.
Stopped(r) ==
  /\ recs[r].at \in {"stopping", "closing"}
  /\ recs' = [recs EXCEPT ![r].at = "over"]
  /\ recorder' = IF recorder = r THEN 0 ELSE recorder
  /\ audio' = IF recs[r].cancelled THEN audio ELSE r
  /\ UNCHANGED <<server, page, op, asks>>

RecorderError(r) ==
  /\ recs[r].at \in {"recording", "stopping"}
  /\ recs' = [Cancel(r) EXCEPT ![r].at = "over"]
  /\ recorder' = IF recorder = r THEN 0 ELSE recorder
  /\ UNCHANGED <<server, page, op, asks, audio>>

FileChosen ==
  /\ audio' = 0
  /\ UNCHANGED <<server, page, op, asks, recorder, recs>>

\* stopRecorder(true), when the page is hidden.
PageHide ==
  /\ recorder # 0
  /\ recs' = [Cancel(recorder) EXCEPT ![recorder].at = IF @ = "recording" THEN "stopping" ELSE "closing"]
  /\ recorder' = IF recs[recorder].at = "recording" THEN recorder ELSE 0
  /\ UNCHANGED <<server, page, op, asks, audio>>

Next ==
  \/ Shown \/ EarlierClicked \/ OpServed \/ OpReplied \/ OpFailed
  \/ RecordClicked \/ FileChosen \/ PageHide
  \/ \E a \in Asks : Submit(a) \/ Answered(a) \/ AskReplied(a) \/ AnswerAppended(a) \/ AskFailed(a)
  \/ \E r \in Recs : Permitted(r) \/ Denied(r) \/ Stopped(r) \/ RecorderError(r)

Spec == Init /\ [][Next]_vars

-----------------------------------------------------------------------------
Messages == 1 .. MaxMessages
TypeOK ==
  /\ server \in 0 .. MaxMessages
  /\ page \in [msgs : SUBSET Messages, cursor : 0 .. MaxMessages, more : BOOLEAN, loaded : BOOLEAN, echo : 0 .. MaxAsks]
  /\ op \in [kind : {"none", "last", "earlier"}, cursor : 0 .. MaxMessages, msgs : SUBSET Messages, served : BOOLEAN]
  /\ asks \in [Asks -> [at : {"none", "asked", "served", "reload"}, audio : 0 .. MaxRecords]]
  /\ audio \in 0 .. MaxRecords /\ recorder \in 0 .. MaxRecords
  /\ recs \in [Recs -> [at : {"none", "asked", "recording", "stopping", "closing", "over"}, cancelled : BOOLEAN, alone : BOOLEAN]]

\* No message between two that are shown is missing, and the earlier ones are asked
\* from the first that is shown, whatever loads and answers overlap.
NoHole ==
  /\ \A m, n \in page.msgs : m .. n \subseteq page.msgs
  /\ page.more => page.cursor \in page.msgs /\ \A m \in page.msgs : page.cursor <= m

\* A recording that was cancelled is not attached to a question, and what still
\* records is the page's recorder - but for recordings whose permissions were awaited
\* together, the first of which is no longer reachable.
RecorderAccounted ==
  /\ audio # 0 => ~recs[audio].cancelled
  /\ \A r \in Recs : recs[r].at = "recording" /\ recs[r].alone => recorder = r
=============================================================================
