--------------------------- MODULE MessagingSend ---------------------------
(***************************************************************************)
(* Sending from the messaging page (sendConversationMessage of             *)
(* assistant.js, the reply bar of messaging_core_v2.js): the text typed,   *)
(* the client id a message keeps while it is sent again, the service that  *)
(* stores a message once for each client id, and what a late reply does to *)
(* what was typed since.  A text is a number, with its attachment.         *)
(***************************************************************************)
EXTENDS Naturals, Sequences, FiniteSets

CONSTANTS
  Convs, None,
  MaxDrafts,     \* bound on the texts typed
  MaxKeys,       \* bound on the client ids made
  MaxFlights     \* bound on the requests under way

SendAssumption ==
  /\ None \notin Convs
  /\ {MaxDrafts, MaxKeys, MaxFlights} \subseteq Nat \ {0}

VARIABLES
  stored,    \* external: the messages of this page stored, [conv, draft, key]
  composer,  \* the page's state
  sends      \* requests under way

vars == <<stored, composer, sends>>
Drafts == 0 .. MaxDrafts
Keys == 0 .. MaxKeys
NoPending == [conv |-> None, draft |-> 0, reply |-> FALSE, key |-> 0]

\* conversation; the text; whether it replies to a message; pendingMessage.
\* History: texts typed, client ids made, the texts of each conversation whose
\* pendingMessage was replaced before it was settled.
Init ==
  /\ stored = {} /\ sends = {}
  /\ composer = [conv |-> None, input |-> 0, reply |-> FALSE, pending |-> NoPending,
                 drafts |-> 0, keys |-> 0, replaced |-> {}]

-----------------------------------------------------------------------------
\* selectConversation: the "conversation" event clears the reply, the text stays.
SelectConversation(c) ==
  /\ c # composer.conv
  /\ composer' = [composer EXCEPT !.conv = c, !.reply = FALSE]
  /\ UNCHANGED <<stored, sends>>

Type ==
  /\ composer.drafts < MaxDrafts
  /\ composer' = [composer EXCEPT !.input = composer.drafts + 1, !.drafts = @ + 1]
  /\ UNCHANGED <<stored, sends>>

SetReply ==
  /\ composer.conv # None /\ ~composer.reply
  /\ composer' = [composer EXCEPT !.reply = TRUE]
  /\ UNCHANGED <<stored, sends>>

\* Cancelled, or its message deleted.
ClearReply ==
  /\ composer.reply
  /\ composer' = [composer EXCEPT !.reply = FALSE]
  /\ UNCHANGED <<stored, sends>>

\* sendConversationMessage: the same message keeps its client id.  Enter submits
\* although the button is disabled, so that a message may be sent twice at once.
SendConversationMessage ==
  LET p == composer.pending
      same == p.conv = composer.conv /\ p.draft = composer.input /\ p.reply = composer.reply
      key == IF same THEN p.key ELSE composer.keys + 1
  IN
  /\ composer.conv # None /\ composer.input # 0 /\ Cardinality(sends) < MaxFlights /\ key <= MaxKeys
  /\ composer' = [composer EXCEPT
       !.pending = [conv |-> composer.conv, draft |-> composer.input,
                    reply |-> composer.reply, key |-> key],
       !.keys = IF same THEN @ ELSE key,
       !.replaced = IF same \/ p.conv = None THEN @ ELSE @ \cup {<<p.conv, p.draft>>}]
  /\ \E n \in 1 .. MaxFlights :
       /\ \A f \in sends : f.n # n
       /\ sends' = sends \cup {[n |-> n, conv |-> composer.conv, draft |-> composer.input,
                                key |-> key, stored |-> FALSE]}
  /\ stored' = stored

\* External: the service stores a message once for each client id.
MessageStored(f) ==
  /\ f \in sends /\ ~f.stored
  /\ stored' = IF \E m \in stored : m.key = f.key THEN stored
               ELSE stored \cup {[conv |-> f.conv, draft |-> f.draft, key |-> f.key]}
  /\ sends' = (sends \ {f}) \cup {[f EXCEPT !.stored = TRUE]}
  /\ composer' = composer

\* The reply clears what the form holds now; the thread is loaded again.
SendReplied(f) ==
  /\ f \in sends /\ f.stored
  /\ composer' = [composer EXCEPT !.pending = NoPending, !.input = 0, !.reply = FALSE]
  /\ sends' = sends \ {f}
  /\ stored' = stored

\* Mutant: a failure forgets the message it was sending.
SendFailed_Forgets(f) ==
  /\ f \in sends
  /\ sends' = sends \ {f}
  /\ composer' = [composer EXCEPT !.pending = NoPending]
  /\ stored' = stored

\* The request or its reply is lost, or refused.
SendFailed(f) ==
  /\ f \in sends
  /\ sends' = sends \ {f}
  /\ UNCHANGED <<stored, composer>>

-----------------------------------------------------------------------------
Next ==
  \/ \E c \in Convs : SelectConversation(c)
  \/ Type \/ SetReply \/ ClearReply \/ SendConversationMessage
  \/ \E f \in sends : MessageStored(f) \/ SendReplied(f) \/ SendFailed(f)

Spec == Init /\ [][Next]_vars

-----------------------------------------------------------------------------
TypeOK ==
  /\ stored \subseteq [conv : Convs, draft : Drafts, key : Keys]
  /\ sends \subseteq [n : 1 .. MaxFlights, conv : Convs, draft : Drafts, key : Keys, stored : BOOLEAN]
  /\ composer \in [conv : Convs \cup {None}, input : Drafts, reply : BOOLEAN,
                   pending : [conv : Convs \cup {None}, draft : Drafts, reply : BOOLEAN, key : Keys],
                   drafts : Drafts, keys : Keys, replaced : SUBSET (Convs \X Drafts)]

\* A text sent again after a failure, or submitted twice at once, is stored once
\* in its conversation - unless another message was submitted in between, which
\* takes the client id of the first from the page.
SentOnce ==
  \A m, o \in stored :
    (/\ m.conv = o.conv /\ m.draft = o.draft
     /\ <<m.conv, m.draft>> \notin composer.replaced) => m = o
=============================================================================
