---------------------------- MODULE MCPagesProofs ----------------------------
(***************************************************************************)
(* What the parts of the pages keep, for any conversations, calls, devices, *)
(* messages and any number of attempts, loads and recordings.  A part has   *)
(* its inductive invariant (its type and what the replies, timers and       *)
(* permissions under way may still do), the lemma that its initial states   *)
(* establish it and the lemma that its steps keep it.  The page runs one    *)
(* part, so the union keeps "the part that runs has its invariant", and     *)
(* the theorems, about MCPages's own properties, read them off.             *)
(* Here: the messages sent, the friend scanner, the assistant's calls with  *)
(* the presence its heartbeats tell, the contacts, the alerts, the service  *)
(* worker, the mailbox lock and the console of security events.             *)
(* MCRecordersProofs has the other parts that hold a microphone or a        *)
(* camera and the histories; MCGroupProofs those of the group pages, the    *)
(* panel of their translations among them, and the theorems about the       *)
(* pages as a whole.                                                        *)
(***************************************************************************)
EXTENDS MCPages, WellFoundedInduction, FiniteSetTheorems, TLAPS

-----------------------------------------------------------------------------
(* The messages that are sent. *)

USE DEF Send!Drafts, Send!Keys

\* A request or a stored message of conversation c carries text d under client id k.
Used(c, d, k) ==
  \/ \E m \in v1 : m.conv = c /\ m.draft = d /\ m.key = k
  \/ \E f \in v3 : f.conv = c /\ f.draft = d /\ f.key = k

\* Texts are numbered as they are typed, from 1.
SendTyped ==
  /\ v2.input <= v2.drafts
  /\ \A c \in Convs, d \in Send!Drafts, k \in Send!Keys : Used(c, d, k) => d # 0 /\ d <= v2.drafts

\* The client id of a text still to be sent again is the pending one.
TextsKept ==
  \A c \in Convs, d \in Send!Drafts, k \in Send!Keys :
    Used(c, d, k) /\ <<c, d>> \notin v2.replaced =>
      \/ v2.pending.conv = c /\ v2.pending.draft = d /\ v2.pending.key = k
      \/ v2.input # d

OneKey ==
  \A c \in Convs, d \in Send!Drafts, k \in Send!Keys, l \in Send!Keys :
    Used(c, d, k) /\ Used(c, d, l) /\ <<c, d>> \notin v2.replaced => k = l

SendInv == Send!TypeOK /\ SendTyped /\ TextsKept /\ OneKey

Pendings == [conv : Convs \cup {None}, draft : Send!Drafts, reply : BOOLEAN, key : Send!Keys]
Composers ==
  [conv : Convs \cup {None}, input : Send!Drafts, reply : BOOLEAN, pending : Pendings,
   drafts : Send!Drafts, keys : Send!Keys, replaced : SUBSET (Convs \X Send!Drafts)]
Requests == [n : 1 .. SendFlights, conv : Convs, draft : Send!Drafts, key : Send!Keys, stored : BOOLEAN]

LEMMA SendTypes ==
  Send!TypeOK <=> /\ v1 \subseteq [conv : Convs, draft : Send!Drafts, key : Send!Keys]
             /\ v3 \subseteq Requests /\ v2 \in Composers
  BY DEF Send!TypeOK, Requests, Composers, Pendings

\* What a reply leaves in the form.
LEMMA ClearedForm ==
    ASSUME NEW c \in Composers, SendDrafts \in Nat, NEW p \in Pendings
    PROVE  [c EXCEPT !.pending = p, !.input = 0, !.reply = FALSE] \in Composers
  <1>1. 0 \in Send!Drafts
    OBVIOUS
  <1> HIDE DEF Send!Drafts
  <1>2. [c EXCEPT !.input = 0, !.reply = FALSE] \in Composers
    BY <1>1 DEF Composers
  <1> QED BY <1>1, <1>2 DEF Composers

-----------------------------------------------------------------------------
\* A step after which nothing more is used, the texts typed and replaced are as many or
\* more, and the input is a new text, none, or what it was with its pending message.
LEMMA NothingUsedKeeps ==
    ASSUME Send!SendAssumption, SendInv, Send!TypeOK',
           \A c \in Convs, d \in Send!Drafts, k \in Send!Keys : Used(c, d, k)' => Used(c, d, k),
           v2'.replaced = v2.replaced,
           v2'.drafts >= v2.drafts,
           \/ v2'.input = v2.input /\ v2'.pending = v2.pending
           \/ v2'.input = 0
           \/ v2'.input = v2.drafts + 1 /\ v2'.drafts = v2.drafts + 1
    PROVE  SendInv'
  <1> USE DEF Send!SendAssumption
  <1>0. /\ v2.input \in Nat /\ v2.drafts \in Nat
        /\ v2'.input \in Nat /\ v2'.drafts \in Nat
    BY DEF SendInv, Send!TypeOK
  <1>1. SendTyped'
    BY <1>0 DEF SendInv, SendTyped
  <1>2. TextsKept'
    BY <1>0 DEF SendInv, SendTyped, TextsKept
  <1>3. OneKey'
    BY DEF SendInv, OneKey
  <1> QED BY <1>1, <1>2, <1>3 DEF SendInv

\* A step of the form's own keeps what is used.
LEMMA SameUses ==
    ASSUME UNCHANGED <<v1, v3>>, NEW c, NEW d, NEW k PROVE Used(c, d, k)' = Used(c, d, k)
  BY DEF Used

LEMMA SendKeeps == ASSUME Send!SendAssumption, SendInv, Send!SendConversationMessage PROVE SendInv'
  <1> USE DEF Send!SendAssumption
  <1> DEFINE p == v2.pending
             same == p.conv = v2.conv /\ p.draft = v2.input /\ p.reply = v2.reply
             key == IF same THEN p.key ELSE v2.keys + 1
  <1>1. /\ v2.conv \in Convs /\ v2.input \in Send!Drafts /\ v2.input # 0
        /\ v2.keys \in Send!Keys /\ p.key \in Send!Keys /\ v2.drafts \in Send!Drafts
        /\ p \in [conv : Convs \cup {None}, draft : Send!Drafts, reply : BOOLEAN, key : Send!Keys]
    BY DEF SendInv, Send!TypeOK, Send!SendConversationMessage
  <1>2. key \in Send!Keys
    BY <1>1 DEF Send!SendConversationMessage
  <1>3. PICK n \in 1 .. SendFlights :
          v3' = v3 \cup {[n |-> n, conv |-> v2.conv, draft |-> v2.input,
                                key |-> key, stored |-> FALSE]}
    BY DEF Send!SendConversationMessage
  <1>4. v1' = v1
    BY DEF Send!SendConversationMessage
  <1>5. v2' = [v2 EXCEPT
       !.pending = [conv |-> v2.conv, draft |-> v2.input,
                    reply |-> v2.reply, key |-> key],
       !.keys = IF same THEN @ ELSE key,
       !.replaced = IF same \/ p.conv = None THEN @ ELSE @ \cup {<<p.conv, p.draft>>}]
    BY DEF Send!SendConversationMessage
  <1> HIDE DEF key
  <1>6. Send!TypeOK'
    <2>1. v3' \subseteq [n : 1 .. SendFlights, conv : Convs, draft : Send!Drafts, key : Send!Keys, stored : BOOLEAN]
      <3>1. [n |-> n, conv |-> v2.conv, draft |-> v2.input, key |-> key, stored |-> FALSE]
              \in [n : 1 .. SendFlights, conv : Convs, draft : Send!Drafts, key : Send!Keys, stored : BOOLEAN]
        BY <1>1, <1>2
      <3>2. v3 \subseteq [n : 1 .. SendFlights, conv : Convs, draft : Send!Drafts, key : Send!Keys, stored : BOOLEAN]
        BY DEF SendInv, Send!TypeOK
      <3> QED BY <1>3, <3>1, <3>2
    <2>2. (IF same \/ p.conv = None THEN v2.replaced
           ELSE v2.replaced \cup {<<p.conv, p.draft>>}) \in SUBSET (Convs \X Send!Drafts)
      BY <1>1 DEF SendInv, Send!TypeOK
    <2>3. [conv |-> v2.conv, draft |-> v2.input, reply |-> v2.reply, key |-> key]
            \in [conv : Convs \cup {None}, draft : Send!Drafts, reply : BOOLEAN, key : Send!Keys]
      BY <1>1, <1>2 DEF SendInv, Send!TypeOK
    <2>4. (IF same THEN v2.keys ELSE key) \in Send!Keys
      BY <1>1, <1>2
    <2> HIDE DEF same, p
    <2>5. v2' \in [conv : Convs \cup {None}, input : Send!Drafts, reply : BOOLEAN,
                   pending : [conv : Convs \cup {None}, draft : Send!Drafts, reply : BOOLEAN, key : Send!Keys],
                   drafts : Send!Drafts, keys : Send!Keys, replaced : SUBSET (Convs \X Send!Drafts)]
      BY <1>5, <2>2, <2>3, <2>4 DEF SendInv, Send!TypeOK
    <2> QED BY <1>4, <2>1, <2>5 DEF SendInv, Send!TypeOK
  <1>7. /\ v2'.conv = v2.conv /\ v2'.input = v2.input
        /\ v2'.drafts = v2.drafts
        /\ v2'.pending = [conv |-> v2.conv, draft |-> v2.input,
                                reply |-> v2.reply, key |-> key]
        /\ v2'.replaced = IF same \/ p.conv = None THEN v2.replaced
                                ELSE v2.replaced \cup {<<p.conv, p.draft>>}
    BY <1>5 DEF SendInv, Send!TypeOK
  <1>8. ASSUME NEW c \in Convs, NEW d \in Send!Drafts, NEW k \in Send!Keys, Used(c, d, k)'
        PROVE  Used(c, d, k) \/ (c = v2.conv /\ d = v2.input /\ k = key)
    BY <1>3, <1>4, <1>8 DEF Used
  \* What the new request is about had no other client id, or is replaced now.
  <1>9. ASSUME NEW k \in Send!Keys, Used(v2.conv, v2.input, k),
               <<v2.conv, v2.input>> \notin v2'.replaced
        PROVE  k = key
    <2>1. <<v2.conv, v2.input>> \notin v2.replaced
      BY <1>7, <1>9
    <2>2. p.conv = v2.conv /\ p.draft = v2.input /\ p.key = k
      BY <1>1, <1>9, <2>1 DEF SendInv, TextsKept
    <2>3. same
      BY <1>1, <1>7, <1>9, <2>2
    <2> QED BY <2>2, <2>3 DEF key
  <1>10. SendTyped'
    BY <1>1, <1>7, <1>8 DEF SendInv, SendTyped
  <1>11. TextsKept'
    <2> SUFFICES ASSUME NEW c \in Convs, NEW d \in Send!Drafts, NEW k \in Send!Keys, Used(c, d, k)',
                        <<c, d>> \notin v2'.replaced, v2'.input = d
                 PROVE  /\ v2'.pending.conv = c /\ v2'.pending.draft = d
                        /\ v2'.pending.key = k
      BY DEF TextsKept
    <2>1. CASE c = v2.conv
      BY <1>7, <1>8, <1>9, <2>1
    <2>2. CASE c # v2.conv
      <3>1. Used(c, d, k) /\ <<c, d>> \notin v2.replaced
        BY <1>7, <1>8, <2>2
      <3>2. p.conv = c /\ p.draft = d
        BY <1>7, <3>1 DEF SendInv, TextsKept
      <3>3. ~same /\ p.conv # None
        BY <2>2, <3>2
      <3> QED BY <1>7, <3>2, <3>3
    <2> QED BY <2>1, <2>2
  <1>12. OneKey'
    <2> SUFFICES ASSUME NEW c \in Convs, NEW d \in Send!Drafts, NEW k \in Send!Keys, NEW l \in Send!Keys,
                        Used(c, d, k)', Used(c, d, l)', <<c, d>> \notin v2'.replaced
                 PROVE  k = l
      BY DEF OneKey
    <2>1. <<c, d>> \notin v2.replaced
      BY <1>7
    <2>2. CASE c = v2.conv /\ d = v2.input
      BY <1>8, <1>9, <2>2
    <2>3. CASE ~(c = v2.conv /\ d = v2.input)
      BY <1>8, <2>1, <2>3 DEF SendInv, OneKey
    <2> QED BY <2>2, <2>3
  <1> QED BY <1>6, <1>10, <1>11, <1>12 DEF SendInv

LEMMA OthersKeep ==
    ASSUME Send!SendAssumption, SendInv,
           \/ \E c \in Convs : Send!SelectConversation(c)
           \/ Send!Type \/ Send!SetReply \/ Send!ClearReply
           \/ \E f \in v3 : Send!MessageStored(f) \/ Send!SendReplied(f) \/ Send!SendFailed(f)
    PROVE  SendInv'
  <1> USE DEF Send!SendAssumption
  <1>0. SendDrafts \in Nat /\ SendKeys \in Nat /\ v2 \in Composers /\ v2.drafts \in Nat
    BY SendTypes DEF SendInv, Composers
  <1>1. ASSUME NEW c \in Convs, Send!SelectConversation(c) PROVE SendInv'
    <2>0. v2' = [v2 EXCEPT !.conv = c, !.reply = FALSE] /\ UNCHANGED <<v1, v3>>
      BY <1>1 DEF Send!SelectConversation
    <2>1. Send!TypeOK'
      BY <2>0 DEF SendInv, Send!TypeOK
    <2>2. /\ v2'.replaced = v2.replaced /\ v2'.drafts = v2.drafts
          /\ v2'.input = v2.input /\ v2'.pending = v2.pending
      BY <1>0, <2>0 DEF Composers
    <2> QED BY <1>0, <2>0, <2>1, <2>2, SameUses, NothingUsedKeeps
  <1>2. CASE Send!Type
    <2>0. /\ v2' = [v2 EXCEPT !.input = v2.drafts + 1, !.drafts = v2.drafts + 1]
          /\ v2.drafts + 1 \in Send!Drafts /\ UNCHANGED <<v1, v3>>
      BY <1>0, <1>2 DEF Send!Type
    <2>1. Send!TypeOK'
      BY <2>0 DEF SendInv, Send!TypeOK
    <2>2. /\ v2'.replaced = v2.replaced /\ v2'.drafts = v2.drafts + 1
          /\ v2'.input = v2.drafts + 1
      BY <1>0, <2>0 DEF Composers
    <2> QED BY <1>0, <2>0, <2>1, <2>2, SameUses, NothingUsedKeeps
  <1>3. CASE Send!SetReply \/ Send!ClearReply
    <2>0. /\ \E reply \in BOOLEAN : v2' = [v2 EXCEPT !.reply = reply]
          /\ UNCHANGED <<v1, v3>>
      BY <1>3 DEF Send!SetReply, Send!ClearReply
    <2>1. Send!TypeOK'
      BY <2>0 DEF SendInv, Send!TypeOK
    <2>2. /\ v2'.replaced = v2.replaced /\ v2'.drafts = v2.drafts
          /\ v2'.input = v2.input /\ v2'.pending = v2.pending
      BY <1>0, <2>0 DEF Composers
    <2> QED BY <1>0, <2>0, <2>1, <2>2, SameUses, NothingUsedKeeps
  <1>4. ASSUME NEW f \in v3, Send!MessageStored(f) PROVE SendInv'
    <2>1. f \in [n : 1 .. SendFlights, conv : Convs, draft : Send!Drafts, key : Send!Keys, stored : BOOLEAN]
      BY DEF SendInv, Send!TypeOK
    <2>2. v1' \subseteq v1 \cup {[conv |-> f.conv, draft |-> f.draft, key |-> f.key]}
      BY <1>4 DEF Send!MessageStored
    <2>3. v3' \subseteq v3 \cup {[f EXCEPT !.stored = TRUE]} /\ v2' = v2
      BY <1>4 DEF Send!MessageStored
    <2>4. Send!TypeOK'
      <3>1. /\ [f EXCEPT !.stored = TRUE] \in Requests
            /\ [conv |-> f.conv, draft |-> f.draft, key |-> f.key] \in [conv : Convs, draft : Send!Drafts, key : Send!Keys]
        BY <2>1 DEF Requests
      <3>2. /\ v1 \subseteq [conv : Convs, draft : Send!Drafts, key : Send!Keys]
            /\ v3 \subseteq Requests /\ v2 \in Composers
        BY SendTypes DEF SendInv
      <3>3. /\ v1' \subseteq [conv : Convs, draft : Send!Drafts, key : Send!Keys]
            /\ v3' \subseteq Requests /\ v2' \in Composers
        BY <2>2, <2>3, <3>1, <3>2
      <3> QED BY <3>3, SendTypes DEF Send!TypeOK, Requests, Composers, Pendings
    <2>5. \A c \in Convs, d \in Send!Drafts, k \in Send!Keys : Used(c, d, k)' => Used(c, d, k)
      <3> SUFFICES ASSUME NEW c \in Convs, NEW d \in Send!Drafts, NEW k \in Send!Keys, Used(c, d, k)'
                   PROVE  Used(c, d, k)
        OBVIOUS
      <3>1. CASE f.conv = c /\ f.draft = d /\ f.key = k
        BY <3>1 DEF Used
      <3>2. CASE ~(f.conv = c /\ f.draft = d /\ f.key = k)
        BY <2>1, <2>2, <2>3, <3>2 DEF Used
      <3> QED BY <3>1, <3>2
    <2> QED BY <1>0, <2>3, <2>4, <2>5, NothingUsedKeeps
  <1>5. ASSUME NEW f \in v3, Send!SendReplied(f) \/ Send!SendFailed(f) PROVE SendInv'
    <2>1. v3' \subseteq v3 /\ v1' = v1
      BY <1>5 DEF Send!SendReplied, Send!SendFailed
    <2>2. \A c \in Convs, d \in Send!Drafts, k \in Send!Keys : Used(c, d, k)' => Used(c, d, k)
      BY <2>1 DEF Used
    <2>3. v2' = v2 \/ v2' = [v2 EXCEPT !.pending = Send!NoPending, !.input = 0, !.reply = FALSE]
      BY <1>5 DEF Send!SendReplied, Send!SendFailed
    <2>4. Send!TypeOK'
      <3>1. Send!NoPending \in Pendings
        BY <1>0 DEF Send!NoPending, Pendings
      <3>2. v2' \in Composers
        <4>1. CASE v2' = v2
          BY <1>0, <4>1
        <4>2. CASE v2' = [v2 EXCEPT !.pending = Send!NoPending, !.input = 0, !.reply = FALSE]
          BY <1>0, <3>1, <4>2, ClearedForm
        <4> QED BY <2>3, <4>1, <4>2
      <3>3. v1' \subseteq [conv : Convs, draft : Send!Drafts, key : Send!Keys] /\ v3' \subseteq Requests
        BY <2>1, SendTypes DEF SendInv
      <3> QED BY <3>2, <3>3 DEF Send!TypeOK, Requests, Composers, Pendings
    <2>5. /\ v2'.replaced = v2.replaced /\ v2'.drafts = v2.drafts
          /\ v2' = v2 \/ v2'.input = 0
      BY <1>0, <2>3 DEF Composers
    <2> QED BY <1>0, <2>2, <2>4, <2>5, NothingUsedKeeps
  <1> QED BY <1>1, <1>2, <1>3, <1>4, <1>5

LEMMA SendInitEstablishes == ASSUME Send!SendAssumption, Send!Init PROVE SendInv
  BY DEF Send!SendAssumption, Send!Init, SendInv, Send!TypeOK, SendTyped, TextsKept, OneKey, Used, Send!NoPending

LEMMA SendStepKeeps == ASSUME Send!SendAssumption, SendInv, [Send!Next]_Send!vars PROVE SendInv'
  <1>1. CASE UNCHANGED Send!vars
    <2>1. Send!TypeOK'
      BY <1>1 DEF Send!vars, SendInv, Send!TypeOK
    <2> QED BY <1>1, <2>1, SameUses, NothingUsedKeeps DEF Send!vars, SendInv, Send!TypeOK
  <1> QED BY <1>1, SendKeeps, OthersKeep DEF Send!Next

SendPart == which = "send" => SendInv

LEMMA SendStart == Init => SendPart
  BY PagesConstants, SendInitEstablishes DEF Init, SendPart

LEMMA SendStep == SendPart /\ [Next]_vars => SendPart'
<1> SUFFICES ASSUME SendPart, [Next]_vars PROVE SendPart'
  OBVIOUS
<1>1. CASE which = "send"
  <2>1. [Send!Next]_Send!vars  BY <1>1 DEF Next, vars, Step, Send!vars
  <2>2. which' = "send"  BY <1>1 DEF Next, vars, Step
  <2> QED  BY <1>1, <2>1, <2>2, PagesConstants, SendStepKeeps DEF SendPart
<1>2. CASE which # "send"  BY <1>2 DEF Next, vars, Step, SendPart
<1> QED  BY <1>1, <1>2

\* However often a text is submitted, fails and is submitted again
\* (messaging_core_v2.js: sendConversationMessage), it is stored once, unless another
\* message took its client id from the page.
THEOREM TextStoredOnce == Spec => []SentOnce
<1>1. SendPart => SentOnce
  <2> SUFFICES ASSUME SendInv, NEW m \in v1, NEW o \in v1, m.conv = o.conv, m.draft = o.draft,
                      <<m.conv, m.draft>> \notin v2.replaced
               PROVE  m = o
    BY DEF SendPart, SentOnce, Send!SentOnce
  <2>1. /\ m \in [conv : Convs, draft : Send!Drafts, key : Send!Keys]
        /\ o \in [conv : Convs, draft : Send!Drafts, key : Send!Keys]
    BY DEF SendInv, Send!TypeOK
  <2>2. Used(m.conv, m.draft, m.key) /\ Used(m.conv, m.draft, o.key)
    BY DEF Used
  <2>3. m.key = o.key
    BY <2>1, <2>2 DEF SendInv, OneKey
  <2> QED  BY <2>1, <2>2, <2>3
<1> QED  BY <1>1, SendStart, SendStep, PTL DEF Spec

HIDE DEF Send!Drafts, Send!Keys

-----------------------------------------------------------------------------
(* The friend scanner. *)


Openings == 0 .. ScanDialogs
Profiles == 0 .. ScanResolves
FrameCounts == 0 .. Frames
Dialog == [open : BOOLEAN, count : Openings, profile : Profiles, enabled : BOOLEAN,
           confirming : BOOLEAN]
Camera == [start : {"none", "preparing", "asked", "playing", "failing"}, on : BOOLEAN,
           scanning : BOOLEAN, frames : FrameCounts, timer : BOOLEAN, strays : FrameCounts]

\* No video plays, is waited for, or is scanned, of a camera that is off.
OnlyOn(c) == c.start = "playing" \/ c.scanning \/ c.timer => c.on

\* A frame is being decoded or was lost by a timer: the bound is on both.
FramesIn(c) == c.frames + c.strays \in FrameCounts

ScannerInv == Scanner!TypeOK /\ Scanner!CameraOfDialog /\ OnlyOn(v2) /\ FramesIn(v2)

LEMMA ScannerTypes ==
  Scanner!TypeOK <=> /\ v1 \in Dialog /\ v2 \in Camera
             /\ v3 \in [Scanner!Resolves -> {"none", "asked", "over"}] /\ v4 \in BOOLEAN
  BY DEF Scanner!TypeOK, Dialog, Camera, Openings, Profiles, FrameCounts

\* A camera that is stopped is off.
LEMMA StopIsOff ==
    ASSUME NEW c \in Camera
    PROVE  /\ Scanner!Stop(c) \in Camera /\ ~Scanner!Stop(c).on /\ OnlyOn(Scanner!Stop(c))
           /\ Scanner!Stop(c).frames = c.frames /\ Scanner!Stop(c).strays = c.strays
  BY DEF Scanner!Stop, Camera, OnlyOn

\* A step whose camera is off, or is on for an open dialog or late.
LEMMA CameraKeeps ==
    ASSUME v1' \in Dialog, v2' \in Camera, v4' \in BOOLEAN,
           v3' \in [Scanner!Resolves -> {"none", "asked", "over"}],
           OnlyOn(v2'), FramesIn(v2'), v2'.on => v1'.open \/ v4'
    PROVE  ScannerInv'
  <1>1. Scanner!TypeOK'
    BY DEF Scanner!TypeOK, Dialog, Camera, Openings, Profiles, FrameCounts
  <1>2. Scanner!CameraOfDialog' /\ OnlyOn(v2)' /\ FramesIn(v2)'
    BY DEF Scanner!CameraOfDialog, OnlyOn, FramesIn
  <1> QED BY <1>1, <1>2 DEF ScannerInv

-----------------------------------------------------------------------------
LEMMA ScannerStepKeeps == ASSUME Scanner!ScannerAssumption, ScannerInv, [Scanner!Next]_Scanner!vars PROVE ScannerInv'
  <1>n. /\ 0 \in Profiles /\ Scanner!Resolves \subseteq Profiles
        /\ \A n \in Openings : n < ScanDialogs => n + 1 \in Openings
        /\ \A n \in FrameCounts : n > 0 => n - 1 \in FrameCounts
        /\ \A n, m \in FrameCounts : n + m \in FrameCounts /\ n > 0 => (n - 1) + m \in FrameCounts
        /\ \A n, m \in FrameCounts : n + m \in FrameCounts /\ n > 0 => m + 1 \in FrameCounts /\ (n - 1) + (m + 1) \in FrameCounts
        /\ \A n, m \in FrameCounts : n + m < Frames => n + 1 \in FrameCounts /\ (n + 1) + m \in FrameCounts
        /\ \A n, m \in FrameCounts : n + m = m + n /\ n + 0 = n
    BY DEF Scanner!ScannerAssumption, Profiles, Openings, FrameCounts, Scanner!Resolves
  <1>0. /\ v1 \in Dialog /\ v2 \in Camera /\ v4 \in BOOLEAN
        /\ v3 \in [Scanner!Resolves -> {"none", "asked", "over"}]
        /\ OnlyOn(v2) /\ FramesIn(v2) /\ (v2.on => v1.open \/ v4)
    BY ScannerTypes DEF ScannerInv, Scanner!CameraOfDialog
  <1>s. /\ Scanner!Stop(v2) \in Camera /\ ~Scanner!Stop(v2).on /\ OnlyOn(Scanner!Stop(v2)) /\ FramesIn(Scanner!Stop(v2))
        /\ Scanner!Stop(v2).frames = v2.frames /\ Scanner!Stop(v2).strays = v2.strays
    BY <1>0, StopIsOff DEF FramesIn
  <1>1. CASE Scanner!Opened
    <2>1. v1' \in Dialog /\ v1'.open
      BY <1>n, <1>0, <1>1 DEF Scanner!Opened, Dialog
    <2> QED BY <1>0, <1>1, <2>1, CameraKeeps DEF Scanner!Opened
  <1>2. CASE Scanner!Closed
    <2>1. v1' \in Dialog
      BY <1>n, <1>0, <1>2 DEF Scanner!Closed, Scanner!Close, Dialog
    <2> QED BY <1>0, <1>2, <1>s, <2>1, CameraKeeps DEF Scanner!Closed, Scanner!Close
  <1>3. CASE Scanner!PageHide
    BY <1>0, <1>3, <1>s, CameraKeeps DEF Scanner!PageHide
  <1>4. CASE Scanner!CameraClicked
    <2>1. v1' \in Dialog /\ v1'.open
      BY <1>n, <1>0, <1>4 DEF Scanner!CameraClicked, Dialog
    <2>2. v2' \in Camera /\ OnlyOn(v2') /\ FramesIn(v2')
      BY <1>0, <1>4 DEF Scanner!CameraClicked, Camera, OnlyOn, FramesIn
    <2> QED BY <1>0, <1>4, <2>1, <2>2, CameraKeeps DEF Scanner!CameraClicked
  <1>5. CASE Scanner!Prepared
    <2>1. v2' = [Scanner!Stop(v2) EXCEPT !.start = "asked"]
      BY <1>5 DEF Scanner!Prepared
    <2>2. v2' \in Camera /\ OnlyOn(v2') /\ FramesIn(v2') /\ ~v2'.on
      BY <1>s, <2>1 DEF Camera, OnlyOn, FramesIn
    <2> QED BY <1>0, <1>5, <2>2, CameraKeeps DEF Scanner!Prepared
  <1>6. CASE Scanner!Granted
    <2>1. v2' \in Camera /\ OnlyOn(v2') /\ FramesIn(v2')
      BY <1>0, <1>6 DEF Scanner!Granted, Camera, OnlyOn, FramesIn
    <2>2. v4' \in BOOLEAN /\ (v1'.open \/ v4')
      BY <1>0, <1>6 DEF Scanner!Granted, Dialog
    <2> QED BY <1>0, <1>6, <2>1, <2>2, CameraKeeps DEF Scanner!Granted
  <1>7. CASE Scanner!Playing
    <2>1. v1' \in Dialog /\ v1'.open = v1.open
      BY <1>0, <1>7 DEF Scanner!Playing, Dialog
    <2>2. v2' \in Camera /\ v2'.on = v2.on /\ v2.on /\ FramesIn(v2')
      BY <1>0, <1>7 DEF Scanner!Playing, Camera, OnlyOn, FramesIn
    <2> QED BY <1>0, <1>7, <2>1, <2>2, CameraKeeps DEF Scanner!Playing, OnlyOn
  <1>8. CASE Scanner!CameraFails
    <2>1. v1' \in Dialog
      BY <1>0, <1>8 DEF Scanner!CameraFails, Dialog
    <2>2. v2' = [Scanner!Stop(v2) EXCEPT !.start = "none"]
      BY <1>8 DEF Scanner!CameraFails
    <2>3. v2' \in Camera /\ OnlyOn(v2') /\ FramesIn(v2') /\ ~v2'.on
      BY <1>s, <2>2 DEF Camera, OnlyOn, FramesIn
    <2> QED BY <1>0, <1>8, <2>1, <2>3, CameraKeeps DEF Scanner!CameraFails
  <1>f. v2.frames \in FrameCounts /\ v2.strays \in FrameCounts /\ v2.frames + v2.strays \in FrameCounts /\ 0 \in FrameCounts
        /\ v2.timer \in BOOLEAN /\ v2.scanning \in BOOLEAN
    BY <1>0 DEF Camera, FramesIn, FrameCounts, Scanner!ScannerAssumption
  <1>k. ASSUME NEW k \in FrameCounts, NEW t \in BOOLEAN, NEW y \in FrameCounts, k + y \in FrameCounts, t => v2.timer \/ v2.scanning,
               v2' = [v2 EXCEPT !.timer = t, !.frames = k, !.strays = y], UNCHANGED <<v1, v3, v4>>
        PROVE  ScannerInv'
    <2>1. v2' \in Camera /\ OnlyOn(v2') /\ v2'.on = v2.on /\ FramesIn(v2')
      BY <1>0, <1>k DEF Camera, OnlyOn, FramesIn
    <2> QED BY <1>0, <1>k, <2>1, CameraKeeps
  <1>9. CASE Scanner!FrameDue
    <2> DEFINE k == v2.frames + 1
               y == v2.strays
    <2>1. k \in FrameCounts /\ k + y \in FrameCounts  BY <1>n, <1>f, <1>9 DEF Scanner!FrameDue
    <2>2. v2' = [v2 EXCEPT !.timer = FALSE, !.frames = k, !.strays = y]
      BY <1>0, <1>9 DEF Scanner!FrameDue, Camera
    <2> HIDE DEF k
    <2> QED BY <1>f, <1>k, <1>9, <2>1, <2>2 DEF Scanner!FrameDue
  <1>10. CASE Scanner!FrameEmpty
    <2> DEFINE k == v2.frames - 1
               t == v2.timer \/ v2.scanning
               y == v2.strays + (IF v2.timer /\ v2.scanning THEN 1 ELSE 0)
    <2>1. v2.frames > 0 /\ v2' = [v2 EXCEPT !.timer = t, !.frames = k, !.strays = y] /\ UNCHANGED <<v1, v3, v4>>
      BY <1>10 DEF Scanner!FrameEmpty
    <2>2. k \in FrameCounts /\ y \in FrameCounts /\ k + y \in FrameCounts  BY <1>n, <1>f, <2>1
    <2>3. t \in BOOLEAN /\ (t => v2.timer \/ v2.scanning)  OBVIOUS
    <2> HIDE DEF k, t, y
    <2> QED BY <1>k, <2>1, <2>2, <2>3
  <1>16. CASE Scanner!StrayDue
    <2> DEFINE k == v2.frames + (IF v2.scanning THEN 1 ELSE 0)
               t == v2.timer
               y == v2.strays - 1
    <2>1. v2.strays > 0 /\ v2' = [v2 EXCEPT !.timer = t, !.frames = k, !.strays = y] /\ UNCHANGED <<v1, v3, v4>>
      BY <1>0, <1>16 DEF Scanner!StrayDue, Camera
    <2>2. k \in FrameCounts /\ y \in FrameCounts /\ k + y \in FrameCounts
      <3>1. v2.strays + v2.frames \in FrameCounts  BY <1>n, <1>f
      <3>2. y \in FrameCounts /\ y + v2.frames \in FrameCounts
            /\ v2.frames + 1 \in FrameCounts /\ y + (v2.frames + 1) \in FrameCounts
        BY <1>n, <1>f, <2>1, <3>1
      <3> QED  BY <1>n, <1>f, <3>2
    <2> HIDE DEF k, y
    <2> QED BY <1>f, <1>k, <2>1, <2>2
  <1>11. CASE Scanner!ConfirmClicked \/ Scanner!ConfirmFailed
    <2>1. v1' \in Dialog /\ v1'.open = v1.open
      BY <1>0, <1>11 DEF Scanner!ConfirmClicked, Scanner!ConfirmFailed, Dialog
    <2> QED BY <1>0, <1>11, <2>1, CameraKeeps DEF Scanner!ConfirmClicked, Scanner!ConfirmFailed
  <1>12. CASE Scanner!Confirmed
    <2>1. v1' \in Dialog
      BY <1>n, <1>0, <1>12 DEF Scanner!Confirmed, Dialog
    <2> QED BY <1>0, <1>12, <1>s, <2>1, CameraKeeps DEF Scanner!Confirmed
  <1>13. ASSUME NEW r \in Scanner!Resolves, Scanner!FrameFound(r) \/ Scanner!CodeGiven(r) PROVE ScannerInv'
    <2>1. v3' \in [Scanner!Resolves -> {"none", "asked", "over"}]
      BY <1>0, <1>13 DEF Scanner!FrameFound, Scanner!CodeGiven, Scanner!Resolve
    <2>2. v2' \in Camera /\ OnlyOn(v2') /\ FramesIn(v2') /\ ~v2'.on
      <3>1. CASE Scanner!FrameFound(r)
        <4>1. v2' = [Scanner!Stop(v2) EXCEPT !.frames = Scanner!Stop(v2).frames - 1] /\ v2.frames > 0
          BY <3>1 DEF Scanner!FrameFound
        <4> DEFINE c == Scanner!Stop(v2)
                   k == c.frames - 1
        <4>2. k \in FrameCounts /\ k + c.strays \in FrameCounts  BY <1>n, <1>f, <1>s, <4>1
        <4>3. v2' = [c EXCEPT !.frames = k] /\ c \in Camera /\ ~c.on /\ OnlyOn(c)  BY <1>s, <4>1
        <4> HIDE DEF c, k
        <4> QED BY <4>2, <4>3 DEF Camera, OnlyOn, FramesIn
      <3>2. CASE Scanner!CodeGiven(r)
        BY <1>s, <3>2 DEF Scanner!CodeGiven
      <3> QED BY <1>13, <3>1, <3>2
    <2> QED BY <1>0, <1>13, <2>1, <2>2, CameraKeeps DEF Scanner!FrameFound, Scanner!CodeGiven
  <1>14. ASSUME NEW r \in Scanner!Resolves, Scanner!Resolved(r) \/ Scanner!NotResolved(r) PROVE ScannerInv'
    <2>1. v1' \in Dialog /\ v1'.open = v1.open
      BY <1>n, <1>0, <1>14 DEF Scanner!Resolved, Scanner!NotResolved, Dialog
    <2>2. v3' \in [Scanner!Resolves -> {"none", "asked", "over"}]
      BY <1>0, <1>14 DEF Scanner!Resolved, Scanner!NotResolved
    <2> QED BY <1>0, <1>14, <2>1, <2>2, CameraKeeps DEF Scanner!Resolved, Scanner!NotResolved
  <1>15. CASE UNCHANGED Scanner!vars
    BY <1>0, <1>15, CameraKeeps DEF Scanner!vars
  <1> QED BY <1>1, <1>2, <1>3, <1>4, <1>5, <1>6, <1>7, <1>8, <1>9, <1>10, <1>11, <1>12,
             <1>13, <1>14, <1>15, <1>16 DEF Scanner!Next

LEMMA ScannerInitEstablishes == ASSUME Scanner!ScannerAssumption, Scanner!Init PROVE ScannerInv
  <1>1. 0 \in Openings /\ 0 \in Profiles /\ 0 \in FrameCounts
    BY DEF Scanner!ScannerAssumption, Openings, Profiles, FrameCounts
  <1>2. v1 \in Dialog /\ v2 \in Camera
    BY <1>1 DEF Scanner!Init, Dialog, Camera
  <1>3. Scanner!TypeOK
    BY <1>2, ScannerTypes DEF Scanner!Init
  <1>4. FramesIn(v2)
    BY <1>1 DEF Scanner!Init, FramesIn
  <1> QED BY <1>3, <1>4 DEF Scanner!Init, ScannerInv, Scanner!CameraOfDialog, OnlyOn

ScannerPart == which = "scanner" => ScannerInv

LEMMA ScannerStart == Init => ScannerPart
  BY PagesConstants, ScannerInitEstablishes DEF Init, ScannerPart

LEMMA ScannerStep == ScannerPart /\ [Next]_vars => ScannerPart'
<1> SUFFICES ASSUME ScannerPart, [Next]_vars PROVE ScannerPart'
  OBVIOUS
<1>1. CASE which = "scanner"
  <2>1. [Scanner!Next]_Scanner!vars  BY <1>1 DEF Next, vars, Step, Scanner!vars
  <2>2. which' = "scanner"  BY <1>1 DEF Next, vars, Step
  <2> QED  BY <1>1, <2>1, <2>2, PagesConstants, ScannerStepKeeps DEF ScannerPart
<1>2. CASE which # "scanner"  BY <1>2 DEF Next, vars, Step, ScannerPart
<1> QED  BY <1>1, <1>2

-----------------------------------------------------------------------------
(* The ringtone controller. *)


Whats == CallsIn \cup Ringtone!Previews
Sounding(r) == {r.sounds, r.timer, r.interval, r.deadline}
Numbers == 0 .. Rings

RingRows == [gen : Numbers, active : Whats \cup {None}, sounds : Numbers, timer : Numbers,
          interval : Numbers, deadline : Numbers]
Runs == [Ringtone!Gens -> [call : Whats \cup {None},
                  at : {"none", "sync", "arming", "started", "cycle", "over"}, sound : BOOLEAN]]

\* Nothing sounds for an old generation, or without a call.
Own(r) == \A what \in Sounding(r) : what # 0 => what = r.gen /\ r.active # None

\* The call that rings is its run's, which is arming with no cycle to come or has its
\* deadline.
Followed(r, s) ==
  r.active # None =>
    /\ r.gen \in Ringtone!Gens /\ r.active = s[r.gen].call /\ s[r.gen].at # "sync"
    /\ s[r.gen].at = "arming" \/ r.deadline = r.gen
    /\ s[r.gen].at = "arming" => r.timer = 0

\* A run that began has a call.
Called(s) == \A g \in Ringtone!Gens : s[g].at # "none" => s[g].call # None

RingInv == v3 \in RingRows /\ v4 \in Runs /\ Own(v3) /\ Followed(v3, v4) /\ Called(v4)

LEMMA RingtoneConsts ==
    ASSUME Ringtone!RingtoneAssumption
    PROVE  /\ 0 \in Numbers /\ Ringtone!Gens \subseteq Numbers /\ None \notin Whats
           /\ \A n \in Numbers : n < Rings => n + 1 \in Ringtone!Gens /\ n + 1 # n
           /\ \A n \in Numbers : n # 0 => n \in Ringtone!Gens
           /\ 0 \notin Ringtone!Gens
  BY DEF Ringtone!RingtoneAssumption, Numbers, Ringtone!Gens, Whats, Ringtone!Previews

-----------------------------------------------------------------------------
(* What the steps do to the ring *)

\* A new generation: nothing rings.
LEMMA BumpKeeps ==
    ASSUME Ringtone!RingtoneAssumption, RingInv, Ringtone!Bump, v4' \in Runs, Called(v4')
    PROVE  RingInv'
  <1>1. v3 \in RingRows /\ v3.gen \in Numbers /\ v3.gen < Rings
    BY DEF RingInv, RingRows, Ringtone!Bump
  <1>2. v3.gen + 1 \in Numbers
    BY <1>1, RingtoneConsts
  <1>3. v3' = [v3 EXCEPT !.gen = v3.gen + 1, !.active = None, !.sounds = 0, !.timer = 0,
                             !.interval = 0, !.deadline = 0]
    BY DEF Ringtone!Bump, Ringtone!Cleared
  <1>4. v3' \in RingRows
    BY <1>1, <1>2, <1>3, RingtoneConsts DEF RingRows
  <1>5. /\ v3'.active = None /\ v3'.sounds = 0 /\ v3'.timer = 0
        /\ v3'.interval = 0 /\ v3'.deadline = 0
    BY <1>1, <1>3 DEF RingRows
  <1>6. Own(v3') /\ Followed(v3', v4')
    BY <1>5 DEF Own, Sounding, Followed
  <1> QED BY <1>4, <1>6 DEF RingInv

\* Places of runs the ring does not depend on: any run but the one that rings.
LEMMA SettleOther ==
    ASSUME RingInv, NEW g \in Ringtone!Gens, NEW at \in {"started", "cycle", "over"},
           v4[g].at # "none", Ringtone!Settle(g, at), UNCHANGED v3,
           g # v3.gen \/ v3.active = None \/ v3.deadline = v3.gen
    PROVE  RingInv'
  <1>1. v4' \in Runs /\ Called(v4')
    BY DEF RingInv, Runs, Ringtone!Settle, Called
  <1>2. Followed(v3', v4')
    BY DEF RingInv, RingRows, Runs, Ringtone!Settle, Followed
  <1> QED BY <1>1, <1>2 DEF RingInv

LEMMA SettleRuns ==
    ASSUME RingInv, NEW g \in Ringtone!Gens, NEW at \in {"started", "cycle", "over"},
           v4[g].at # "none", Ringtone!Settle(g, at)
    PROVE  /\ v4' \in Runs /\ Called(v4') /\ v4'[g].at = at
           /\ \A h \in Ringtone!Gens : v4'[h].call = v4[h].call
  BY DEF RingInv, Runs, Ringtone!Settle, Called

\* The first step of a start.
LEMMA BeginKeeps ==
    ASSUME Ringtone!RingtoneAssumption, RingInv, NEW k \in Whats, Ringtone!Begin(k) PROVE RingInv'
  <1>1. v3.gen + 1 \in Ringtone!Gens /\ k # None
    BY RingtoneConsts DEF Ringtone!Begin, Ringtone!Bump, RingInv, RingRows
  <1>2. v4' = [v4 EXCEPT ![v3.gen + 1] = [@ EXCEPT !.call = k, !.at = "sync"]]
    BY DEF Ringtone!Begin
  <1>3. v4' \in Runs /\ Called(v4')
    BY <1>1, <1>2 DEF RingInv, Runs, Called
  <1> QED BY <1>3, BumpKeeps DEF Ringtone!Begin

LEMMA SyncedKeeps ==
    ASSUME Ringtone!RingtoneAssumption, RingInv, NEW g \in Ringtone!Gens, Ringtone!Synced(g), v1 \in Ringtone!Prefs PROVE RingInv'
  <1>1. v4[g].at = "sync" /\ v4[g].call \in Whats /\ v4[g].call # None
    BY DEF Ringtone!Synced, RingInv, Called, Runs
  <1>2. CASE g = v3.gen /\ (v1.sound \/ v1.vibration)
    <2>1. v3' = [v3 EXCEPT !.active = v4[g].call]
      BY <1>2 DEF Ringtone!Synced
    <2>2. v4' = [v4 EXCEPT ![g].at = "arming", ![g].sound = v1.sound]
      BY <1>2 DEF Ringtone!Synced
    <2>3. v3.active = None
      BY <1>1, <1>2 DEF RingInv, Followed
    <2>4. v3.sounds = 0 /\ v3.timer = 0 /\ v3.interval = 0 /\ v3.deadline = 0
      BY <2>3 DEF RingInv, Own, Sounding
    <2>5. v3' \in RingRows /\ v3'.gen = g /\ v3'.active = v4[g].call
          /\ v3'.sounds = 0 /\ v3'.timer = 0 /\ v3'.interval = 0 /\ v3'.deadline = 0
      BY <1>1, <1>2, <2>1, <2>4 DEF RingInv, RingRows
    <2>6. v1.sound \in BOOLEAN
      BY DEF Ringtone!Prefs
    <2>7. v4' \in Runs /\ v4'[g].at = "arming" /\ v4'[g].call = v4[g].call /\ Called(v4')
      BY <1>1, <2>2, <2>6 DEF RingInv, Runs, Called
    <2>8. Own(v3') /\ Followed(v3', v4')
      BY <2>5, <2>7 DEF Own, Sounding, Followed
    <2> QED BY <2>5, <2>7, <2>8 DEF RingInv
  <1>3. CASE ~(g = v3.gen /\ (v1.sound \/ v1.vibration))
    <2>1. Ringtone!Settle(g, "over") /\ UNCHANGED v3
      BY <1>3 DEF Ringtone!Synced, Ringtone!Ends
    <2>2. g # v3.gen \/ v3.active = None
      BY <1>1 DEF RingInv, Followed
    <2> QED BY <1>1, <2>1, <2>2, SettleOther
  <1> QED BY <1>2, <1>3

LEMMA ArmedKeeps ==
    ASSUME Ringtone!RingtoneAssumption, RingInv, NEW g \in Ringtone!Gens, NEW ready \in BOOLEAN, NEW more \in BOOLEAN,
           Ringtone!Armed(g, ready, more)
    PROVE  RingInv'
  <1>1. v4[g].at = "arming" /\ v4[g].call # None
    BY DEF Ringtone!Armed, RingInv, Called
  <1>2. CASE ~Ringtone!Current(g)
    <2>1. Ringtone!Settle(g, "over") /\ UNCHANGED v3
      BY <1>2 DEF Ringtone!Armed, Ringtone!Ends
    <2>2. g # v3.gen \/ v3.active = None
      BY <1>2 DEF Ringtone!Current, RingInv, Followed
    <2> QED BY <1>1, <2>1, <2>2, SettleOther
  <1>3. CASE Ringtone!Current(g) /\ (ready \/ v1.vibration)
    <2> DEFINE c == IF ready THEN Ringtone!Cycle(v3, g, more) ELSE v3
               v == Ringtone!Vibrate(c, g)
    <2>1. v3' = [v EXCEPT !.deadline = g] /\ Ringtone!Settle(g, "started")
      BY <1>3 DEF Ringtone!Armed
    <2>2. g = v3.gen /\ v3.active = v4[g].call /\ g \in Numbers /\ 0 \in Numbers
      BY <1>3, RingtoneConsts DEF Ringtone!Current
    <2>3. c \in RingRows /\ c.gen = g /\ c.active = v3.active /\ {c.sounds, c.timer} \subseteq {0, g}
      BY <1>1, <2>2, RingtoneConsts DEF Ringtone!Cycle, RingInv, RingRows, Own, Sounding
    <2> HIDE DEF c
    <2>4. v \in RingRows /\ v.gen = g /\ v.active = v3.active
          /\ {v.sounds, v.timer, v.interval} \subseteq {0, g}
      BY <2>2, <2>3 DEF Ringtone!Vibrate, RingRows
    <2> HIDE DEF v
    <2>5. v3' \in RingRows /\ v3'.gen = g /\ v3'.active = v3.active /\ v3'.deadline = g
          /\ {v3'.sounds, v3'.timer, v3'.interval} \subseteq {0, g}
      BY <2>1, <2>2, <2>4 DEF RingRows
    <2>6. v4' \in Runs /\ Called(v4') /\ v4'[g].at = "started" /\ v4'[g].call = v4[g].call
      BY <1>1, <2>1, SettleRuns
    <2>7. Own(v3') /\ Followed(v3', v4')
      BY <1>1, <2>2, <2>5, <2>6 DEF Own, Sounding, Followed
    <2> QED BY <2>5, <2>6, <2>7 DEF RingInv
  <1>4. CASE Ringtone!Current(g) /\ ~(ready \/ v1.vibration)
    <2>1. Ringtone!Bump /\ Ringtone!Settle(g, "over")
      BY <1>4 DEF Ringtone!Armed
    <2> QED BY <1>1, <2>1, SettleRuns, BumpKeeps
  <1> QED BY <1>2, <1>3, <1>4

LEMMA CycleReadyKeeps ==
    ASSUME Ringtone!RingtoneAssumption, RingInv, NEW g \in Ringtone!Gens, NEW more \in BOOLEAN, Ringtone!CycleReady(g, more)
    PROVE  RingInv'
  <1>1. v4[g].at = "cycle" /\ Ringtone!Settle(g, "started")
    BY DEF Ringtone!CycleReady
  <1>2. v4' \in Runs /\ Called(v4') /\ v4'[g].at = "started" /\ v4'[g].call = v4[g].call
    BY <1>1, SettleRuns
  <1>3. CASE Ringtone!Current(g)
    <2>1. v3' = Ringtone!Cycle(v3, g, more)
      BY <1>3 DEF Ringtone!CycleReady
    <2>2. g = v3.gen /\ v3.active = v4[g].call /\ v3.active # None /\ v3.deadline = g
      BY <1>1, <1>3 DEF Ringtone!Current, RingInv, Followed, Called
    <2>3. v3' \in RingRows /\ v3'.gen = g /\ v3'.active = v3.active /\ v3'.deadline = g
          /\ {v3'.sounds, v3'.timer} \subseteq {0, g} /\ v3'.interval = v3.interval
      BY <2>1, <2>2, RingtoneConsts DEF Ringtone!Cycle, RingInv, RingRows
    <2>4. Own(v3') /\ Followed(v3', v4')
      BY <1>2, <2>2, <2>3 DEF RingInv, Own, Sounding, Followed
    <2> QED BY <1>2, <2>3, <2>4 DEF RingInv
  <1>4. CASE ~Ringtone!Current(g)
    <2>1. UNCHANGED v3
      BY <1>4 DEF Ringtone!CycleReady
    <2>2. g # v3.gen \/ v3.active = None
      BY <1>4 DEF Ringtone!Current, RingInv, Followed
    <2> QED BY <1>1, <2>1, <2>2, SettleOther
  <1> QED BY <1>3, <1>4

LEMMA OtherRingSteps ==
    ASSUME Ringtone!RingtoneAssumption, RingInv,
           \/ Ringtone!NextCycleDue \/ Ringtone!CycleOutOfTime \/ Ringtone!NotesEnd \/ Ringtone!Deadline
           \/ \E k \in CallsIn \cup {None} : Ringtone!Stopped(k)
           \/ \E g \in Ringtone!Gens : Ringtone!ArmedLate(g) \/ Ringtone!CycleRefused(g)
           \/ \E p \in Ringtone!Prefs : Ringtone!SetPreferences(p)
    PROVE  RingInv'
  <1>0. 0 \in Numbers /\ v3 \in RingRows /\ v4 \in Runs /\ Called(v4)
    BY RingtoneConsts DEF RingInv
  <1>1. CASE Ringtone!NextCycleDue
    <2> DEFINE g == v3.timer
    <2>1. g # 0 /\ v3' = [v3 EXCEPT !.timer = 0]
      BY <1>1 DEF Ringtone!NextCycleDue
    <2>2. g = v3.gen /\ v3.active # None /\ g \in Ringtone!Gens /\ v3.active = v4[g].call
          /\ v4[g].at # "arming" /\ v3.deadline = g
      BY <2>1 DEF RingInv, Own, Sounding, Followed
    <2>3. Ringtone!Settle(g, "cycle")
      BY <1>1, <2>2 DEF Ringtone!NextCycleDue, Ringtone!Current
    <2>5. v4' \in Runs /\ Called(v4') /\ v4'[g].at = "cycle" /\ v4'[g].call = v4[g].call
      <3>1. v4[g].call # None
        BY <2>2
      <3> QED BY <1>0, <2>2, <2>3, <3>1 DEF Runs, Ringtone!Settle, Called
    <2>6. v3' \in RingRows /\ v3'.gen = v3.gen /\ v3'.active = v3.active /\ v3'.timer = 0
          /\ v3'.sounds = v3.sounds /\ v3'.interval = v3.interval /\ v3'.deadline = v3.deadline
      BY <1>0, <2>1 DEF RingRows
    <2>7. Own(v3') /\ Followed(v3', v4')
      BY <2>2, <2>5, <2>6 DEF RingInv, Own, Sounding, Followed
    <2> QED BY <2>5, <2>6, <2>7 DEF RingInv
  <1>2. CASE Ringtone!CycleOutOfTime \/ Ringtone!Deadline \/ \E k \in CallsIn \cup {None} : Ringtone!Stopped(k)
    BY <1>0, <1>2, BumpKeeps DEF Ringtone!CycleOutOfTime, Ringtone!Deadline, Ringtone!Stopped
  <1>3. CASE Ringtone!NotesEnd
    <2>1. v3' \in RingRows /\ v3'.gen = v3.gen /\ v3'.active = v3.active /\ v3'.sounds = 0
          /\ v3'.timer = v3.timer /\ v3'.interval = v3.interval /\ v3'.deadline = v3.deadline
      BY <1>0, <1>3 DEF Ringtone!NotesEnd, RingRows
    <2> QED BY <1>3, <2>1 DEF Ringtone!NotesEnd, RingInv, Own, Sounding, Followed
  <1>4. ASSUME NEW g \in Ringtone!Gens, Ringtone!ArmedLate(g) PROVE RingInv'
    BY <1>4, SettleRuns, BumpKeeps DEF Ringtone!ArmedLate
  <1>5. ASSUME NEW g \in Ringtone!Gens, Ringtone!CycleRefused(g) PROVE RingInv'
    <2>1. v4[g].at = "cycle" /\ Ringtone!Settle(g, "started") /\ UNCHANGED v3
      BY <1>5 DEF Ringtone!CycleRefused
    <2>2. g # v3.gen \/ v3.active = None \/ v3.deadline = v3.gen
      BY <2>1 DEF RingInv, Followed
    <2> QED BY <2>1, <2>2, SettleOther
  <1>6. ASSUME NEW p \in Ringtone!Prefs, Ringtone!SetPreferences(p) PROVE RingInv'
    <2>1. CASE p.sound \/ p.vibration
      <3>1. v3' = [v3 EXCEPT !.interval = IF p.vibration THEN @ ELSE 0] /\ v4' = v4
        BY <1>6, <2>1 DEF Ringtone!SetPreferences
      <3>2. v3' \in RingRows /\ v3'.gen = v3.gen /\ v3'.active = v3.active
            /\ v3'.sounds = v3.sounds /\ v3'.timer = v3.timer
            /\ v3'.deadline = v3.deadline /\ v3'.interval \in {0, v3.interval}
        BY <1>0, <3>1 DEF RingRows
      <3> QED BY <3>1, <3>2 DEF RingInv, Own, Sounding, Followed
    <2>2. CASE ~(p.sound \/ p.vibration)
      BY <1>0, <1>6, <2>2, BumpKeeps DEF Ringtone!SetPreferences
    <2> QED BY <2>1, <2>2
  <1> QED BY <1>1, <1>2, <1>3, <1>4, <1>5, <1>6

-----------------------------------------------------------------------------
(* The preferences, the previews and the whole *)

Syncs == [loading : BOOLEAN, timer : BOOLEAN, count : 0 .. RingSaves, sent : SUBSET Ringtone!Prefs]
PreviewRows == [at : {"none", "sync", "starting", "over"}, gen : Numbers, was : Ringtone!Prefs]

SettingsOK == v1 \in Ringtone!Prefs /\ v2 \in Syncs /\ v5 \in [Ringtone!Previews -> PreviewRows]

RingtoneInv == SettingsOK /\ RingInv

LEMMA RingtoneTypes == RingtoneInv => Ringtone!TypeOK
  BY DEF RingtoneInv, SettingsOK, RingInv, Ringtone!TypeOK, Syncs, PreviewRows, RingRows, Runs, Numbers, Whats

LEMMA SettingsKept ==
    ASSUME Ringtone!RingtoneAssumption, RingtoneInv, [Ringtone!Next]_Ringtone!vars PROVE SettingsOK'
  <1>0. /\ v1 \in Ringtone!Prefs /\ v2 \in Syncs /\ v5 \in [Ringtone!Previews -> PreviewRows]
        /\ Ringtone!AllOn \in Ringtone!Prefs /\ RingSaves \in Nat
    BY DEF RingtoneInv, SettingsOK, Ringtone!AllOn, Ringtone!Prefs, Ringtone!RingtoneAssumption
  <1>1. ASSUME NEW p \in Ringtone!Prefs, Ringtone!Loaded(p) PROVE SettingsOK'
    <2>1. v2' \in Syncs
      BY <1>0, <1>1 DEF Ringtone!Loaded, Syncs
    <2> QED BY <1>0, <1>1, <2>1 DEF Ringtone!Loaded, SettingsOK
  <1>2. ASSUME NEW p \in Ringtone!Prefs, Ringtone!SetPreferences(p) PROVE SettingsOK'
    <2>1. v2.count + 1 \in 0 .. RingSaves
      BY <1>0, <1>2 DEF Ringtone!SetPreferences, Syncs
    <2>2. v2' = [v2 EXCEPT !.timer = TRUE, !.count = v2.count + 1]
      BY <1>2 DEF Ringtone!SetPreferences
    <2> DEFINE n == v2.count + 1
    <2>3. n \in 0 .. RingSaves /\ v2' = [v2 EXCEPT !.timer = TRUE, !.count = n]
      BY <2>1, <2>2
    <2> HIDE DEF n
    <2>4. v2' \in Syncs
      BY <1>0, <2>3 DEF Syncs
    <2> QED BY <1>0, <1>2, <2>4 DEF Ringtone!SetPreferences, SettingsOK
  <1>3. CASE Ringtone!SaveDue
    <2>1. v2.sent \cup {v1} \in SUBSET Ringtone!Prefs
      BY <1>0 DEF Syncs
    <2>2. v2' \in Syncs
      BY <1>0, <1>3, <2>1 DEF Ringtone!SaveDue, Syncs
    <2> QED BY <1>0, <1>3, <2>2 DEF Ringtone!SaveDue, SettingsOK
  <1>4. ASSUME NEW p \in Ringtone!Prefs, NEW ok \in BOOLEAN, Ringtone!SaveReplied(p, ok) PROVE SettingsOK'
    <2>1. v2.sent \ {p} \in SUBSET Ringtone!Prefs
      BY <1>0 DEF Syncs
    <2>2. v2' \in Syncs
      BY <1>0, <1>4, <2>1 DEF Ringtone!SaveReplied, Syncs
    <2> QED BY <1>0, <1>4, <2>2 DEF Ringtone!SaveReplied, SettingsOK
  <1>5. ASSUME NEW p \in Ringtone!Previews, Ringtone!PreviewClicked(p) PROVE SettingsOK'
    <2>1. v5' \in [Ringtone!Previews -> PreviewRows]
      BY <1>0, <1>5 DEF Ringtone!PreviewClicked, PreviewRows
    <2> QED BY <1>0, <1>5, <2>1 DEF Ringtone!PreviewClicked, SettingsOK
  <1>6. ASSUME NEW p \in Ringtone!Previews, Ringtone!PreviewSynced(p) PROVE SettingsOK'
    <2>1. CASE v3.active \in CallsIn
      <3>1. v5' \in [Ringtone!Previews -> PreviewRows]
        BY <1>0, <1>6, <2>1 DEF Ringtone!PreviewSynced, PreviewRows
      <3> QED BY <1>0, <1>6, <2>1, <3>1 DEF Ringtone!PreviewSynced, SettingsOK
    <2>2. CASE v3.active \notin CallsIn
      <3>1. v3.gen + 1 \in Numbers
        BY <1>6, <2>2, RingtoneConsts
           DEF Ringtone!PreviewSynced, Ringtone!Begin, Ringtone!Bump, RingtoneInv, RingInv, RingRows
      <3>2. [at |-> "starting", gen |-> v3.gen + 1, was |-> v1] \in PreviewRows
        BY <1>0, <3>1 DEF PreviewRows
      <3>3. v5' \in [Ringtone!Previews -> PreviewRows] /\ v1' = Ringtone!AllOn
        BY <1>0, <1>6, <2>2, <3>2 DEF Ringtone!PreviewSynced
      <3> QED BY <1>0, <1>6, <3>3 DEF Ringtone!PreviewSynced, SettingsOK
    <2> QED BY <2>1, <2>2
  <1>7. ASSUME NEW p \in Ringtone!Previews, Ringtone!PreviewStarted(p) PROVE SettingsOK'
    <2>1. v5' \in [Ringtone!Previews -> PreviewRows] /\ v1' \in Ringtone!Prefs
      BY <1>0, <1>7 DEF Ringtone!PreviewStarted, PreviewRows
    <2> QED BY <1>0, <1>7, <2>1 DEF Ringtone!PreviewStarted, SettingsOK
  <1>8. CASE UNCHANGED <<v1, v2, v5>>
    BY <1>0, <1>8 DEF SettingsOK
  <1>9. ASSUME NEW k \in CallsIn, Ringtone!Start(k) PROVE SettingsOK'
    BY <1>8, <1>9 DEF Ringtone!Start
  <1>10. ASSUME NEW k \in CallsIn \cup {None}, Ringtone!Stopped(k) PROVE SettingsOK'
    BY <1>8, <1>10 DEF Ringtone!Stopped
  <1>11. ASSUME NEW g \in Ringtone!Gens, NEW ready \in BOOLEAN, NEW more \in BOOLEAN,
                Ringtone!Armed(g, ready, more) \/ Ringtone!CycleReady(g, more)
         PROVE  SettingsOK'
    BY <1>8, <1>11 DEF Ringtone!Armed, Ringtone!CycleReady
  <1>12. ASSUME NEW g \in Ringtone!Gens, Ringtone!Synced(g) \/ Ringtone!ArmedLate(g) \/ Ringtone!CycleRefused(g) PROVE SettingsOK'
    BY <1>8, <1>12 DEF Ringtone!Synced, Ringtone!ArmedLate, Ringtone!CycleRefused
  <1>13. CASE Ringtone!NextCycleDue \/ Ringtone!CycleOutOfTime \/ Ringtone!NotesEnd \/ Ringtone!Deadline \/ UNCHANGED Ringtone!vars
    BY <1>8, <1>13
       DEF Ringtone!NextCycleDue, Ringtone!CycleOutOfTime, Ringtone!NotesEnd, Ringtone!Deadline, Ringtone!vars
  <1> QED BY <1>0, <1>1, <1>2, <1>3, <1>4, <1>5, <1>6, <1>7, <1>9, <1>10, <1>11, <1>12, <1>13
          DEF Ringtone!Next

LEMMA RingKept ==
    ASSUME Ringtone!RingtoneAssumption, RingtoneInv, [Ringtone!Next]_Ringtone!vars PROVE RingInv'
  <1>0. RingInv /\ v1 \in Ringtone!Prefs /\ CallsIn \subseteq Whats /\ Ringtone!Previews \subseteq Whats
    BY DEF RingtoneInv, SettingsOK, Whats
  <1>1. ASSUME UNCHANGED <<v3, v4>> PROVE RingInv'
    BY <1>0, <1>1 DEF RingInv
  <1>2. ASSUME NEW p \in Ringtone!Previews, Ringtone!PreviewSynced(p) PROVE RingInv'
    BY <1>0, <1>1, <1>2, BeginKeeps DEF Ringtone!PreviewSynced
  <1>3. ASSUME NEW k \in CallsIn, Ringtone!Start(k) PROVE RingInv'
    BY <1>0, <1>3, BeginKeeps DEF Ringtone!Start
  <1>4. ASSUME NEW p \in Ringtone!Previews, Ringtone!PreviewClicked(p) \/ Ringtone!PreviewStarted(p) PROVE RingInv'
    BY <1>1, <1>4 DEF Ringtone!PreviewClicked, Ringtone!PreviewStarted
  <1>5. ASSUME NEW p \in Ringtone!Prefs, NEW ok \in BOOLEAN, Ringtone!Loaded(p) \/ Ringtone!SaveReplied(p, ok) PROVE RingInv'
    BY <1>1, <1>5 DEF Ringtone!Loaded, Ringtone!SaveReplied
  <1>6. CASE Ringtone!SaveDue \/ UNCHANGED Ringtone!vars
    BY <1>1, <1>6 DEF Ringtone!SaveDue, Ringtone!vars
  <1>7. ASSUME NEW g \in Ringtone!Gens, NEW ready \in BOOLEAN, NEW more \in BOOLEAN,
               Ringtone!Armed(g, ready, more) \/ Ringtone!CycleReady(g, more)
        PROVE  RingInv'
    BY <1>0, <1>7, ArmedKeeps, CycleReadyKeeps
  <1>8. ASSUME NEW g \in Ringtone!Gens, Ringtone!Synced(g) PROVE RingInv'
    BY <1>0, <1>8, SyncedKeeps
  <1> QED BY <1>0, <1>2, <1>3, <1>4, <1>5, <1>6, <1>7, <1>8, OtherRingSteps DEF Ringtone!Next

LEMMA RingtoneInitEstablishes == ASSUME Ringtone!RingtoneAssumption, Ringtone!Init PROVE RingtoneInv
  <1>1. 0 \in Numbers /\ RingSaves \in Nat /\ Ringtone!AllOn \in Ringtone!Prefs /\ None \notin Whats
    BY RingtoneConsts DEF Ringtone!RingtoneAssumption, Ringtone!AllOn, Ringtone!Prefs
  <1>2. v3 \in RingRows /\ v4 \in Runs
    BY <1>1 DEF Ringtone!Init, RingRows, Runs
  <1>3. SettingsOK
    BY <1>1 DEF Ringtone!Init, SettingsOK, Syncs, PreviewRows
  <1>4. Own(v3) /\ Followed(v3, v4) /\ Called(v4)
    BY DEF Ringtone!Init, Own, Sounding, Followed, Called
  <1> QED BY <1>2, <1>3, <1>4 DEF RingtoneInv, RingInv

LEMMA RingtoneStepKeeps == ASSUME Ringtone!RingtoneAssumption, RingtoneInv, [Ringtone!Next]_Ringtone!vars PROVE RingtoneInv'
  BY SettingsKept, RingKept DEF RingtoneInv

RingtonePart == which = "ringtone" => RingtoneInv

LEMMA RingtoneStart == Init => RingtonePart
  BY PagesConstants, RingtoneInitEstablishes DEF Init, RingtonePart

LEMMA RingtoneStep == RingtonePart /\ [Next]_vars => RingtonePart'
<1> SUFFICES ASSUME RingtonePart, [Next]_vars PROVE RingtonePart'
  OBVIOUS
<1>1. CASE which = "ringtone"
  <2>1. [Ringtone!Next]_Ringtone!vars  BY <1>1 DEF Next, vars, Step, Ringtone!vars
  <2>2. which' = "ringtone"  BY <1>1 DEF Next, vars, Step
  <2> QED  BY <1>1, <2>1, <2>2, PagesConstants, RingtoneStepKeeps DEF RingtonePart
<1>2. CASE which # "ringtone"  BY <1>2 DEF Next, vars, Step, RingtonePart
<1> QED  BY <1>1, <1>2

-----------------------------------------------------------------------------
(* The negotiation of an accepted call. *)

OfferNumbers == 0 .. Offers
OfferRecords == [offer : OfferNumbers, answer : OfferNumbers, ice : SUBSET Negotiation!Sides]
Callers == [sig : {"stable", "have-local-offer"}, mine : OfferNumbers, answer : OfferNumbers,
            applied : OfferNumbers, recovery : {"none", "servers", "offer"}]
Callees == [offer : OfferNumbers, at : {"none", "answer", "served"}]
Readings == [offer : OfferNumbers, answer : OfferNumbers, ice : BOOLEAN]
IceStates == {"none", "kept", "applied"}

NegotiationTyped ==
  /\ v1 \in OfferRecords /\ v2 \in Callers /\ v3 \in Callees
  /\ v4 \in [Negotiation!Sides -> Readings] /\ v5 \in [Negotiation!Sides -> IceStates]
  /\ 1 <= v1.offer /\ 1 <= v3.offer

\* The caller has the answer of its last offer, or still waits for it: an offer that is being
\* published (mine = 0) is the next one.
OfferOpen(s, c) ==
  /\ c.answer <= s.offer
  /\ c.answer # 0 => c.applied = c.answer
  /\ c.sig = "stable" \/ c.mine = 0 => c.answer = s.offer
  /\ c.mine = 0 => c.sig = "have-local-offer" /\ s.offer < Offers
  /\ c.sig = "have-local-offer" /\ c.mine # 0 => c.mine = s.offer /\ c.answer + 1 = s.offer

\* No side has read a number the record has not reached.
ReadsPast(s, r) == s.answer <= s.offer /\ \A x \in Negotiation!Sides : r[x].offer <= s.offer /\ r[x].answer <= s.offer

NegotiationInv == NegotiationTyped /\ OfferOpen(v1, v2) /\ ReadsPast(v1, v4)

LEMMA OfferFacts == Offers \in Nat /\ 1 <= Offers /\ OfferNumbers = 0 .. Offers /\ 0 \in OfferNumbers /\ 1 \in OfferNumbers
  BY PagesConstants DEF Negotiation!NegotiationAssumption, OfferNumbers

LEMMA NegotiationInitEstablishes == ASSUME PagesConstants, Negotiation!Init PROVE NegotiationInv
<1> USE OfferFacts DEF Negotiation!Init
<1>1. v1 \in OfferRecords /\ v2 \in Callers /\ v3 \in Callees  BY DEF OfferRecords, Callers, Callees
<1>2. Negotiation!NoRead \in Readings  BY DEF Readings, Negotiation!NoRead
<1>3. v4 \in [Negotiation!Sides -> Readings] /\ v5 \in [Negotiation!Sides -> IceStates]
  BY <1>2 DEF IceStates
<1>4. OfferOpen(v1, v2)  BY DEF OfferOpen
<1>5. ReadsPast(v1, v4)  BY DEF ReadsPast, Negotiation!NoRead
<1> QED  BY <1>1, <1>3, <1>4, <1>5 DEF NegotiationInv, NegotiationTyped

\* The caller's own steps.
LEMMA CallerKeeps ==
  ASSUME NegotiationInv, \/ Negotiation!Recover \/ Negotiation!OfferServed \/ Negotiation!OfferReplied
                         \/ \E ok \in BOOLEAN : Negotiation!ServersReplied(ok)
  PROVE  NegotiationInv'
<1> USE OfferFacts
<1>1. /\ v1 \in OfferRecords /\ v2 \in Callers /\ v4 \in [Negotiation!Sides -> Readings]
      /\ OfferOpen(v1, v2) /\ ReadsPast(v1, v4)
  BY DEF NegotiationInv, NegotiationTyped
<1>2. CASE Negotiation!OfferServed
  <2>1. v1.offer + 1 \in OfferNumbers /\ v2.mine = 0 /\ v2.sig = "have-local-offer" /\ v2.answer = v1.offer
    BY <1>1, <1>2 DEF Negotiation!OfferServed, OfferOpen, OfferRecords
  <2> DEFINE n == v1.offer + 1
  <2>2. n \in OfferNumbers /\ n > v1.offer /\ n # 0 /\ v1.offer \in Nat  BY <1>1, <2>1 DEF OfferRecords
  <2>3. v1' = [v1 EXCEPT !.offer = n] /\ v2' = [v2 EXCEPT !.mine = n] /\ UNCHANGED <<v3, v4, v5>>
    BY <1>2 DEF Negotiation!OfferServed
  <2> HIDE DEF n
  <2>4. /\ v1' \in OfferRecords /\ v1'.offer = n /\ v1'.answer = v1.answer
        /\ v2' \in Callers /\ v2'.mine = n /\ v2'.sig = v2.sig /\ v2'.answer = v2.answer /\ v2'.applied = v2.applied
    BY <1>1, <2>2, <2>3 DEF OfferRecords, Callers
  <2>5. OfferOpen(v1', v2')  BY <1>1, <2>1, <2>2, <2>4 DEF OfferOpen, n
  <2>6. ReadsPast(v1', v4')
    <3>1. v1.answer \in Nat /\ n \in Nat /\ \A x \in Negotiation!Sides : v4[x].offer \in Nat /\ v4[x].answer \in Nat
      BY <1>1, <2>2 DEF OfferRecords, Readings
    <3> QED  BY <1>1, <2>2, <2>3, <2>4, <3>1 DEF ReadsPast
  <2>7. 1 <= v1'.offer  BY <2>2, <2>4
  <2> QED  BY <2>3, <2>4, <2>5, <2>6, <2>7 DEF NegotiationInv, NegotiationTyped
<1>3. ASSUME Negotiation!Recover \/ Negotiation!OfferReplied PROVE NegotiationInv'
  <2>1. UNCHANGED <<v1, v3, v4, v5>> /\ \E r \in {"none", "servers"} : v2' = [v2 EXCEPT !.recovery = r]
    BY <1>3 DEF Negotiation!Recover, Negotiation!OfferReplied
  <2>2. v2' \in Callers /\ v2'.sig = v2.sig /\ v2'.mine = v2.mine /\ v2'.answer = v2.answer
      /\ v2'.applied = v2.applied
    BY <1>1, <2>1 DEF Callers
  <2>3. OfferOpen(v1', v2')  BY <1>1, <2>1, <2>2 DEF OfferOpen
  <2> QED  BY <1>1, <2>1, <2>2, <2>3 DEF NegotiationInv, NegotiationTyped
<1>4. ASSUME NEW ok \in BOOLEAN, Negotiation!ServersReplied(ok) PROVE NegotiationInv'
  <2>1. UNCHANGED <<v1, v3, v4, v5>>  BY <1>4 DEF Negotiation!ServersReplied
  <2>2. CASE ok /\ v2.sig = "stable" /\ v1.offer < Offers
    <3>1. v2' = [v2 EXCEPT !.recovery = "offer", !.sig = "have-local-offer", !.mine = 0]
      BY <1>4, <2>2 DEF Negotiation!ServersReplied
    <3>2. v2' \in Callers /\ v2'.sig = "have-local-offer" /\ v2'.mine = 0 /\ v2'.answer = v2.answer
          /\ v2'.applied = v2.applied
      BY <1>1, <3>1 DEF Callers
    <3>3. OfferOpen(v1', v2')  BY <1>1, <2>1, <2>2, <3>2 DEF OfferOpen
    <3> QED  BY <2>1, <3>2, <3>3, <1>1 DEF NegotiationInv, NegotiationTyped
  <2>3. CASE ~(ok /\ v2.sig = "stable" /\ v1.offer < Offers)
    <3>1. v2' = [v2 EXCEPT !.recovery = "none"]  BY <1>4, <2>3 DEF Negotiation!ServersReplied
    <3>2. v2' \in Callers /\ v2'.sig = v2.sig /\ v2'.mine = v2.mine /\ v2'.answer = v2.answer
          /\ v2'.applied = v2.applied
      BY <1>1, <3>1 DEF Callers
    <3>3. OfferOpen(v1', v2')  BY <1>1, <2>1, <3>2 DEF OfferOpen
    <3> QED  BY <2>1, <3>2, <3>3, <1>1 DEF NegotiationInv, NegotiationTyped
  <2> QED  BY <2>2, <2>3
<1> QED  BY <1>2, <1>3, <1>4

\* The candidates kept or applied are of no consequence here.
LEMMA IceKeeps ==
  ASSUME NegotiationInv, NEW s \in Negotiation!Sides, NEW r, NEW kept
  PROVE  [v5 EXCEPT ![s] = Negotiation!IceAfter(s, r, kept)] \in [Negotiation!Sides -> IceStates]
<1>1. v5 \in [Negotiation!Sides -> IceStates]  BY DEF NegotiationInv, NegotiationTyped
<1>2. Negotiation!IceAfter(s, r, kept) \in IceStates  BY <1>1 DEF Negotiation!IceAfter, IceStates
<1> QED  BY <1>1, <1>2

\* A reading that is forgotten.
LEMMA ForgetKeeps ==
  ASSUME NegotiationInv, NEW s \in Negotiation!Sides, NEW r, r = [v4 EXCEPT ![s] = Negotiation!NoRead]
  PROVE  r \in [Negotiation!Sides -> Readings] /\ ReadsPast(v1, r)
<1>1. v4 \in [Negotiation!Sides -> Readings] /\ ReadsPast(v1, v4) /\ v1 \in OfferRecords
  BY DEF NegotiationInv, NegotiationTyped
<1>2. Negotiation!NoRead \in Readings /\ Negotiation!NoRead.offer = 0 /\ Negotiation!NoRead.answer = 0
  BY OfferFacts DEF Readings, Negotiation!NoRead
<1>3. r \in [Negotiation!Sides -> Readings]  BY <1>1, <1>2
<1>4. 0 <= v1.offer  BY <1>1, OfferFacts DEF OfferRecords
<1>5. \A x \in Negotiation!Sides : r[x] = v4[x] \/ r[x] = Negotiation!NoRead  BY <1>1
<1> QED  BY <1>1, <1>2, <1>3, <1>4, <1>5 DEF ReadsPast

LEMMA CallerAppliesKeeps ==
  ASSUME NegotiationInv, NEW kept \in BOOLEAN, Negotiation!CallerApplies(kept) PROVE NegotiationInv'
<1> USE OfferFacts
<1> DEFINE r == v4["caller"]
<1>0. "caller" \in Negotiation!Sides  BY DEF Negotiation!Sides
<1>1. /\ v1 \in OfferRecords /\ v2 \in Callers /\ v4 \in [Negotiation!Sides -> Readings] /\ r \in Readings
      /\ OfferOpen(v1, v2) /\ ReadsPast(v1, v4) /\ r.offer <= v1.offer /\ r.answer <= v1.offer
  BY <1>0 DEF NegotiationInv, NegotiationTyped, ReadsPast
<1>2. /\ UNCHANGED <<v1, v3>> /\ v4' = [v4 EXCEPT !["caller"] = Negotiation!NoRead]
      /\ v5' = [v5 EXCEPT !["caller"] = Negotiation!IceAfter("caller", r, kept)]
      /\ v2' = IF Negotiation!Answers(r)
               THEN [v2 EXCEPT !.sig = "stable", !.answer = r.answer, !.applied = v2.mine] ELSE v2
  BY DEF Negotiation!CallerApplies
<1> HIDE DEF r
<1>3. v4' \in [Negotiation!Sides -> Readings] /\ ReadsPast(v1, v4')  BY <1>0, <1>2, ForgetKeeps
<1>4. v5' \in [Negotiation!Sides -> IceStates]  BY <1>0, <1>2, IceKeeps
<1>5. v2' \in Callers /\ OfferOpen(v1, v2')
  <2>1. CASE Negotiation!Answers(r)
    <3>1. v2.sig = "have-local-offer" /\ r.answer = r.offer /\ r.answer > v2.answer
      BY <2>1 DEF Negotiation!Answers
    <3>2. v1.offer \in Nat /\ r.answer \in OfferNumbers /\ v2.answer \in Nat /\ v2.mine \in OfferNumbers
      BY <1>1 DEF OfferRecords, Readings, Callers
    <3>3. v2.mine # 0  BY <1>1, <3>1, <3>2 DEF OfferOpen
    <3>4. r.answer = v1.offer /\ v2.mine = v1.offer  BY <1>1, <3>1, <3>2, <3>3 DEF OfferOpen
    <3>5. v2' \in Callers /\ v2'.sig = "stable" /\ v2'.answer = r.answer /\ v2'.applied = v2.mine
          /\ v2'.mine = v2.mine
      BY <1>1, <1>2, <2>1, <3>2 DEF Callers
    <3> QED  BY <3>2, <3>3, <3>4, <3>5 DEF OfferOpen
  <2>2. CASE ~Negotiation!Answers(r)  BY <1>1, <1>2, <2>2
  <2> QED  BY <2>1, <2>2
<1> QED  BY <1>2, <1>3, <1>4, <1>5 DEF NegotiationInv, NegotiationTyped

LEMMA CalleeAppliesKeeps ==
  ASSUME NegotiationInv, NEW kept \in BOOLEAN, Negotiation!CalleeApplies(kept) PROVE NegotiationInv'
<1> USE OfferFacts
<1> DEFINE r == v4["callee"]
<1>0. "callee" \in Negotiation!Sides  BY DEF Negotiation!Sides
<1>1. /\ v3 \in Callees /\ v4 \in [Negotiation!Sides -> Readings] /\ r \in Readings /\ ReadsPast(v1, v4)
  BY <1>0 DEF NegotiationInv, NegotiationTyped
<1>2. /\ UNCHANGED <<v1, v2>>
      /\ v5' = [v5 EXCEPT !["callee"] = Negotiation!IceAfter("callee", r, kept)]
      /\ v3' = IF r.offer > v3.offer THEN [v3 EXCEPT !.offer = r.offer, !.at = "answer"] ELSE v3
      /\ v4' = v4 \/ v4' = [v4 EXCEPT !["callee"] = Negotiation!NoRead]
  BY DEF Negotiation!CalleeApplies
<1> HIDE DEF r
<1>3. v4' \in [Negotiation!Sides -> Readings] /\ ReadsPast(v1, v4')  BY <1>0, <1>1, <1>2, ForgetKeeps
<1>4. v5' \in [Negotiation!Sides -> IceStates]  BY <1>0, <1>2, IceKeeps
<1>5. 1 <= v3.offer /\ v3.offer \in Nat /\ r.offer \in OfferNumbers
  BY <1>1 DEF NegotiationInv, NegotiationTyped, Callees, Readings
<1>6. v3' \in Callees /\ 1 <= v3'.offer
  <2>1. CASE r.offer > v3.offer
    <3>1. v3' \in Callees /\ v3'.offer = r.offer  BY <1>1, <1>2, <1>5, <2>1 DEF Callees
    <3> QED  BY <1>5, <2>1, <3>1
  <2>2. CASE ~(r.offer > v3.offer)  BY <1>1, <1>2, <1>5, <2>2
  <2> QED  BY <2>1, <2>2
<1> QED  BY <1>2, <1>3, <1>4, <1>6 DEF NegotiationInv, NegotiationTyped

\* What the sides read, answer and send.
LEMMA ReadKeeps ==
  ASSUME NegotiationInv, \/ Negotiation!AnswerServed \/ Negotiation!AnswerReplied
                         \/ \E s \in Negotiation!Sides : Negotiation!Read(s) \/ Negotiation!CandidateSent(s)
  PROVE  NegotiationInv'
<1> USE OfferFacts
<1>1. /\ v1 \in OfferRecords /\ v3 \in Callees /\ v4 \in [Negotiation!Sides -> Readings]
      /\ OfferOpen(v1, v2) /\ ReadsPast(v1, v4) /\ v1.offer \in OfferNumbers /\ v1.answer \in OfferNumbers
      /\ 1 <= v1.offer
  BY DEF NegotiationInv, NegotiationTyped, OfferRecords
<1>2. CASE Negotiation!AnswerServed
  <2>1. /\ v1' = [v1 EXCEPT !.answer = v1.offer] /\ v3' = [v3 EXCEPT !.at = "served"] /\ UNCHANGED <<v2, v4, v5>>
    BY <1>2 DEF Negotiation!AnswerServed
  <2>2. v1' \in OfferRecords /\ v1'.offer = v1.offer /\ v1'.answer = v1.offer  BY <1>1, <2>1 DEF OfferRecords
  <2>3. v3' \in Callees /\ v3'.offer = v3.offer  BY <1>1, <2>1 DEF Callees
  <2>4. OfferOpen(v1', v2') /\ ReadsPast(v1', v4')  BY <1>1, <2>1, <2>2 DEF OfferOpen, ReadsPast
  <2> QED  BY <2>1, <2>2, <2>3, <2>4 DEF NegotiationInv, NegotiationTyped
<1>3. CASE Negotiation!AnswerReplied
  <2>1. /\ v3' = [v3 EXCEPT !.at = "none"] /\ UNCHANGED <<v1, v2, v5>>
        /\ v4' = [v4 EXCEPT !["callee"] = Negotiation!NoRead] /\ "callee" \in Negotiation!Sides
    BY <1>3 DEF Negotiation!AnswerReplied, Negotiation!Sides
  <2>2. v3' \in Callees /\ v3'.offer = v3.offer  BY <1>1, <2>1 DEF Callees
  <2>3. v4' \in [Negotiation!Sides -> Readings] /\ ReadsPast(v1, v4')  BY <2>1, ForgetKeeps
  <2> QED  BY <2>1, <2>2, <2>3 DEF NegotiationInv, NegotiationTyped
<1>4. ASSUME NEW s \in Negotiation!Sides, Negotiation!Read(s) PROVE NegotiationInv'
  <2> DEFINE i == \E t \in v1.ice : t # s
             r == [offer |-> v1.offer, answer |-> v1.answer, ice |-> i]
  <2>1. v4' = [v4 EXCEPT ![s] = r] /\ UNCHANGED <<v1, v2, v3, v5>>  BY <1>4 DEF Negotiation!Read
  <2>2. i \in BOOLEAN  OBVIOUS
  <2> HIDE DEF i
  <2>3. r \in Readings /\ r.offer = v1.offer /\ r.answer = v1.answer  BY <1>1, <2>2 DEF Readings
  <2> HIDE DEF r
  <2>4. v4' \in [Negotiation!Sides -> Readings] /\ \A x \in Negotiation!Sides : v4'[x] = v4[x] \/ v4'[x] = r
    BY <1>1, <2>1, <2>3
  <2>5. ReadsPast(v1, v4')
    <3>1. v1.offer <= v1.offer  BY <1>1
    <3> QED  BY <1>1, <2>3, <2>4, <3>1 DEF ReadsPast
  <2> QED  BY <2>1, <2>4, <2>5 DEF NegotiationInv, NegotiationTyped
<1>5. ASSUME NEW s \in Negotiation!Sides, Negotiation!CandidateSent(s) PROVE NegotiationInv'
  <2>1. v1' = [v1 EXCEPT !.ice = v1.ice \cup {s}] /\ UNCHANGED <<v2, v3, v4, v5>>
    BY <1>5 DEF Negotiation!CandidateSent
  <2>2. v1' \in OfferRecords /\ v1'.offer = v1.offer /\ v1'.answer = v1.answer  BY <1>1, <2>1 DEF OfferRecords
  <2>3. OfferOpen(v1', v2') /\ ReadsPast(v1', v4')  BY <1>1, <2>1, <2>2 DEF OfferOpen, ReadsPast
  <2> QED  BY <2>1, <2>2, <2>3 DEF NegotiationInv, NegotiationTyped
<1> QED  BY <1>2, <1>3, <1>4, <1>5

LEMMA NegotiationStepKeeps ==
  ASSUME PagesConstants, NegotiationInv, [Negotiation!Next]_Negotiation!vars PROVE NegotiationInv'
<1>1. CASE UNCHANGED Negotiation!vars
  BY <1>1 DEF Negotiation!vars, NegotiationInv, NegotiationTyped
<1>2. CASE Negotiation!Next
  BY <1>2, CallerKeeps, CallerAppliesKeeps, CalleeAppliesKeeps, ReadKeeps DEF Negotiation!Next
<1> QED  BY <1>1, <1>2

NegotiationPart == which = "negotiation" => NegotiationInv

LEMMA NegotiationStart == Init => NegotiationPart
  BY PagesConstants, NegotiationInitEstablishes DEF Init, NegotiationPart

LEMMA NegotiationStep == NegotiationPart /\ [Next]_vars => NegotiationPart'
<1> SUFFICES ASSUME NegotiationPart, [Next]_vars PROVE NegotiationPart'
  OBVIOUS
<1>1. CASE which = "negotiation"
  <2>1. [Negotiation!Next]_Negotiation!vars  BY <1>1 DEF Next, vars, Step, Negotiation!vars
  <2>2. which' = "negotiation"  BY <1>1 DEF Next, vars, Step
  <2> QED  BY <1>1, <2>1, <2>2, PagesConstants, NegotiationStepKeeps DEF NegotiationPart
<1>2. CASE which # "negotiation"  BY <1>2 DEF Next, vars, Step, NegotiationPart
<1> QED  BY <1>1, <1>2

-----------------------------------------------------------------------------
(* The assistant's poll and its refreshes. *)

PollPages == [hidden : BOOLEAN, left : BOOLEAN, timer : BOOLEAN, messages : BOOLEAN, me : BOOLEAN, turns : 0 .. Turns]
BeatStates == [at : {"none", "sent", "over"}, visible : BOOLEAN]
Heards == [visible : BOOLEAN, beat : 0 .. PollBeats]
LinkIntents == [waits : BOOLEAN, done : 0 .. 2]
PolledSteps == {"polled", "polled_lists", "polled_intents"}
RefreshSteps == PolledSteps \cup {"none", "chosen", "lists", "intents"}

PollTyped ==
  /\ v1 \in PollPages /\ v2 \in {"none", "summary", "calls", "network"}
  /\ v3 \in [Poll!Refreshes -> RefreshSteps] /\ v4 \in [Poll!Beats -> BeatStates]
  /\ v5 \in Heards /\ v6 \in BOOLEAN /\ v7 \in [Poll!Intents -> LinkIntents]

\* The poll waits for a refresh exactly when there is one of its own, and never for two.
OwnRefresh(p, rs) ==
  /\ p = "network" <=> \E r \in Poll!Refreshes : rs[r] \in PolledSteps
  /\ \A r, s \in Poll!Refreshes : rs[r] \in PolledSteps /\ rs[s] \in PolledSteps => r = s

\* An intent that waits was not carried out.
TakenOnce(is) == \A i \in Poll!Intents : is[i].done <= 1 /\ (is[i].waits => is[i].done = 0)

PollInv == PollTyped /\ OwnRefresh(v2, v3) /\ TakenOnce(v7)

LEMMA PollInitEstablishes == ASSUME PagesConstants, Poll!Init PROVE PollInv
<1>0. PollBeats \in Nat /\ PollRefreshes \in Nat /\ Turns \in Nat  BY DEF PagesConstants, Poll!PollAssumption
<1> USE <1>0 DEF Poll!Init
<1>1. v1 \in PollPages /\ v5 \in Heards  BY DEF PollPages, Heards
<1>2. Poll!NoBeat \in BeatStates  BY DEF Poll!NoBeat, BeatStates
<1>3. v3 \in [Poll!Refreshes -> RefreshSteps] /\ v4 \in [Poll!Beats -> BeatStates]  BY <1>2 DEF RefreshSteps
<1>4. v7 \in [Poll!Intents -> LinkIntents] /\ TakenOnce(v7)
  <2>1. PICK w \in BOOLEAN : v7 = [i \in Poll!Intents |-> [waits |-> w, done |-> 0]]  OBVIOUS
  <2>2. [waits |-> w, done |-> 0] \in LinkIntents  BY DEF LinkIntents
  <2> QED  BY <2>1, <2>2 DEF TakenOnce
<1>5. OwnRefresh(v2, v3)  BY DEF OwnRefresh, PolledSteps
<1> QED  BY <1>1, <1>3, <1>4, <1>5 DEF PollInv, PollTyped

\* Heartbeats change nothing but themselves.
LEMMA BeatKeeps ==
  ASSUME PollInv, NEW visible \in BOOLEAN, Poll!Beat(visible) \/ v4' = [v4 EXCEPT ![Poll!Sent + 1] = [at |-> "sent", visible |-> visible]]
  PROVE  v4' \in [Poll!Beats -> BeatStates]
<1>1. v4 \in [Poll!Beats -> BeatStates]  BY DEF PollInv, PollTyped
<1>2. [at |-> "sent", visible |-> visible] \in BeatStates  BY DEF BeatStates
<1>3. v4' = v4 \/ \E n : v4' = [v4 EXCEPT ![n] = [at |-> "sent", visible |-> visible]]  BY DEF Poll!Beat
<1> QED  BY <1>1, <1>2, <1>3

\* Steps that leave the refreshes and the intents alone, or start the poll again.
LEMMA PollQuietKeeps ==
  ASSUME PollInv, v1' \in PollPages, v4' \in [Poll!Beats -> BeatStates], v5' \in Heards, v6' \in BOOLEAN,
         v3' = v3, v7' = v7, v2' = v2 \/ (v2 # "network" /\ v2' \in {"none", "summary", "calls"})
  PROVE  PollInv'
<1>1. v2' \in {"none", "summary", "calls", "network"} /\ (v2' = "network" <=> v2 = "network")
  BY DEF PollInv, PollTyped
<1>2. OwnRefresh(v2', v3')  BY <1>1 DEF PollInv, OwnRefresh
<1> QED  BY <1>1, <1>2 DEF PollInv, PollTyped

LEMMA PollTurnKeeps ==
  ASSUME PagesConstants, PollInv, Poll!Hides \/ Poll!Shows \/ Poll!Leaves \/ Poll!Returns PROVE PollInv'
<1>0. Turns \in Nat  BY DEF PagesConstants, Poll!PollAssumption
<1>1. v1 \in PollPages /\ v1.turns \in 0 .. Turns /\ v4 \in [Poll!Beats -> BeatStates]
  BY DEF PollInv, PollTyped, PollPages
<1>2. UNCHANGED <<v3, v5, v6, v7>> /\ v1.turns < Turns
  BY DEF Poll!Hides, Poll!Shows, Poll!Leaves, Poll!Returns, Poll!Turn
<1>3. \E h, l, t \in BOOLEAN : v1' = [[v1 EXCEPT !.hidden = h, !.left = l, !.timer = t] EXCEPT !.turns = v1.turns + 1]
  <2>1. v1 = [v1 EXCEPT !.hidden = v1.hidden, !.left = v1.left, !.timer = v1.timer]  BY <1>1 DEF PollPages
  <2>2. v1.hidden \in BOOLEAN /\ v1.left \in BOOLEAN /\ v1.timer \in BOOLEAN  BY <1>1 DEF PollPages
  <2>3. CASE Poll!Hides
    <3>1. v1' = [[v1 EXCEPT !.hidden = TRUE, !.left = v1.left, !.timer = v1.timer] EXCEPT !.turns = v1.turns + 1]
      BY <1>1, <2>3 DEF Poll!Hides, Poll!Turn, PollPages
    <3> QED  BY <2>2, <3>1
  <2>4. CASE Poll!Shows
    <3>1. v1' = [[v1 EXCEPT !.hidden = FALSE, !.left = v1.left, !.timer = v1.timer] EXCEPT !.turns = v1.turns + 1]
      BY <1>1, <2>4 DEF Poll!Shows, Poll!Turn, PollPages
    <3> QED  BY <2>2, <3>1
  <2>5. CASE Poll!Leaves
    <3>1. v1' = [[v1 EXCEPT !.hidden = TRUE, !.left = TRUE, !.timer = FALSE] EXCEPT !.turns = v1.turns + 1]
      BY <1>1, <2>5 DEF Poll!Leaves, Poll!Turn, PollPages
    <3> QED  BY <2>2, <3>1
  <2>6. CASE Poll!Returns
    <3>1. v1' = [[v1 EXCEPT !.hidden = FALSE, !.left = FALSE, !.timer = TRUE] EXCEPT !.turns = v1.turns + 1]
      BY <1>1, <2>6 DEF Poll!Returns, Poll!Turn, PollPages
    <3> QED  BY <2>2, <3>1
  <2> QED  BY <2>3, <2>4, <2>5, <2>6
<1>4. v1.turns + 1 \in 0 .. Turns  BY <1>0, <1>1, <1>2
<1>5. v1' \in PollPages
  <2> DEFINE n == v1.turns + 1
  <2>1. n \in 0 .. Turns /\ \E h, l, t \in BOOLEAN : v1' = [[v1 EXCEPT !.hidden = h, !.left = l, !.timer = t] EXCEPT !.turns = n]
    BY <1>3, <1>4
  <2> HIDE DEF n
  <2> QED  BY <1>1, <2>1 DEF PollPages
<1>6. v4' \in [Poll!Beats -> BeatStates]
  <2>1. Poll!Beat(FALSE) \/ v4' = v4  BY DEF Poll!Hides, Poll!Shows, Poll!Leaves, Poll!Returns
  <2> QED  BY <1>1, <2>1, BeatKeeps
<1>7. v2' = v2 \/ (v2 # "network" /\ v2' \in {"none", "summary", "calls"})
  <2>1. v2' = v2 \/ v2' = IF v2 = "none" THEN "summary" ELSE v2
    BY DEF Poll!Hides, Poll!Shows, Poll!Leaves, Poll!Returns
  <2> QED  BY <2>1
<1> QED  BY <1>2, <1>5, <1>6, <1>7, PollQuietKeeps DEF PollInv, PollTyped

LEMMA PollTickKeeps ==
  ASSUME PollInv, \/ Poll!PollDue \/ Poll!OtherPanelChosen
                  \/ \E b \in Poll!Beats : Poll!BeatServed(b) \/ Poll!BeatFailed(b)
                  \/ \E ok, due \in BOOLEAN : Poll!PollSummary(ok, due)
  PROVE  PollInv'
<1>1. v1 \in PollPages /\ v4 \in [Poll!Beats -> BeatStates] /\ v5 \in Heards /\ v6 \in BOOLEAN
  BY DEF PollInv, PollTyped
<1>2. CASE Poll!PollDue \/ Poll!OtherPanelChosen
  <2>1. v1' \in PollPages /\ v3' = v3 /\ v4' = v4 /\ v5' = v5 /\ v6' = v6 /\ v7' = v7
    BY <1>1, <1>2 DEF Poll!PollDue, Poll!OtherPanelChosen, PollPages
  <2>2. v2' = v2 \/ (v2 # "network" /\ v2' \in {"none", "summary", "calls"})
    BY <1>2 DEF Poll!PollDue, Poll!OtherPanelChosen
  <2> QED  BY <1>1, <2>1, <2>2, PollQuietKeeps
<1>3. ASSUME NEW b \in Poll!Beats, Poll!BeatServed(b) \/ Poll!BeatFailed(b) PROVE PollInv'
  <2>1. v4' = [v4 EXCEPT ![b].at = "over"] /\ UNCHANGED <<v1, v2, v3, v7>> /\ v6' \in BOOLEAN
    <3>1. (b < v5.beat) \in BOOLEAN  OBVIOUS
    <3> QED  BY <1>1, <1>3 DEF Poll!BeatServed, Poll!BeatFailed
  <2>2. v4[b] \in BeatStates  BY <1>1
  <2>3. [v4[b] EXCEPT !.at = "over"] \in BeatStates  BY <2>2 DEF BeatStates
  <2>4. v4' \in [Poll!Beats -> BeatStates]  BY <1>1, <2>1, <2>3
  <2>5. v5' \in Heards
    <3>1. v5' = v5 \/ v5' = [visible |-> v4[b].visible, beat |-> b]
      BY <1>3 DEF Poll!BeatServed, Poll!BeatFailed
    <3>2. v4[b].visible \in BOOLEAN /\ b \in 0 .. PollBeats  BY <2>2 DEF BeatStates, Poll!Beats
    <3> QED  BY <1>1, <3>1, <3>2 DEF Heards
  <2> QED  BY <1>1, <2>1, <2>4, <2>5, PollQuietKeeps
<1>4. ASSUME NEW ok \in BOOLEAN, NEW due \in BOOLEAN, Poll!PollSummary(ok, due) PROVE PollInv'
  <2>1. v2 = "summary" /\ v2' \in {"none", "calls"} /\ UNCHANGED <<v3, v5, v6, v7>>
    BY <1>4 DEF Poll!PollSummary
  <2>2. v1' \in PollPages
    <3> DEFINE m == v1.me \/ ok
    <3>1. m \in BOOLEAN /\ v1' = [v1 EXCEPT !.me = m]  BY <1>4 DEF Poll!PollSummary
    <3> HIDE DEF m
    <3> QED  BY <1>1, <3>1 DEF PollPages
  <2>3. v4' \in [Poll!Beats -> BeatStates]
    <3>1. v4' = v4 \/ Poll!Beat(~v1.hidden)  BY <1>4 DEF Poll!PollSummary
    <3>2. (~v1.hidden) \in BOOLEAN  OBVIOUS
    <3> QED  BY <1>1, <3>1, <3>2, BeatKeeps
  <2> QED  BY <1>1, <2>1, <2>2, <2>3, PollQuietKeeps
<1> QED  BY <1>2, <1>3, <1>4

\* One refresh goes a step further or is over; the poll's own stays its own.
LEMMA OneRefreshKeeps ==
  ASSUME PollInv, NEW r \in Poll!Refreshes, NEW step \in RefreshSteps, v3' = [v3 EXCEPT ![r] = step],
         \/ v2' = v2 /\ (v3[r] \in PolledSteps <=> step \in PolledSteps)
         \/ v3[r] \in PolledSteps /\ step \notin PolledSteps /\ v2' = "none"
         \/ v2 = "calls" /\ v2' = "network" /\ step \in PolledSteps
  PROVE  /\ v3' \in [Poll!Refreshes -> RefreshSteps] /\ OwnRefresh(v2', v3')
         /\ v2' \in {"none", "summary", "calls", "network"}
<1>1. v3 \in [Poll!Refreshes -> RefreshSteps] /\ OwnRefresh(v2, v3) /\ v2 \in {"none", "summary", "calls", "network"}
  BY DEF PollInv, PollTyped
<1>2. v3'[r] = step /\ \A s \in Poll!Refreshes : s # r => v3'[s] = v3[s]  BY <1>1
<1>3. v3' \in [Poll!Refreshes -> RefreshSteps]  BY <1>1
<1>4. OwnRefresh(v2', v3')  BY <1>1, <1>2 DEF OwnRefresh
<1> QED  BY <1>1, <1>3, <1>4

LEMMA RefreshKeeps ==
  ASSUME PollInv, \/ Poll!PanelChosen \/ \E due \in BOOLEAN : Poll!PollCalls(due)
                  \/ \E r \in Poll!Refreshes : \/ Poll!RefreshBeats(r) \/ Poll!RefreshFails(r)
                                               \/ Poll!ListsLoaded(r) \/ Poll!RefreshOver(r)
  PROVE  PollInv'
<1>1. /\ v1 \in PollPages /\ v4 \in [Poll!Beats -> BeatStates] /\ v5 \in Heards /\ v6 \in BOOLEAN
      /\ v3 \in [Poll!Refreshes -> RefreshSteps] /\ v7 \in [Poll!Intents -> LinkIntents] /\ TakenOnce(v7)
  BY DEF PollInv, PollTyped
<1>2. CASE Poll!PanelChosen
  <2>1. v1' \in PollPages /\ UNCHANGED <<v2, v4, v5, v6, v7>>  BY <1>1, <1>2 DEF Poll!PanelChosen, PollPages
  <2>2. CASE v1.hidden
    <3>1. v3' = v3  BY <1>2, <2>2 DEF Poll!PanelChosen
    <3> QED  BY <1>1, <2>1, <3>1, PollQuietKeeps
  <2>3. CASE ~v1.hidden
    <3>1. PICK r \in Poll!Refreshes : v3[r] = "none" /\ v3' = [v3 EXCEPT ![r] = "chosen"]
      BY <1>2, <2>3 DEF Poll!PanelChosen
    <3>2. "chosen" \in RefreshSteps \ PolledSteps /\ "none" \notin PolledSteps  BY DEF RefreshSteps, PolledSteps
    <3> QED  BY <1>1, <2>1, <3>1, <3>2, OneRefreshKeeps DEF PollInv, PollTyped
  <2> QED  BY <2>2, <2>3
<1>3. ASSUME NEW due \in BOOLEAN, Poll!PollCalls(due) PROVE PollInv'
  <2>1. UNCHANGED <<v1, v4, v5, v6, v7>> /\ v2 = "calls"  BY <1>3 DEF Poll!PollCalls
  <2>2. CASE ~v1.hidden /\ v1.messages /\ due
    <3>1. PICK r \in Poll!Refreshes : v2' = "network" /\ v3' = [v3 EXCEPT ![r] = "polled"]
      BY <1>3, <2>2 DEF Poll!PollCalls
    <3>2. "polled" \in PolledSteps /\ "polled" \in RefreshSteps  BY DEF RefreshSteps, PolledSteps
    <3> QED  BY <1>1, <2>1, <3>1, <3>2, OneRefreshKeeps DEF PollInv, PollTyped
  <2>3. CASE ~(~v1.hidden /\ v1.messages /\ due)
    <3>1. v2' = "none" /\ v3' = v3 /\ v2 # "network"  BY <1>3, <2>1, <2>3 DEF Poll!PollCalls
    <3> QED  BY <1>1, <2>1, <3>1, PollQuietKeeps
  <2> QED  BY <2>2, <2>3
<1>4. ASSUME NEW r \in Poll!Refreshes, Poll!RefreshBeats(r) PROVE PollInv'
  <2>1. /\ v1' = [v1 EXCEPT !.me = TRUE] /\ UNCHANGED <<v2, v5, v6, v7>> /\ v3[r] \in {"polled", "chosen"}
        /\ v3' = [v3 EXCEPT ![r] = IF v3[r] = "polled" THEN "polled_lists" ELSE "lists"]
    BY <1>4 DEF Poll!RefreshBeats
  <2>2. v1' \in PollPages  BY <1>1, <2>1 DEF PollPages
  <2>3. v4' \in [Poll!Beats -> BeatStates]
    <3>1. \/ v4' = v4 \/ Poll!Beat(~v1.hidden)
          \/ v4' = [v4 EXCEPT ![Poll!Sent + 1] = [at |-> "sent", visible |-> ~v1.hidden]]
      BY <1>4 DEF Poll!RefreshBeats
    <3>2. (~v1.hidden) \in BOOLEAN  OBVIOUS
    <3> QED  BY <1>1, <3>1, <3>2, BeatKeeps
  <2>4. PICK step \in RefreshSteps : v3' = [v3 EXCEPT ![r] = step] /\ (v3[r] \in PolledSteps <=> step \in PolledSteps)
    <3>1. CASE v3[r] = "polled"  BY <2>1, <3>1 DEF RefreshSteps, PolledSteps
    <3>2. CASE v3[r] = "chosen"  BY <2>1, <3>2 DEF RefreshSteps, PolledSteps
    <3> QED  BY <2>1, <3>1, <3>2
  <2> QED  BY <1>1, <2>1, <2>2, <2>3, <2>4, OneRefreshKeeps DEF PollInv, PollTyped
<1>5. ASSUME NEW r \in Poll!Refreshes, Poll!RefreshFails(r) \/ Poll!RefreshOver(r) PROVE PollInv'
  <2>1. /\ UNCHANGED <<v1, v4, v5, v6, v7>> /\ v3' = [v3 EXCEPT ![r] = "none"]
        /\ v2' = IF v3[r] \in PolledSteps THEN "none" ELSE v2
    BY <1>5 DEF Poll!RefreshFails, Poll!RefreshOver, Poll!Over, PolledSteps
  <2>2. "none" \in RefreshSteps \ PolledSteps  BY DEF RefreshSteps, PolledSteps
  <2> QED  BY <1>1, <2>1, <2>2, OneRefreshKeeps DEF PollInv, PollTyped
<1>6. ASSUME NEW r \in Poll!Refreshes, Poll!ListsLoaded(r) PROVE PollInv'
  <2>1. /\ UNCHANGED <<v1, v2, v4, v5, v6, v7>> /\ v3[r] \in {"lists", "polled_lists"}
        /\ v3' = [v3 EXCEPT ![r] = IF v3[r] = "lists" THEN "intents" ELSE "polled_intents"]
    BY <1>6 DEF Poll!ListsLoaded
  <2>2. PICK step \in RefreshSteps : v3' = [v3 EXCEPT ![r] = step] /\ (v3[r] \in PolledSteps <=> step \in PolledSteps)
    <3>1. CASE v3[r] = "lists"  BY <2>1, <3>1 DEF RefreshSteps, PolledSteps
    <3>2. CASE v3[r] = "polled_lists"  BY <2>1, <3>2 DEF RefreshSteps, PolledSteps
    <3> QED  BY <2>1, <3>1, <3>2
  <2> QED  BY <1>1, <2>1, <2>2, OneRefreshKeeps DEF PollInv, PollTyped
<1> QED  BY <1>2, <1>3, <1>4, <1>5, <1>6

LEMMA IntentKeeps ==
  ASSUME PollInv, NEW r \in Poll!Refreshes, Poll!IntentCarriedOut(r) PROVE PollInv'
<1>1. v7 \in [Poll!Intents -> LinkIntents] /\ TakenOnce(v7)  BY DEF PollInv, PollTyped
<1>2. UNCHANGED <<v1, v2, v3, v4, v5, v6>>  BY DEF Poll!IntentCarriedOut
<1>3. PICK i \in Poll!Intents : v7[i].waits /\ v7' = [v7 EXCEPT ![i].waits = FALSE, ![i].done = v7[i].done + 1]
  BY <1>1 DEF Poll!IntentCarriedOut, Poll!Taken
<1> DEFINE t == [v7[i] EXCEPT !.waits = FALSE, !.done = v7[i].done + 1]
<1>4. v7[i] \in LinkIntents /\ v7[i].done = 0  BY <1>1, <1>3 DEF TakenOnce
<1>5. t \in LinkIntents /\ ~t.waits /\ t.done = 1
  <2>1. v7[i].done + 1 = 1  BY <1>4
  <2> DEFINE x == v7[i]
  <2>2. t = [x EXCEPT !.waits = FALSE, !.done = 1] /\ x \in [waits : BOOLEAN, done : 0 .. 2]
    BY <1>4, <2>1 DEF LinkIntents
  <2> HIDE DEF t, x
  <2>3. t \in [waits : BOOLEAN, done : 0 .. 2]
    <3>1. FALSE \in BOOLEAN /\ 1 \in 0 .. 2  OBVIOUS
    <3> QED  BY <2>2, <3>1
  <2>4. ~t.waits /\ t.done = 1  BY <2>2
  <2> QED  BY <2>3, <2>4 DEF LinkIntents
<1>6. v7' = [v7 EXCEPT ![i] = t]  BY <1>1, <1>3
<1> HIDE DEF t
<1>7. v7' \in [Poll!Intents -> LinkIntents] /\ TakenOnce(v7')  BY <1>1, <1>5, <1>6 DEF TakenOnce
<1> QED  BY <1>2, <1>7 DEF PollInv, PollTyped

LEMMA PollStepKeeps == ASSUME PagesConstants, PollInv, [Poll!Next]_Poll!vars PROVE PollInv'
<1>1. CASE UNCHANGED Poll!vars  BY <1>1 DEF Poll!vars, PollInv, PollTyped
<1>2. CASE Poll!Next
  BY <1>2, PollTurnKeeps, PollTickKeeps, RefreshKeeps, IntentKeeps DEF Poll!Next
<1> QED  BY <1>1, <1>2

PollPart == which = "poll" => PollInv

LEMMA PollStart == Init => PollPart
  BY PagesConstants, PollInitEstablishes DEF Init, PollPart

LEMMA PollStep == PollPart /\ [Next]_vars => PollPart'
<1> SUFFICES ASSUME PollPart, [Next]_vars PROVE PollPart'
  OBVIOUS
<1>1. CASE which = "poll"
  <2>1. [Poll!Next]_Poll!vars  BY <1>1 DEF Next, vars, Step, Poll!vars
  <2>2. which' = "poll"  BY <1>1 DEF Next, vars, Step
  <2> QED  BY <1>1, <2>1, <2>2, PagesConstants, PollStepKeeps DEF PollPart
<1>2. CASE which # "poll"  BY <1>2 DEF Next, vars, Step, PollPart
<1> QED  BY <1>1, <1>2

-----------------------------------------------------------------------------
(* The assistant page's own calls. *)

LegacyNumbers == 0 .. Attempts
LegacyAts == {"none", "gum", "servers", "described", "asked", "created", "accepted", "flush", "up", "over"}
CallPages == [cur : LegacyNumbers, active : Legacy!Opt, incoming : CallsIn \cup {None}, setup : BOOLEAN,
              peer : LegacyNumbers, ring : Legacy!Opt]
CallAtts == [at : LegacyAts, call : Legacy!Opt, life : {"none", "active", "over"}, fresh : BOOLEAN,
             cleaned : BOOLEAN, mic : BOOLEAN]
CallRefreshes == [at : {"none", "asked", "served"}, again : BOOLEAN, fresh : BOOLEAN, status : Legacy!Statuses]
CallShows == [call : Legacy!Opt, fresh : BOOLEAN]
CallPolls == [at : {"none", "asked", "served", "follows", "clears"}, list : SUBSET CallsIn, call : Legacy!Opt]
CallAsks == [kind : {"end", "reject"}, call : Legacy!Calls]

\* What an attempt's request has created, or still runs for, is not over at the page.
AttemptRow(x, active, over) ==
  /\ x.at = "created" => /\ x.call \in CallsOut /\ x.call # active
                         /\ x.life = "active" => x.call \notin over
  /\ x.at = "accepted" => x.call \in CallsIn
  /\ x.fresh => x.call \notin over

AttemptRows(a, p, over) == \A g \in Legacy!Atts : AttemptRow(a[g], p.active, over)
MicRows(a, p) == \A g \in Legacy!Atts : a[g].mic => a[g].at = "servers" \/ p.peer = g

\* A call made is one attempt's.
OneMaker(a) == \A g, h \in Legacy!Atts : a[g].call = a[h].call /\ a[g].call \in CallsOut => g = h

\* The peer is the current attempt's, which has its servers.
PeerCurrent(a, p) == p.peer # 0 => p.peer = p.cur /\ a[p.peer].at \notin {"none", "gum", "servers"}

\* What ended is not shown.
EndedHidden(p, over) == \A k \in over : p.active # k /\ p.incoming # k /\ p.ring # k

\* The server knows the calls the page knows.
KnownCalls(s, a, p, over) ==
  \A k \in Legacy!Calls : s[k] = "none" =>
    k \notin over /\ p.active # k /\ p.incoming # k /\ \A g \in Legacy!Atts : a[g].call # k
KnownReplies(s, r, po, q) ==
  \A k \in Legacy!Calls : s[k] = "none" => k \notin po.list /\ r[k].status = "none" /\ \A x \in q : x.call # k

LegacyCore(s, p, a, over) ==
  /\ p \in CallPages /\ a \in [Legacy!Atts -> CallAtts] /\ over \subseteq Legacy!Calls
  /\ AttemptRows(a, p, over) /\ MicRows(a, p) /\ OneMaker(a) /\ PeerCurrent(a, p)
  /\ EndedHidden(p, over) /\ KnownCalls(s, a, p, over)

LegacyReplies(s, r, sh, po, q) ==
  /\ r \in [Legacy!Calls -> CallRefreshes] /\ sh \in CallShows /\ po \in CallPolls /\ q \subseteq CallAsks
  /\ \A x \in q : x.kind = "reject" => x.call \in CallsIn
  /\ KnownReplies(s, r, po, q)

LegacyInv ==
  /\ v1 \in [Legacy!Calls -> Legacy!Statuses]
  /\ LegacyCore(v1, v2, v3, v4) /\ LegacyReplies(v1, v5, v6, v7, v8)

LEMMA LegacyFacts ==
  /\ Attempts \in Nat /\ LegacyNumbers = 0 .. Attempts /\ Legacy!Atts = 1 .. Attempts
  /\ Legacy!Calls = CallsIn \cup CallsOut /\ Legacy!Opt = Legacy!Calls \cup {None}
  /\ None \notin CallsIn /\ None \notin CallsOut /\ CallsIn \cap CallsOut = {}
  /\ \A g \in Legacy!Atts : g \in LegacyNumbers /\ g # 0
  /\ \A g \in LegacyNumbers : g # 0 => g \in Legacy!Atts
  BY PagesConstants DEF Legacy!CallsAssumption, LegacyNumbers, Legacy!Atts, Legacy!Calls, Legacy!Opt

LEMMA LegacyInitEstablishes == ASSUME PagesConstants, Legacy!Init PROVE LegacyInv
<1> USE LegacyFacts DEF Legacy!Init
<1>1. v2 \in CallPages /\ v6 \in CallShows /\ v7 \in CallPolls
  BY DEF CallPages, CallShows, CallPolls, Legacy!NoShow, Legacy!NoPoll, LegacyNumbers
<1>2. Legacy!NoAttempt \in CallAtts /\ Legacy!NoRefresh \in CallRefreshes
  BY DEF Legacy!NoAttempt, CallAtts, LegacyAts, Legacy!NoRefresh, CallRefreshes, Legacy!Statuses
<1>3. /\ v3 \in [Legacy!Atts -> CallAtts] /\ v5 \in [Legacy!Calls -> CallRefreshes]
      /\ v1 \in [Legacy!Calls -> Legacy!Statuses]
  BY <1>2 DEF Legacy!Statuses
<1>4. \A g \in Legacy!Atts : v3[g].at = "none" /\ v3[g].call = None /\ ~v3[g].fresh /\ ~v3[g].mic
  BY DEF Legacy!NoAttempt
<1>5. AttemptRows(v3, v2, v4) /\ MicRows(v3, v2) /\ OneMaker(v3)
  BY <1>4 DEF AttemptRows, AttemptRow, MicRows, OneMaker
<1>6. PeerCurrent(v3, v2) /\ EndedHidden(v2, v4)  BY DEF PeerCurrent, EndedHidden
<1>7. KnownCalls(v1, v3, v2, v4)  BY <1>4 DEF KnownCalls
<1>8. KnownReplies(v1, v5, v7, v8)  BY DEF KnownReplies, Legacy!NoRefresh, Legacy!NoPoll
<1> QED  BY <1>1, <1>3, <1>5, <1>6, <1>7, <1>8 DEF LegacyInv, LegacyCore, LegacyReplies

\* The server's calls only come up.
LEMMA ServerKeeps ==
  ASSUME LegacyInv, NEW s, NEW p, NEW a, NEW d, NEW r, NEW sh, NEW po, NEW q,
         \A k \in Legacy!Calls : s[k] = "none" => v1[k] = "none"
  PROVE  /\ LegacyCore(v1, p, a, d) => LegacyCore(s, p, a, d)
         /\ LegacyReplies(v1, r, sh, po, q) => LegacyReplies(s, r, sh, po, q)
  BY DEF LegacyCore, LegacyReplies, KnownCalls, KnownReplies

\* One attempt goes a step further, on the same call.
LEMMA AttemptKeeps ==
  ASSUME NEW b, LegacyCore(v1, v2, b, v4), NEW g \in Legacy!Atts, NEW x \in CallAtts, x.call = b[g].call,
         AttemptRow(x, v2.active, v4), x.mic => x.at = "servers" \/ v2.peer = g,
         v2.peer = g => x.at \notin {"none", "gum", "servers"}
  PROVE  LegacyCore(v1, v2, [b EXCEPT ![g] = x], v4)
<1> DEFINE c == [b EXCEPT ![g] = x]
<1>1. b \in [Legacy!Atts -> CallAtts]  BY DEF LegacyCore
<1>2. c \in [Legacy!Atts -> CallAtts] /\ c[g] = x /\ \A h \in Legacy!Atts : h # g => c[h] = b[h]  BY <1>1
<1>3. \A h \in Legacy!Atts : c[h].call = b[h].call  BY <1>2
<1> HIDE DEF c
<1>4. AttemptRows(c, v2, v4) /\ MicRows(c, v2)  BY <1>2 DEF LegacyCore, AttemptRows, MicRows
<1>5. OneMaker(c) /\ KnownCalls(v1, c, v2, v4)  BY <1>3 DEF LegacyCore, OneMaker, KnownCalls
<1>6. PeerCurrent(c, v2)
  <2>1. v2.peer # 0 => v2.peer \in Legacy!Atts  BY LegacyFacts DEF LegacyCore, CallPages
  <2> QED  BY <1>2, <2>1 DEF LegacyCore, PeerCurrent
<1>7. LegacyCore(v1, v2, c, v4)  BY <1>2, <1>4, <1>5, <1>6 DEF LegacyCore
<1> QED  BY <1>7 DEF c

\* The page drops what it has, or shows a call that is not over.
LEMMA CallPageKeeps ==
  ASSUME NEW b, LegacyCore(v1, v2, b, v4), NEW p \in CallPages, p.cur = v2.cur, p.peer = v2.peer,
         p.active \in {v2.active, None},
         p.incoming = v2.incoming \/ p.incoming = None \/ (p.incoming \notin v4 /\ v1[p.incoming] # "none"),
         p.ring = v2.ring \/ p.ring = None \/ p.ring \notin v4
  PROVE  LegacyCore(v1, p, b, v4)
<1>1. None \notin v4 /\ \A k \in Legacy!Calls : k # None  BY LegacyFacts DEF LegacyCore
<1>2. EndedHidden(p, v4)  BY <1>1 DEF LegacyCore, EndedHidden
<1>3. KnownCalls(v1, b, p, v4)  BY <1>1 DEF LegacyCore, KnownCalls
<1>4. AttemptRows(b, p, v4)
  <2>1. ASSUME NEW g \in Legacy!Atts PROVE AttemptRow(b[g], p.active, v4)
    BY LegacyFacts DEF LegacyCore, AttemptRows, AttemptRow
  <2> QED  BY <2>1 DEF AttemptRows
<1>5. MicRows(b, p) /\ PeerCurrent(b, p)  BY DEF LegacyCore, MicRows, PeerCurrent
<1> QED  BY <1>2, <1>3, <1>4, <1>5 DEF LegacyCore

\* terminalCleanup, of the call that is shown or active or of the attempt's own.
LEMMA CleanKeeps ==
  ASSUME NEW b, LegacyCore(v1, v2, b, v4), NEW g \in LegacyNumbers, NEW k \in CallsIn \cup {None},
         k # None => v1[k] # "none", Legacy!Clean(b, g, k), LegacyReplies(v1, v5, v6, v7, v8)
  PROVE  LegacyCore(v1, v2', v3', v4') /\ LegacyReplies(v1, v5', v6', v7, v8)
<1> USE LegacyFacts
<1> DEFINE call == IF k # None THEN k ELSE IF v2.active # None THEN v2.active ELSE v2.incoming
           id == IF call # None THEN call ELSE IF g # 0 THEN b[g].call ELSE None
           row(h) == [b[h] EXCEPT !.fresh = FALSE, !.mic = b[h].mic /\ h # v2.peer,
                                  !.life = IF h = g /\ b[h].life = "active" THEN "over" ELSE b[h].life,
                                  !.cleaned = b[h].cleaned \/ h = g]
<1>1. /\ v2 \in CallPages /\ b \in [Legacy!Atts -> CallAtts] /\ v4 \subseteq Legacy!Calls
      /\ AttemptRows(b, v2, v4) /\ MicRows(b, v2) /\ OneMaker(b) /\ EndedHidden(v2, v4) /\ KnownCalls(v1, b, v2, v4)
  BY DEF LegacyCore
<1>2. /\ v4' = v4 \cup ({id} \ {None})
      /\ v2' = [v2 EXCEPT !.active = None, !.incoming = None, !.setup = FALSE, !.peer = 0,
                          !.ring = IF id \in {None, v2.ring} THEN None ELSE v2.ring]
      /\ v3' = [h \in Legacy!Atts |-> row(h)]
      /\ v5' = [j \in Legacy!Calls |-> Legacy!NoRefresh] /\ v6' = [v6 EXCEPT !.fresh = FALSE]
  BY DEF Legacy!Clean, Legacy!Buried
<1>3. ASSUME NEW h \in Legacy!Atts
      PROVE  /\ row(h) \in CallAtts /\ row(h).call = b[h].call /\ row(h).at = b[h].at /\ ~row(h).fresh
             /\ row(h).mic => b[h].mic /\ h # v2.peer
             /\ row(h).life = "active" => b[h].life = "active" /\ h # g
  <2> DEFINE m == b[h].mic /\ h # v2.peer
             l == IF h = g /\ b[h].life = "active" THEN "over" ELSE b[h].life
             c == b[h].cleaned \/ h = g
  <2>1. b[h] \in CallAtts  BY <1>1
  <2>2. m \in BOOLEAN /\ c \in BOOLEAN /\ l \in {"none", "active", "over"}  BY <2>1 DEF CallAtts
  <2>3. (m => b[h].mic /\ h # v2.peer) /\ (l = "active" => b[h].life = "active" /\ h # g)  OBVIOUS
  <2>4. row(h) = [b[h] EXCEPT !.fresh = FALSE, !.mic = m, !.life = l, !.cleaned = c]  OBVIOUS
  <2> HIDE DEF m, l, c, row
  <2>5. /\ row(h) \in CallAtts /\ row(h).call = b[h].call /\ row(h).at = b[h].at /\ ~row(h).fresh
        /\ row(h).mic = m /\ row(h).life = l
    BY <2>1, <2>2, <2>4 DEF CallAtts
  <2> QED  BY <2>3, <2>5
<1>4. call \in Legacy!Opt /\ (call # None => v1[call] # "none")
  BY <1>1 DEF CallPages, KnownCalls
<1>5. id \in Legacy!Opt /\ (id # None => v1[id] # "none")
  <2>1. g # 0 => b[g] \in CallAtts  BY <1>1
  <2> QED  BY <1>1, <1>4, <2>1 DEF CallAtts, KnownCalls
<1>6. ASSUME NEW h \in Legacy!Atts, b[h].at = "created", b[h].call = id PROVE h = g
  <2>1. b[h].call \in CallsOut /\ b[h].call # v2.active  BY <1>1, <1>6 DEF AttemptRows, AttemptRow
  <2>2. call = None  BY <1>1, <1>6, <2>1 DEF CallPages
  <2>3. g # 0 /\ id = b[g].call  BY <1>6, <2>1, <2>2
  <2> QED  BY <1>1, <1>6, <2>1, <2>3 DEF OneMaker
<1>7. v2' \in CallPages /\ v2'.active = None /\ v2'.incoming = None /\ v2'.peer = 0
      /\ v2'.ring = IF id \in {None, v2.ring} THEN None ELSE v2.ring
  <2> DEFINE ring == IF id \in {None, v2.ring} THEN None ELSE v2.ring
  <2>1. ring \in Legacy!Opt /\ v2' = [v2 EXCEPT !.active = None, !.incoming = None, !.setup = FALSE, !.peer = 0, !.ring = ring]
    BY <1>1, <1>2 DEF CallPages
  <2> HIDE DEF ring, id
  <2>2. None \in Legacy!Opt /\ 0 \in LegacyNumbers  OBVIOUS
  <2> HIDE LegacyFacts
  <2>3. v2' \in CallPages  BY <1>1, <2>1, <2>2 DEF CallPages
  <2>4. v2'.active = None /\ v2'.incoming = None /\ v2'.peer = 0 /\ v2'.ring = ring
    BY <1>1, <2>1 DEF CallPages
  <2> QED  BY <2>3, <2>4 DEF ring
<1> HIDE DEF call, id, row
<1>8. v3' \in [Legacy!Atts -> CallAtts] /\ \A h \in Legacy!Atts : v3'[h] = row(h)  BY <1>2, <1>3
<1>9. v4' \subseteq Legacy!Calls  BY <1>1, <1>2, <1>5
<1>10. AttemptRows(v3', v2', v4')
  <2>1. ASSUME NEW h \in Legacy!Atts PROVE AttemptRow(v3'[h], None, v4')
    <3>1. AttemptRow(b[h], v2.active, v4)  BY <1>1 DEF AttemptRows
    <3>2. ~v3'[h].fresh /\ v3'[h].call = b[h].call /\ v3'[h].at = b[h].at
          /\ (v3'[h].life = "active" => b[h].life = "active" /\ h # g)
      BY <1>3, <1>8
    <3> QED  BY <1>2, <1>6, <3>1, <3>2 DEF AttemptRow
  <2> QED  BY <1>7, <2>1 DEF AttemptRows
<1>11. MicRows(v3', v2')  BY <1>1, <1>3, <1>8 DEF MicRows
<1>12. OneMaker(v3')  BY <1>1, <1>3, <1>8 DEF OneMaker
<1>13. PeerCurrent(v3', v2')  BY <1>7 DEF PeerCurrent
<1>14. EndedHidden(v2', v4')  BY <1>1, <1>2, <1>7, <1>9 DEF EndedHidden
<1>15. KnownCalls(v1, v3', v2', v4')
  BY <1>1, <1>2, <1>3, <1>5, <1>7, <1>8 DEF KnownCalls
<1>16. Legacy!NoRefresh \in CallRefreshes /\ Legacy!NoRefresh.status = "none"
  BY DEF Legacy!NoRefresh, CallRefreshes, Legacy!Statuses
<1>17. v5' \in [Legacy!Calls -> CallRefreshes] /\ KnownReplies(v1, v5', v7, v8)
  BY <1>2, <1>16 DEF LegacyReplies, KnownReplies
<1>18. v6' \in CallShows  BY <1>2 DEF LegacyReplies, CallShows
<1> QED
  BY <1>7, <1>8, <1>9, <1>10, <1>11, <1>12, <1>13, <1>14, <1>15, <1>17, <1>18 DEF LegacyCore, LegacyReplies

\* The catch of an attempt that left its microphone to no one: its stage is over, and the
\* current attempt is cleaned up.
LEMMA FailedKeeps ==
  ASSUME LegacyInv, NEW b, LegacyCore(v1, v2, b, v4), NEW g \in Legacy!Atts, Legacy!Failed(b, g),
         b[g].at = "servers" => ~b[g].mic
  PROVE  LegacyInv'
<1> USE LegacyFacts
<1> DEFINE x == [b[g] EXCEPT !.at = "over"]
           c == [b EXCEPT ![g].at = "over"]
<1>1. /\ b \in [Legacy!Atts -> CallAtts] /\ v2 \in CallPages /\ LegacyReplies(v1, v5, v6, v7, v8)
      /\ AttemptRows(b, v2, v4) /\ MicRows(b, v2)
  BY DEF LegacyInv, LegacyCore
<1>2. b[g] \in CallAtts /\ AttemptRow(b[g], v2.active, v4) /\ c = [b EXCEPT ![g] = x]
  BY <1>1 DEF AttemptRows
<1>3. x \in CallAtts /\ x.at = "over" /\ x.call = b[g].call /\ x.fresh = b[g].fresh /\ x.mic = b[g].mic
  BY <1>2 DEF CallAtts, LegacyAts
<1>4. x.mic => v2.peer = g  BY <1>1, <1>3 DEF MicRows
<1>5. AttemptRow(x, v2.active, v4)  BY <1>2, <1>3 DEF AttemptRow
<1>6. UNCHANGED <<v1, v7, v8>>  BY DEF Legacy!Failed
<1> HIDE DEF x
<1>7. LegacyCore(v1, v2, [b EXCEPT ![g] = x], v4)  BY <1>3, <1>4, <1>5, AttemptKeeps
<1>8. LegacyCore(v1, v2, c, v4)  BY <1>2, <1>7
<1>9. CASE v2.cur # 0 /\ b[v2.cur].cleaned
  <2>1. /\ v3' = c /\ UNCHANGED <<v4, v5, v6>>
        /\ v2' = [v2 EXCEPT !.setup = FALSE, !.active = IF v3[g].call \in CallsIn THEN None ELSE v2.active]
    BY <1>9 DEF Legacy!Failed
  <2> DEFINE active == IF v3[g].call \in CallsIn THEN None ELSE v2.active
  <2>2. active \in {v2.active, None} /\ active \in Legacy!Opt  BY <1>1 DEF CallPages
  <2> HIDE DEF active, c
  <2>3. v2' = [v2 EXCEPT !.setup = FALSE, !.active = active]  BY <2>1 DEF active
  <2>4. /\ v2' \in CallPages /\ v2'.cur = v2.cur /\ v2'.peer = v2.peer /\ v2'.active = active
        /\ v2'.incoming = v2.incoming /\ v2'.ring = v2.ring
    BY <1>1, <2>2, <2>3 DEF CallPages
  <2>5. LegacyCore(v1, v2', c, v4)  BY <1>8, <2>2, <2>4, CallPageKeeps
  <2> QED  BY <1>1, <1>6, <2>1, <2>5 DEF LegacyInv
<1>10. CASE ~(v2.cur # 0 /\ b[v2.cur].cleaned)
  <2>1. Legacy!Clean(c, v2.cur, None)  BY <1>10 DEF Legacy!Failed
  <2>2. v2.cur \in LegacyNumbers /\ None \in CallsIn \cup {None}  BY <1>1 DEF CallPages
  <2> HIDE DEF c
  <2>3. LegacyCore(v1, v2', v3', v4') /\ LegacyReplies(v1, v5', v6', v7, v8)
    BY <1>1, <1>8, <2>1, <2>2, CleanKeeps
  <2> QED  BY <1>6, <2>3 DEF LegacyInv
<1> QED  BY <1>9, <1>10

\* An attempt that goes a step further: its page, its replies and the server stay.
LEMMA StageKeeps ==
  ASSUME LegacyInv, NEW g \in Legacy!Atts, NEW at \in LegacyAts \ {"created", "accepted", "servers"},
         v3' = [v3 EXCEPT ![g].at = at], UNCHANGED <<v1, v4, v5, v6, v7>>,
         v2.peer = g => at \notin {"none", "gum"}, v3[g].mic => v2.peer = g,
         v2' = v2 \/ v2' = [v2 EXCEPT !.setup = FALSE], v8' = v8 \/ LegacyReplies(v1, v5, v6, v7, v8')
  PROVE  LegacyInv'
<1> DEFINE x == [v3[g] EXCEPT !.at = at]
<1>1. v3 \in [Legacy!Atts -> CallAtts] /\ v2 \in CallPages /\ LegacyCore(v1, v2, v3, v4)
      /\ AttemptRow(v3[g], v2.active, v4) /\ LegacyReplies(v1, v5, v6, v7, v8)
  BY DEF LegacyInv, LegacyCore, AttemptRows
<1>2. v3[g] \in CallAtts /\ v3' = [v3 EXCEPT ![g] = x]  BY <1>1
<1>3. x \in CallAtts /\ x.at = at /\ x.call = v3[g].call /\ x.fresh = v3[g].fresh /\ x.mic = v3[g].mic
  BY <1>2 DEF CallAtts
<1> HIDE DEF x
<1>4. AttemptRow(x, v2.active, v4)  BY <1>1, <1>3 DEF AttemptRow
<1>10. at # "servers" /\ (x.mic => v2.peer = g) /\ (v2.peer = g => x.at \notin {"none", "gum", "servers"})
  BY <1>3
<1>5. LegacyCore(v1, v2, v3', v4)
  <2>1. LegacyCore(v1, v2, [v3 EXCEPT ![g] = x], v4)  BY <1>1, <1>3, <1>4, <1>10, AttemptKeeps
  <2> QED  BY <1>2, <2>1
<1>6. /\ v2' \in CallPages /\ v2'.cur = v2.cur /\ v2'.peer = v2.peer /\ v2'.active = v2.active
      /\ v2'.incoming = v2.incoming /\ v2'.ring = v2.ring
  BY <1>1 DEF CallPages
<1>7. LegacyCore(v1, v2', v3', v4)  BY <1>5, <1>6, CallPageKeeps
<1>8. LegacyReplies(v1, v5, v6, v7, v8')  BY <1>1
<1> QED  BY <1>7, <1>8 DEF LegacyInv

\* beginCallAttempt, to call or to answer what is shown.
LEMMA CallBeginKeeps ==
  ASSUME LegacyInv, Legacy!StartClicked \/ Legacy!AnswerClicked PROVE LegacyInv'
<1> USE LegacyFacts
<1>1. /\ v3 \in [Legacy!Atts -> CallAtts] /\ v2 \in CallPages /\ LegacyReplies(v1, v5, v6, v7, v8)
      /\ AttemptRows(v3, v2, v4) /\ MicRows(v3, v2) /\ OneMaker(v3) /\ PeerCurrent(v3, v2)
      /\ EndedHidden(v2, v4) /\ KnownCalls(v1, v3, v2, v4) /\ v4 \subseteq Legacy!Calls
  BY DEF LegacyInv, LegacyCore
<1>2. PICK k \in CallsIn \cup {None}, active \in {v2.active, v2.incoming}, g \in Legacy!Atts :
        /\ active \in {v2.active, k} /\ v2.peer = 0 /\ k \in {None, v2.incoming}
        /\ v3[g] = Legacy!NoAttempt
        /\ v3' = [Legacy!Aged EXCEPT ![g] =
                   [Legacy!NoAttempt EXCEPT !.at = "gum", !.call = k, !.life = "active", !.fresh = TRUE]]
        /\ v2' = [[v2 EXCEPT !.active = active] EXCEPT !.cur = g, !.setup = TRUE]
        /\ v6' = [v6 EXCEPT !.fresh = FALSE] /\ UNCHANGED <<v1, v4, v7, v8>>
        /\ v5' = [j \in Legacy!Calls |-> [v5[j] EXCEPT !.fresh = FALSE]]
  <2>1. CASE Legacy!StartClicked
    <3>1. v2 = [v2 EXCEPT !.active = v2.active]  BY <1>1 DEF CallPages
    <3> QED  BY <2>1, <3>1 DEF Legacy!StartClicked, Legacy!Begin
  <2>2. CASE Legacy!AnswerClicked
    <3>1. v2.incoming \in CallsIn \cup {None}  BY <1>1 DEF CallPages
    <3> QED  BY <2>2, <3>1 DEF Legacy!AnswerClicked, Legacy!Begin
  <2> QED  BY <2>1, <2>2
<1> DEFINE x == [Legacy!NoAttempt EXCEPT !.at = "gum", !.call = k, !.life = "active", !.fresh = TRUE]
<1>3. x \in CallAtts /\ x.at = "gum" /\ x.call = k /\ ~x.mic
  BY DEF Legacy!NoAttempt, CallAtts, LegacyAts
<1>4. k \notin v4 /\ (k # None => v1[k] # "none")  BY <1>1, <1>2 DEF EndedHidden, KnownCalls
<1>5. active \in Legacy!Opt /\ active \in {v2.active, k}  BY <1>1, <1>2 DEF CallPages
<1>6. /\ v2' \in CallPages /\ v2'.cur = g /\ v2'.peer = 0 /\ v2'.active = active /\ v2'.incoming = v2.incoming
      /\ v2'.ring = v2.ring
  BY <1>1, <1>2, <1>5 DEF CallPages
<1>7. ASSUME NEW h \in Legacy!Atts
      PROVE  /\ Legacy!Aged[h] \in CallAtts /\ Legacy!Aged[h].at = v3[h].at /\ Legacy!Aged[h].call = v3[h].call
             /\ Legacy!Aged[h].life = v3[h].life /\ Legacy!Aged[h].mic = v3[h].mic /\ ~Legacy!Aged[h].fresh
  <2>1. v3[h] \in CallAtts /\ Legacy!Aged[h] = [v3[h] EXCEPT !.fresh = FALSE]  BY <1>1 DEF Legacy!Aged
  <2> QED  BY <2>1 DEF CallAtts
<1> HIDE DEF x
<1>8. v3' \in [Legacy!Atts -> CallAtts] /\ v3'[g] = x /\ \A h \in Legacy!Atts : h # g => v3'[h] = Legacy!Aged[h]
  BY <1>2, <1>3, <1>7 DEF x, Legacy!Aged
<1>9. ASSUME NEW h \in Legacy!Atts PROVE AttemptRow(v3'[h], active, v4)
  <2>1. CASE h = g  BY <1>3, <1>4, <1>8, <2>1 DEF AttemptRow
  <2>2. CASE h # g
    <3>1. AttemptRow(v3[h], v2.active, v4)  BY <1>1 DEF AttemptRows
    <3> QED  BY <1>2, <1>5, <1>7, <1>8, <2>2, <3>1 DEF AttemptRow
  <2> QED  BY <2>1, <2>2
<1>10. AttemptRows(v3', v2', v4) /\ MicRows(v3', v2')
  <2>1. AttemptRows(v3', v2', v4)  BY <1>6, <1>9 DEF AttemptRows
  <2>2. ASSUME NEW h \in Legacy!Atts, v3'[h].mic PROVE v3'[h].at = "servers"
    <3>1. h # g /\ v3[h].mic /\ v3'[h].at = v3[h].at  BY <1>3, <1>7, <1>8, <2>2
    <3>2. v2.peer # h  BY <1>2
    <3> QED  BY <1>1, <3>1, <3>2 DEF MicRows
  <2> QED  BY <2>1, <2>2 DEF MicRows
<1>11. OneMaker(v3')  BY <1>1, <1>2, <1>3, <1>7, <1>8 DEF OneMaker
<1>12. PeerCurrent(v3', v2')  BY <1>6 DEF PeerCurrent
<1>13. EndedHidden(v2', v4)
  <2>1. None \notin v4  BY <1>1
  <2> QED  BY <1>1, <1>4, <1>5, <1>6 DEF EndedHidden
<1>14. KnownCalls(v1, v3', v2', v4)
  BY <1>1, <1>3, <1>4, <1>5, <1>6, <1>7, <1>8 DEF KnownCalls
<1>15. LegacyReplies(v1, v5', v6', v7, v8)
  <2>1. v6' \in CallShows  BY <1>1, <1>2 DEF LegacyReplies, CallShows
  <2>2. ASSUME NEW j \in Legacy!Calls
        PROVE  [v5[j] EXCEPT !.fresh = FALSE] \in CallRefreshes /\ [v5[j] EXCEPT !.fresh = FALSE].status = v5[j].status
    <3>1. v5[j] \in CallRefreshes  BY <1>1 DEF LegacyReplies
    <3> QED  BY <3>1 DEF CallRefreshes
  <2>3. v5' \in [Legacy!Calls -> CallRefreshes] /\ \A j \in Legacy!Calls : v5'[j].status = v5[j].status
    BY <1>2, <2>2
  <2>4. KnownReplies(v1, v5', v7, v8)  BY <1>1, <2>3 DEF LegacyReplies, KnownReplies
  <2> QED  BY <1>1, <2>1, <2>3, <2>4 DEF LegacyReplies
<1>16. LegacyCore(v1, v2', v3', v4)
  BY <1>1, <1>6, <1>8, <1>10, <1>11, <1>12, <1>13, <1>14 DEF LegacyCore
<1> QED  BY <1>2, <1>15, <1>16 DEF LegacyInv

\* preparePeer, the descriptions and the requests.
LEMMA MicKeeps ==
  ASSUME LegacyInv, NEW g \in Legacy!Atts, NEW ok \in BOOLEAN, Legacy!MicReplied(g, ok) PROVE LegacyInv'
<1> USE LegacyFacts
<1>1. /\ v3 \in [Legacy!Atts -> CallAtts] /\ LegacyCore(v1, v2, v3, v4) /\ AttemptRow(v3[g], v2.active, v4)
      /\ PeerCurrent(v3, v2) /\ v3[g].at = "gum" /\ v3[g] \in CallAtts
  BY DEF LegacyInv, LegacyCore, AttemptRows, Legacy!MicReplied
<1>2. CASE ok /\ Legacy!Live(g)
  <2> DEFINE x == [v3[g] EXCEPT !.at = "servers", !.mic = TRUE]
  <2>1. v3' = [v3 EXCEPT ![g] = x] /\ UNCHANGED <<v1, v2, v4, v5, v6, v7, v8>>
    BY <1>1, <1>2 DEF Legacy!MicReplied
  <2>2. x \in CallAtts /\ x.at = "servers" /\ x.call = v3[g].call /\ x.fresh = v3[g].fresh
    BY <1>1 DEF CallAtts, LegacyAts
  <2> HIDE DEF x
  <2>3. v2.peer # g  BY <1>1 DEF PeerCurrent
  <2>4. AttemptRow(x, v2.active, v4)  BY <1>1, <2>2 DEF AttemptRow
  <2>5. LegacyCore(v1, v2, v3', v4)
    <3>1. LegacyCore(v1, v2, [v3 EXCEPT ![g] = x], v4)  BY <1>1, <2>2, <2>3, <2>4, AttemptKeeps
    <3> QED  BY <2>1, <3>1
  <2> QED  BY <2>1, <2>5 DEF LegacyInv
<1>3. CASE ~(ok /\ Legacy!Live(g))
  <2>1. Legacy!Failed(v3, g)  BY <1>3 DEF Legacy!MicReplied
  <2> QED  BY <1>1, <2>1, FailedKeeps
<1> QED  BY <1>2, <1>3

LEMMA ServersKeeps ==
  ASSUME LegacyInv, NEW g \in Legacy!Atts, NEW ok \in BOOLEAN, NEW kept \in BOOLEAN,
         Legacy!ServersReplied(g, ok, kept)
  PROVE  LegacyInv'
<1> USE LegacyFacts
<1>1. /\ v3 \in [Legacy!Atts -> CallAtts] /\ LegacyCore(v1, v2, v3, v4) /\ AttemptRow(v3[g], v2.active, v4)
      /\ PeerCurrent(v3, v2) /\ v3[g].at = "servers" /\ v3[g] \in CallAtts /\ v2 \in CallPages
      /\ AttemptRows(v3, v2, v4) /\ MicRows(v3, v2)
  BY DEF LegacyInv, LegacyCore, AttemptRows, Legacy!ServersReplied
<1>2. v2.peer # g  BY <1>1 DEF PeerCurrent
<1>3. CASE ok /\ Legacy!Live(g) /\ (kept \/ v3[g].fresh)
  <2> DEFINE x == [v3[g] EXCEPT !.at = "described"]
  <2>1. /\ v3' = [v3 EXCEPT ![g] = x] /\ v2' = [v2 EXCEPT !.peer = g] /\ UNCHANGED <<v1, v4, v5, v6, v7, v8>>
    BY <1>1, <1>3 DEF Legacy!ServersReplied, Legacy!Stage
  <2>2. x \in CallAtts /\ x.at = "described" /\ x.call = v3[g].call /\ x.fresh = v3[g].fresh
    BY <1>1 DEF CallAtts, LegacyAts
  <2> HIDE DEF x
  <2>3. v2.cur = g /\ v2.peer = 0  BY <1>1, <1>2, <1>3 DEF Legacy!Live, PeerCurrent
  <2>4. /\ v2' \in CallPages /\ v2'.cur = g /\ v2'.peer = g /\ v2'.active = v2.active
        /\ v2'.incoming = v2.incoming /\ v2'.ring = v2.ring
    BY <1>1, <2>1, <2>3 DEF CallPages
  <2>5. v3' \in [Legacy!Atts -> CallAtts] /\ v3'[g] = x /\ \A h \in Legacy!Atts : h # g => v3'[h] = v3[h]
    BY <1>1, <2>1, <2>2
  <2>6. \A h \in Legacy!Atts : v3'[h].call = v3[h].call  BY <2>2, <2>5
  <2>7. AttemptRows(v3', v2', v4)
    <3>1. AttemptRow(x, v2.active, v4)  BY <1>1, <2>2 DEF AttemptRow
    <3> QED  BY <1>1, <2>4, <2>5, <3>1 DEF AttemptRows
  <2>8. MicRows(v3', v2')
    <3>1. ASSUME NEW h \in Legacy!Atts, h # g, v3'[h].mic PROVE v3'[h].at = "servers"
      BY <1>1, <2>3, <2>5, <3>1 DEF MicRows
    <3> QED  BY <2>4, <3>1 DEF MicRows
  <2>9. OneMaker(v3') /\ KnownCalls(v1, v3', v2', v4) /\ EndedHidden(v2', v4)
    BY <1>1, <2>4, <2>6 DEF LegacyCore, OneMaker, KnownCalls, EndedHidden
  <2>10. PeerCurrent(v3', v2')  BY <2>2, <2>4, <2>5 DEF PeerCurrent
  <2>11. LegacyCore(v1, v2', v3', v4)  BY <1>1, <2>4, <2>5, <2>7, <2>8, <2>9, <2>10 DEF LegacyCore
  <2> QED  BY <2>1, <2>11 DEF LegacyInv
<1>4. CASE ~(ok /\ Legacy!Live(g) /\ (kept \/ v3[g].fresh))
  <2> DEFINE x == [v3[g] EXCEPT !.mic = FALSE]
             b == [v3 EXCEPT ![g].mic = FALSE]
  <2>1. Legacy!Failed(b, g)  BY <1>4 DEF Legacy!ServersReplied
  <2>2. b = [v3 EXCEPT ![g] = x] /\ b[g] = x  BY <1>1
  <2>3. x \in CallAtts /\ x.at = "servers" /\ x.call = v3[g].call /\ x.fresh = v3[g].fresh /\ ~x.mic
        /\ x.life = v3[g].life
    BY <1>1 DEF CallAtts
  <2> HIDE DEF x
  <2>4. AttemptRow(x, v2.active, v4)  BY <1>1, <2>3 DEF AttemptRow
  <2>5. LegacyCore(v1, v2, [v3 EXCEPT ![g] = x], v4)  BY <1>1, <1>2, <2>3, <2>4, AttemptKeeps
  <2>6. LegacyCore(v1, v2, b, v4) /\ ~b[g].mic  BY <2>2, <2>3, <2>5
  <2> HIDE DEF b
  <2> QED  BY <2>1, <2>6, FailedKeeps
<1> QED  BY <1>3, <1>4

LEMMA DescribedKeeps ==
  ASSUME LegacyInv, NEW g \in Legacy!Atts, NEW ok \in BOOLEAN, Legacy!Described(g, ok) \/ Legacy!Refused(g) \/ Legacy!FlushReplied(g, ok)
  PROVE  LegacyInv'
<1>1. LegacyCore(v1, v2, v3, v4) /\ MicRows(v3, v2)  BY DEF LegacyInv, LegacyCore
<1>2. v3[g].at \notin {"none", "gum", "servers"}  BY DEF Legacy!Described, Legacy!Refused, Legacy!FlushReplied
<1>3. v3[g].mic => v2.peer = g  BY <1>1, <1>2 DEF MicRows
<1>4. CASE Legacy!Failed(v3, g)  BY <1>1, <1>2, <1>4, FailedKeeps
<1>5. CASE Legacy!Returned(g)
  <2>1. /\ v3' = [v3 EXCEPT ![g].at = "over"] /\ v2' = [v2 EXCEPT !.setup = FALSE]
        /\ UNCHANGED <<v1, v4, v5, v6, v7, v8>>
    BY <1>5 DEF Legacy!Returned, Legacy!Stage
  <2>2. "over" \in LegacyAts \ {"created", "accepted", "servers"}  BY DEF LegacyAts
  <2> QED  BY <1>3, <2>1, <2>2, StageKeeps
<1>6. CASE v3' = [v3 EXCEPT ![g].at = "asked"] /\ UNCHANGED <<v1, v2, v4, v5, v6, v7, v8>>
  <2>1. "asked" \in LegacyAts \ {"created", "accepted", "servers"}  BY DEF LegacyAts
  <2> QED  BY <1>3, <1>6, <2>1, StageKeeps
<1>7. CASE v3' = [v3 EXCEPT ![g].at = "up"] /\ v2' = [v2 EXCEPT !.setup = FALSE] /\ UNCHANGED <<v1, v4, v5, v6, v7, v8>>
  <2>1. "up" \in LegacyAts \ {"created", "accepted", "servers"}  BY DEF LegacyAts
  <2> QED  BY <1>3, <1>7, <2>1, StageKeeps
<1> QED  BY <1>4, <1>5, <1>6, <1>7 DEF Legacy!Described, Legacy!Refused, Legacy!FlushReplied, Legacy!Stage

\* The call is created, or accepted, at the server.
LEMMA ServedKeeps == ASSUME LegacyInv, NEW g \in Legacy!Atts, Legacy!Served(g) PROVE LegacyInv'
<1> USE LegacyFacts
<1>1. /\ v3 \in [Legacy!Atts -> CallAtts] /\ v2 \in CallPages /\ v1 \in [Legacy!Calls -> Legacy!Statuses]
      /\ LegacyReplies(v1, v5, v6, v7, v8)
      /\ AttemptRows(v3, v2, v4) /\ MicRows(v3, v2) /\ OneMaker(v3) /\ PeerCurrent(v3, v2)
      /\ EndedHidden(v2, v4) /\ KnownCalls(v1, v3, v2, v4) /\ v4 \subseteq Legacy!Calls
  BY DEF LegacyInv, LegacyCore
<1>2. v3[g].at = "asked" /\ UNCHANGED <<v2, v4, v5, v6, v7, v8>> /\ v3[g] \in CallAtts
  BY <1>1 DEF Legacy!Served
<1>3. v3[g].mic => v2.peer = g  BY <1>1, <1>2 DEF MicRows
<1>4. ASSUME NEW k \in CallsOut, v3[g].call = None, v1[k] = "none", v1' = [v1 EXCEPT ![k] = "ringing"],
             v3' = [v3 EXCEPT ![g].at = "created", ![g].call = k]
      PROVE  LegacyInv'
  <2> DEFINE x == [v3[g] EXCEPT !.at = "created", !.call = k]
  <2>1. v3' = [v3 EXCEPT ![g] = x]  BY <1>1, <1>4
  <2>2. x \in CallAtts /\ x.at = "created" /\ x.call = k /\ x.fresh = v3[g].fresh /\ x.mic = v3[g].mic
    BY <1>2 DEF CallAtts, LegacyAts
  <2> HIDE DEF x
  <2>3. v3' \in [Legacy!Atts -> CallAtts] /\ v3'[g] = x /\ \A h \in Legacy!Atts : h # g => v3'[h] = v3[h]
    BY <1>1, <2>1, <2>2
  <2>4. k \notin v4 /\ v2.active # k /\ \A h \in Legacy!Atts : v3[h].call # k  BY <1>1, <1>4 DEF KnownCalls
  <2>5. AttemptRows(v3', v2, v4)
    <3>1. AttemptRow(x, v2.active, v4)  BY <2>2, <2>4 DEF AttemptRow
    <3> QED  BY <1>1, <2>3, <3>1 DEF AttemptRows
  <2>6. MicRows(v3', v2) /\ OneMaker(v3')
    <3>1. MicRows(v3', v2)  BY <1>1, <1>3, <2>2, <2>3 DEF MicRows
    <3>2. OneMaker(v3')  BY <1>1, <2>2, <2>3, <2>4 DEF OneMaker
    <3> QED  BY <3>1, <3>2
  <2>7. PeerCurrent(v3', v2)
    <3>1. v2.peer # 0 => v2.peer \in Legacy!Atts  BY <1>1 DEF CallPages
    <3> QED  BY <1>1, <2>2, <2>3, <3>1 DEF PeerCurrent
  <2>8. /\ v1' \in [Legacy!Calls -> Legacy!Statuses]
        /\ \A j \in Legacy!Calls : v1'[j] = "none" => v1[j] = "none" /\ j # k
    BY <1>1, <1>4 DEF Legacy!Statuses
  <2>9. KnownCalls(v1', v3', v2, v4)  BY <1>1, <2>2, <2>3, <2>8 DEF KnownCalls
  <2>10. LegacyReplies(v1', v5, v6, v7, v8)  BY <1>1, <2>8, ServerKeeps
  <2>11. LegacyCore(v1', v2, v3', v4)  BY <1>1, <2>3, <2>5, <2>6, <2>7, <2>9 DEF LegacyCore
  <2> QED  BY <1>2, <2>8, <2>10, <2>11 DEF LegacyInv
<1>5. ASSUME v3[g].call \in CallsIn, v1' = [v1 EXCEPT ![v3[g].call] = "accepted"],
             v3' = [v3 EXCEPT ![g].at = "accepted"]
      PROVE  LegacyInv'
  <2> DEFINE x == [v3[g] EXCEPT !.at = "accepted"]
  <2>1. v3' = [v3 EXCEPT ![g] = x]  BY <1>1, <1>5
  <2>2. x \in CallAtts /\ x.at = "accepted" /\ x.call = v3[g].call /\ x.fresh = v3[g].fresh /\ x.mic = v3[g].mic
    BY <1>2 DEF CallAtts, LegacyAts
  <2> HIDE DEF x
  <2>3. AttemptRow(x, v2.active, v4)
    <3>1. AttemptRow(v3[g], v2.active, v4)  BY <1>1 DEF AttemptRows
    <3> QED  BY <1>5, <2>2, <3>1 DEF AttemptRow
  <2>4. LegacyCore(v1, v2, v3', v4)
    <3>1. LegacyCore(v1, v2, [v3 EXCEPT ![g] = x], v4)
      BY <1>3, <2>2, <2>3, AttemptKeeps DEF LegacyInv
    <3> QED  BY <2>1, <3>1
  <2>5. /\ v1' \in [Legacy!Calls -> Legacy!Statuses]
        /\ \A j \in Legacy!Calls : v1'[j] = "none" => v1[j] = "none"
    BY <1>1, <1>5 DEF Legacy!Statuses
  <2>6. LegacyCore(v1', v2, v3', v4) /\ LegacyReplies(v1', v5, v6, v7, v8)  BY <1>1, <2>4, <2>5, ServerKeeps
  <2> QED  BY <1>2, <2>5, <2>6 DEF LegacyInv
<1> QED  BY <1>4, <1>5 DEF Legacy!Served, Legacy!Stage

\* The reply to it: the call is up, or is ended, or nothing waits for it any more.
LEMMA CallUpKeeps == ASSUME LegacyInv, NEW g \in Legacy!Atts, Legacy!Created(g) \/ Legacy!Accepted(g) PROVE LegacyInv'
<1> USE LegacyFacts
<1> DEFINE k == v3[g].call
           x == [v3[g] EXCEPT !.at = "flush"]
<1>1. /\ v3 \in [Legacy!Atts -> CallAtts] /\ v2 \in CallPages /\ LegacyReplies(v1, v5, v6, v7, v8)
      /\ AttemptRows(v3, v2, v4) /\ MicRows(v3, v2) /\ OneMaker(v3) /\ PeerCurrent(v3, v2)
      /\ EndedHidden(v2, v4) /\ KnownCalls(v1, v3, v2, v4) /\ v4 \subseteq Legacy!Calls
  BY DEF LegacyInv, LegacyCore
<1>2. v3[g].at \in {"created", "accepted"} /\ v3[g] \in CallAtts /\ AttemptRow(v3[g], v2.active, v4)
  BY <1>1 DEF Legacy!Created, Legacy!Accepted, AttemptRows
<1>3. k \in Legacy!Calls /\ (v3[g].mic => v2.peer = g)  BY <1>1, <1>2 DEF AttemptRow, MicRows
<1>4. "over" \in LegacyAts \ {"created", "accepted", "servers"}  BY DEF LegacyAts
<1>5. ASSUME Legacy!Created(g), ~Legacy!Live(g) PROVE LegacyInv'
  <2>1. /\ v3' = [v3 EXCEPT ![g].at = "over"] /\ v2' = [v2 EXCEPT !.setup = FALSE]
        /\ v8' = v8 \cup {[kind |-> "end", call |-> k]} /\ UNCHANGED <<v1, v4, v5, v6, v7>>
    BY <1>5 DEF Legacy!Created, Legacy!Stage
  <2>2. v1[k] # "none"  BY <1>1, <1>3 DEF KnownCalls
  <2> HIDE DEF k
  <2>3. v8' \subseteq CallAsks /\ \A a \in v8' : a.kind = "reject" => a.call \in CallsIn
    BY <1>1, <1>3, <2>1 DEF LegacyReplies, CallAsks
  <2>4. KnownReplies(v1, v5, v7, v8')  BY <1>1, <2>1, <2>2 DEF LegacyReplies, KnownReplies
  <2>5. LegacyReplies(v1, v5, v6, v7, v8')  BY <1>1, <2>3, <2>4 DEF LegacyReplies
  <2> QED  BY <1>3, <1>4, <2>1, <2>5, StageKeeps
<1>6. ASSUME Legacy!Accepted(g), ~Legacy!PeerOf(g) PROVE LegacyInv'
  <2>1. /\ v3' = [v3 EXCEPT ![g].at = "over"] /\ v2' = [v2 EXCEPT !.setup = FALSE]
        /\ UNCHANGED <<v1, v4, v5, v6, v7, v8>>
    BY <1>6 DEF Legacy!Accepted, Legacy!Returned, Legacy!Stage
  <2> QED  BY <1>3, <1>4, <2>1, StageKeeps
<1>7. ASSUME \/ Legacy!Created(g) /\ Legacy!Live(g)
             \/ Legacy!Accepted(g) /\ Legacy!PeerOf(g)
      PROVE  LegacyInv'
  <2>1. /\ v3' = [v3 EXCEPT ![g] = x] /\ UNCHANGED <<v1, v4, v5, v6, v7, v8>>
        /\ \/ v2' = [v2 EXCEPT !.active = k]
           \/ v2' = [v2 EXCEPT !.active = k, !.incoming = None, !.ring = None]
    BY <1>1, <1>7 DEF Legacy!Created, Legacy!Accepted, Legacy!Stage
  <2>2. k \notin v4
    BY <1>2, <1>7 DEF AttemptRow, Legacy!Created, Legacy!Live, Legacy!Accepted, Legacy!PeerOf
  <2>3. x \in CallAtts /\ x.at = "flush" /\ x.call = k /\ x.fresh = v3[g].fresh /\ x.mic = v3[g].mic
    BY <1>2 DEF CallAtts, LegacyAts
  <2>4. v1[k] # "none"  BY <1>1, <1>3 DEF KnownCalls
  <2>5. ASSUME NEW h \in Legacy!Atts, h # g, v3[h].at = "created" PROVE v3[h].call # k
    BY <1>1, <2>5 DEF AttemptRows, AttemptRow, OneMaker
  <2> HIDE DEF k, x
  <2>6. /\ v2' \in CallPages /\ v2'.cur = v2.cur /\ v2'.peer = v2.peer /\ v2'.active = k
        /\ v2'.incoming \in {v2.incoming, None} /\ v2'.ring \in {v2.ring, None}
    BY <1>1, <1>3, <2>1 DEF CallPages
  <2>7. v3' \in [Legacy!Atts -> CallAtts] /\ v3'[g] = x /\ \A h \in Legacy!Atts : h # g => v3'[h] = v3[h]
    BY <1>1, <2>1, <2>3
  <2>8. \A h \in Legacy!Atts : v3'[h].call = v3[h].call  BY <2>3, <2>7 DEF k
  <2>9. AttemptRows(v3', v2', v4)
    <3>1. AttemptRow(x, k, v4)  BY <2>2, <2>3 DEF AttemptRow
    <3>2. ASSUME NEW h \in Legacy!Atts, h # g PROVE AttemptRow(v3'[h], k, v4)
      <4>1. AttemptRow(v3[h], v2.active, v4) /\ v3'[h] = v3[h]  BY <1>1, <2>7, <3>2 DEF AttemptRows
      <4> QED  BY <2>5, <3>2, <4>1 DEF AttemptRow
    <3> QED  BY <2>6, <2>7, <3>1, <3>2 DEF AttemptRows
  <2>10. MicRows(v3', v2')  BY <1>1, <1>3, <2>3, <2>6, <2>7 DEF MicRows
  <2>11. OneMaker(v3')  BY <1>1, <2>8 DEF OneMaker
  <2>12. PeerCurrent(v3', v2')
    <3>1. v2.peer # 0 => v2.peer \in Legacy!Atts  BY <1>1 DEF CallPages
    <3> QED  BY <1>1, <2>3, <2>6, <2>7, <3>1 DEF PeerCurrent
  <2>13. EndedHidden(v2', v4)
    <3>1. None \notin v4  BY <1>1
    <3> QED  BY <1>1, <2>2, <2>6, <3>1 DEF EndedHidden
  <2>14. KnownCalls(v1, v3', v2', v4)
    <3>1. \A j \in Legacy!Calls : j # None  OBVIOUS
    <3> QED  BY <1>1, <2>4, <2>6, <2>8, <3>1 DEF KnownCalls
  <2>15. LegacyCore(v1, v2', v3', v4)
    BY <1>1, <2>6, <2>7, <2>9, <2>10, <2>11, <2>12, <2>13, <2>14 DEF LegacyCore
  <2> QED  BY <1>1, <2>1, <2>15 DEF LegacyInv
<1> QED
  <2>1. Legacy!Created(g) => Legacy!Live(g) \/ ~Legacy!Live(g)  OBVIOUS
  <2> QED  BY <1>5, <1>6, <1>7

\* endCall, rejectIncomingCall and what the server answers.
LEMMA EndKeeps ==
  ASSUME LegacyInv, \/ Legacy!EndClicked \/ Legacy!RejectClicked
                    \/ \E a \in v8, ok \in BOOLEAN : Legacy!AskReplied(a, ok)
  PROVE  LegacyInv'
<1> USE LegacyFacts
<1>1. /\ LegacyCore(v1, v2, v3, v4) /\ LegacyReplies(v1, v5, v6, v7, v8) /\ v2 \in CallPages
      /\ KnownCalls(v1, v3, v2, v4) /\ v1 \in [Legacy!Calls -> Legacy!Statuses] /\ v8 \subseteq CallAsks
      /\ \A x \in v8 : x.kind = "reject" => x.call \in CallsIn
  BY DEF LegacyInv, LegacyCore, LegacyReplies
<1>2. ASSUME NEW q, NEW kind \in {"end", "reject"}, NEW k \in Legacy!Calls, q = v8 \cup {[kind |-> kind, call |-> k]},
             kind = "reject" => k \in CallsIn, v1[k] # "none"
      PROVE  LegacyReplies(v1, v5, v6, v7, q)
  <2>1. q \subseteq CallAsks /\ \A x \in q : x.kind = "reject" => x.call \in CallsIn
    BY <1>1, <1>2 DEF CallAsks
  <2>2. KnownReplies(v1, v5, v7, q)  BY <1>1, <1>2 DEF LegacyReplies, KnownReplies
  <2> QED  BY <1>1, <2>1, <2>2 DEF LegacyReplies
<1>3. CASE Legacy!EndClicked
  <2>1. UNCHANGED <<v1, v7>> /\ Legacy!Cleanup(v3, v2.cur, None) /\ v2.cur # 0
        /\ v8' = IF v2.active = None THEN v8 ELSE v8 \cup {[kind |-> "end", call |-> v2.active]}
    BY <1>3 DEF Legacy!EndClicked
  <2>2. LegacyReplies(v1, v5, v6, v7, v8')
    <3>1. CASE v2.active = None  BY <1>1, <2>1, <3>1
    <3>2. CASE v2.active # None
      <4>1. v2.active \in Legacy!Calls /\ v1[v2.active] # "none"  BY <1>1, <3>2 DEF CallPages, KnownCalls
      <4> QED  BY <1>2, <2>1, <3>2, <4>1
    <3> QED  BY <3>1, <3>2
  <2>3. CASE v3[v2.cur].cleaned
    <3>1. v3' = v3 /\ UNCHANGED <<v2, v4, v5, v6>>  BY <2>1, <2>3 DEF Legacy!Cleanup
    <3> QED  BY <1>1, <2>1, <2>2, <3>1 DEF LegacyInv
  <2>4. CASE ~v3[v2.cur].cleaned
    <3>1. Legacy!Clean(v3, v2.cur, None)  BY <2>1, <2>4 DEF Legacy!Cleanup
    <3>2. v2.cur \in LegacyNumbers /\ None \in CallsIn \cup {None}  BY <1>1 DEF CallPages
    <3>3. LegacyCore(v1, v2', v3', v4') /\ LegacyReplies(v1, v5', v6', v7, v8)
      BY <1>1, <3>1, <3>2, CleanKeeps
    <3>4. LegacyReplies(v1, v5', v6', v7, v8')
      BY <2>2, <3>3 DEF LegacyReplies, KnownReplies
    <3> QED  BY <1>1, <2>1, <3>3, <3>4 DEF LegacyInv
  <2> QED  BY <2>3, <2>4
<1>4. CASE Legacy!RejectClicked
  <2>1. /\ v8' = v8 \cup {[kind |-> "reject", call |-> v2.incoming]} /\ v2.incoming # None
        /\ UNCHANGED <<v1, v2, v3, v4, v5, v6, v7>>
    BY <1>4 DEF Legacy!RejectClicked
  <2>2. v2.incoming \in CallsIn /\ v2.incoming \in Legacy!Calls /\ v1[v2.incoming] # "none"
    BY <1>1, <2>1 DEF CallPages, KnownCalls
  <2>3. LegacyReplies(v1, v5, v6, v7, v8')  BY <1>2, <2>1, <2>2
  <2> QED  BY <1>1, <2>1, <2>3 DEF LegacyInv
<1>5. ASSUME NEW a \in v8, NEW ok \in BOOLEAN, Legacy!AskReplied(a, ok) PROVE LegacyInv'
  <2>1. /\ v8' = v8 \ {a} /\ v7' = v7 /\ v1' = IF ok THEN [v1 EXCEPT ![a.call] = "over"] ELSE v1
        /\ IF a.kind = "reject" THEN Legacy!Clean(v3, 0, a.call) ELSE UNCHANGED <<v2, v3, v4, v5, v6>>
    BY <1>5 DEF Legacy!AskReplied
  <2>2. a \in CallAsks /\ a.call \in Legacy!Calls /\ v1[a.call] # "none"
    BY <1>1 DEF CallAsks, LegacyReplies, KnownReplies
  <2>3. /\ v1' \in [Legacy!Calls -> Legacy!Statuses]
        /\ \A j \in Legacy!Calls : v1'[j] = "none" => v1[j] = "none"
    BY <1>1, <2>1, <2>2 DEF Legacy!Statuses
  <2>4. LegacyCore(v1, v2', v3', v4') /\ LegacyReplies(v1, v5', v6', v7, v8)
    <3>1. CASE a.kind = "reject"
      <4>1. a.call \in CallsIn /\ 0 \in LegacyNumbers  BY <1>1, <3>1
      <4> QED  BY <1>1, <2>1, <2>2, <3>1, <4>1, CleanKeeps
    <3>2. CASE a.kind # "reject"  BY <1>1, <2>1, <3>2
    <3> QED  BY <3>1, <3>2
  <2>5. LegacyReplies(v1, v5', v6', v7, v8')  BY <2>1, <2>4 DEF LegacyReplies, KnownReplies
  <2>6. LegacyCore(v1', v2', v3', v4') /\ LegacyReplies(v1', v5', v6', v7, v8')  BY <2>3, <2>4, <2>5, ServerKeeps
  <2> QED  BY <2>1, <2>3, <2>6 DEF LegacyInv
<1> QED  BY <1>3, <1>4, <1>5

\* A refresh is asked for, read or given up.
LEMMA AskRefreshKeeps ==
  ASSUME NEW k \in Legacy!Calls, NEW r, LegacyReplies(v1, v5, v6, v7, v8),
         \E x \in CallRefreshes : r = [v5 EXCEPT ![k] = x] /\ (x.status = "none" \/ v1[k] # "none")
  PROVE  LegacyReplies(v1, r, v6, v7, v8)
<1>1. PICK x \in CallRefreshes : r = [v5 EXCEPT ![k] = x] /\ (x.status = "none" \/ v1[k] # "none")  OBVIOUS
<1>2. v5 \in [Legacy!Calls -> CallRefreshes] /\ KnownReplies(v1, v5, v7, v8)  BY DEF LegacyReplies
<1>3. r \in [Legacy!Calls -> CallRefreshes] /\ r[k] = x /\ \A j \in Legacy!Calls : j # k => r[j] = v5[j]
  BY <1>1, <1>2
<1>4. KnownReplies(v1, r, v7, v8)  BY <1>1, <1>2, <1>3 DEF KnownReplies
<1> QED  BY <1>3, <1>4 DEF LegacyReplies

LEMMA CallAskKeeps ==
  ASSUME NEW k \in Legacy!Calls, LegacyReplies(v1, v5, v6, v7, v8), Legacy!Ask(k) \/ Legacy!Done(k)
  PROVE  LegacyReplies(v1, v5', v6, v7, v8)
<1>1. v5 \in [Legacy!Calls -> CallRefreshes] /\ KnownReplies(v1, v5, v7, v8) /\ v5[k] \in CallRefreshes
  BY DEF LegacyReplies
<1>2. v5[k].status = "none" \/ v1[k] # "none"  BY <1>1 DEF KnownReplies
<1>3. Legacy!NoRefresh \in CallRefreshes /\ Legacy!NoRefresh.status = "none"
  BY DEF Legacy!NoRefresh, CallRefreshes, Legacy!Statuses
<1>4. ASSUME Legacy!Ask(k) PROVE LegacyReplies(v1, v5', v6, v7, v8)
  <2> DEFINE x == [Legacy!NoRefresh EXCEPT !.at = "asked", !.fresh = Legacy!Heeded(k)]
             y == [v5[k] EXCEPT !.again = TRUE]
  <2>1. v5' = v5 \/ v5' = [v5 EXCEPT ![k] = x] \/ v5' = [v5 EXCEPT ![k] = y]
    BY <1>1, <1>4 DEF Legacy!Ask
  <2>2. y \in CallRefreshes /\ y.status = v5[k].status
    BY <1>1 DEF CallRefreshes
  <2>3. x \in CallRefreshes /\ x.status = "none"
    <3>1. Legacy!Heeded(k) \in BOOLEAN  BY DEF Legacy!Heeded
    <3> QED  BY <3>1 DEF CallRefreshes, Legacy!NoRefresh, Legacy!Statuses
  <2> HIDE DEF x, y
  <2> QED  BY <1>2, <2>1, <2>2, <2>3, AskRefreshKeeps
<1>5. ASSUME Legacy!Done(k) PROVE LegacyReplies(v1, v5', v6, v7, v8)
  <2> DEFINE x == [Legacy!NoRefresh EXCEPT !.at = "asked", !.fresh = TRUE]
  <2>1. v5' = [v5 EXCEPT ![k] = x] \/ v5' = [v5 EXCEPT ![k] = Legacy!NoRefresh]
    BY <1>1, <1>5 DEF Legacy!Done
  <2>2. x \in CallRefreshes /\ x.status = "none"
    BY DEF CallRefreshes, Legacy!NoRefresh, Legacy!Statuses
  <2> HIDE DEF x
  <2> QED  BY <1>3, <2>1, <2>2, AskRefreshKeeps
<1> QED  BY <1>4, <1>5

\* renderIncomingCall: what ended is not shown again.
LEMMA RenderKeeps ==
  ASSUME LegacyInv, NEW k \in CallsIn, NEW r, v1[k] # "none", Legacy!Render(k, r), UNCHANGED v1
  PROVE  LegacyCore(v1, v2', v3', v4') /\ v6' \in CallShows
<1> USE LegacyFacts
<1>1. LegacyCore(v1, v2, v3, v4) /\ v2 \in CallPages /\ EndedHidden(v2, v4) /\ v6 \in CallShows
  BY DEF LegacyInv, LegacyCore, LegacyReplies
<1>2. CASE Legacy!Terminal(k)  BY <1>1, <1>2 DEF Legacy!Render
<1>3. CASE ~Legacy!Terminal(k)
  <2>1. k \notin v4  BY <1>1, <1>3 DEF Legacy!Terminal, EndedHidden
  <2>2. /\ UNCHANGED <<v3, v4>>
        /\ \/ v2' = [v2 EXCEPT !.incoming = k] /\ v6' = [call |-> k, fresh |-> TRUE]
           \/ v2' = [v2 EXCEPT !.ring = k] /\ v6' = v6
    BY <1>3 DEF Legacy!Render
  <2>3. /\ v2' \in CallPages /\ v2'.cur = v2.cur /\ v2'.peer = v2.peer /\ v2'.active = v2.active
        /\ v2'.incoming \in {v2.incoming, k} /\ v2'.ring \in {v2.ring, k}
    BY <1>1, <2>2 DEF CallPages
  <2>4. v6' \in CallShows
    <3>1. k \in Legacy!Opt  OBVIOUS
    <3>2. [call |-> k, fresh |-> TRUE] \in CallShows  BY <3>1 DEF CallShows
    <3> QED  BY <1>1, <2>2, <3>2
  <2>5. LegacyCore(v1, v2', v3, v4)  BY <1>1, <2>1, <2>3, CallPageKeeps
  <2> QED  BY <2>2, <2>4, <2>5
<1> QED  BY <1>2, <1>3

\* applyCanonicalCall, with a status the server had.
LEMMA ApplyKeeps ==
  ASSUME LegacyInv, NEW k \in Legacy!Calls, Legacy!RefreshReplied(k) PROVE LegacyInv'
<1> USE LegacyFacts
<1> DEFINE status == v5[k].status
<1>1. /\ LegacyCore(v1, v2, v3, v4) /\ LegacyReplies(v1, v5, v6, v7, v8) /\ v2 \in CallPages
      /\ KnownCalls(v1, v3, v2, v4) /\ KnownReplies(v1, v5, v7, v8) /\ v7 \in CallPolls /\ v8 \subseteq CallAsks
      /\ v1 \in [Legacy!Calls -> Legacy!Statuses] /\ \A x \in v8 : x.kind = "reject" => x.call \in CallsIn
  BY DEF LegacyInv, LegacyCore, LegacyReplies
<1>2. /\ UNCHANGED <<v1, v7, v8>>
      /\ \/ Legacy!Apply(k, status)
         \/ v5' = [v5 EXCEPT ![k] = Legacy!NoRefresh] /\ UNCHANGED <<v2, v3, v4, v6>>
  BY DEF Legacy!RefreshReplied
<1>3. CASE Legacy!Done(k) /\ UNCHANGED <<v2, v3, v4, v6>>
  <2>1. LegacyReplies(v1, v5', v6, v7, v8)  BY <1>1, <1>3, CallAskKeeps
  <2> QED  BY <1>1, <1>2, <1>3, <2>1 DEF LegacyInv
<1>4. ASSUME NEW g \in LegacyNumbers, NEW j \in CallsIn \cup {None}, j # None => v1[j] # "none", Legacy!Clean(v3, g, j)
      PROVE  LegacyInv'
  <2>1. LegacyCore(v1, v2', v3', v4') /\ LegacyReplies(v1, v5', v6', v7, v8)  BY <1>1, <1>4, CleanKeeps
  <2> QED  BY <1>1, <1>2, <2>1 DEF LegacyInv
<1>5. v2.cur \in LegacyNumbers /\ 0 \in LegacyNumbers /\ None \in CallsIn \cup {None}  BY <1>1 DEF CallPages
<1>6. CASE Legacy!Clean(v3, v2.cur, None)  BY <1>4, <1>5, <1>6
<1>7. CASE v2.incoming = k /\ Legacy!Clean(v3, 0, k)
  <2>1. k \in CallsIn /\ v1[k] # "none"  BY <1>1, <1>7 DEF CallPages, KnownCalls
  <2> QED  BY <1>4, <1>5, <1>7, <2>1
<1>8. CASE status = "ringing" /\ k \in CallsIn /\ Legacy!Render(k, Legacy!Done(k))
  <2>1. v1[k] # "none"  BY <1>1, <1>8 DEF KnownReplies
  <2>2. LegacyCore(v1, v2', v3', v4') /\ v6' \in CallShows  BY <1>2, <1>8, <2>1, RenderKeeps
  <2>3. Legacy!Done(k)  BY <1>8 DEF Legacy!Render
  <2>4. LegacyReplies(v1, v5', v6, v7, v8)  BY <1>1, <2>3, CallAskKeeps
  <2>5. LegacyReplies(v1, v5', v6', v7, v8)  BY <2>2, <2>4 DEF LegacyReplies
  <2> QED  BY <1>1, <1>2, <2>2, <2>5 DEF LegacyInv
<1>9. CASE v5' = [v5 EXCEPT ![k] = Legacy!NoRefresh] /\ UNCHANGED <<v2, v3, v4, v6>>
  <2>1. Legacy!NoRefresh \in CallRefreshes /\ Legacy!NoRefresh.status = "none"
    BY DEF Legacy!NoRefresh, CallRefreshes, Legacy!Statuses
  <2>2. LegacyReplies(v1, v5', v6, v7, v8)  BY <1>1, <1>9, <2>1, AskRefreshKeeps
  <2> QED  BY <1>1, <1>2, <1>9, <2>2 DEF LegacyInv
<1> HIDE DEF status
<1> QED  BY <1>2, <1>3, <1>6, <1>7, <1>8, <1>9 DEF Legacy!Apply

\* The ring falls silent.
LEMMA RingStops ==
  ASSUME LegacyInv, v2' = [v2 EXCEPT !.ring = None] PROVE LegacyCore(v1, v2', v3, v4)
<1>1. LegacyCore(v1, v2, v3, v4) /\ v2 \in CallPages  BY DEF LegacyInv, LegacyCore
<1>2. /\ v2' \in CallPages /\ v2'.cur = v2.cur /\ v2'.peer = v2.peer /\ v2'.active = v2.active
      /\ v2'.incoming = v2.incoming /\ v2'.ring = None
  BY <1>1, LegacyFacts DEF CallPages
<1> QED  BY <1>1, <1>2, CallPageKeeps

\* The polls, the events and the refreshes.
LEMMA PollsKeep ==
  ASSUME LegacyInv, \/ Legacy!Rung \/ Legacy!PollTick \/ Legacy!PollServed \/ Legacy!PollReplied
                    \/ Legacy!PollFailed \/ Legacy!PollWaited
                    \/ \E k \in Legacy!Calls : \/ Legacy!EventArrives(k) \/ Legacy!RefreshServed(k)
                                               \/ Legacy!RefreshFailed(k) \/ Legacy!Others(k)
  PROVE  LegacyInv'
<1> USE LegacyFacts
<1>1. /\ LegacyCore(v1, v2, v3, v4) /\ LegacyReplies(v1, v5, v6, v7, v8) /\ v2 \in CallPages
      /\ KnownCalls(v1, v3, v2, v4) /\ KnownReplies(v1, v5, v7, v8) /\ v6 \in CallShows /\ v7 \in CallPolls
      /\ v1 \in [Legacy!Calls -> Legacy!Statuses] /\ v5 \in [Legacy!Calls -> CallRefreshes]
      /\ EndedHidden(v2, v4)
  BY DEF LegacyInv, LegacyCore, LegacyReplies
<1>2. CASE Legacy!Rung
  <2>1. /\ v2' = IF v6.fresh /\ v2.incoming = v6.call THEN [v2 EXCEPT !.ring = v6.call] ELSE v2
        /\ v6' = Legacy!NoShow /\ UNCHANGED <<v1, v3, v4, v5, v7, v8>>
    BY <1>2 DEF Legacy!Rung
  <2>2. v6' \in CallShows  BY <2>1 DEF Legacy!NoShow, CallShows
  <2>3. LegacyCore(v1, v2', v3, v4)
    <3>1. CASE v6.fresh /\ v2.incoming = v6.call
      <4>1. v2' = [v2 EXCEPT !.ring = v2.incoming]  BY <2>1, <3>1
      <4>2. /\ v2' \in CallPages /\ v2'.cur = v2.cur /\ v2'.peer = v2.peer /\ v2'.active = v2.active
            /\ v2'.incoming = v2.incoming /\ v2'.ring = v2.incoming
        BY <1>1, <4>1 DEF CallPages
      <4>3. v2.incoming \notin v4  BY <1>1 DEF EndedHidden
      <4> QED  BY <1>1, <4>2, <4>3, CallPageKeeps
    <3>2. CASE ~(v6.fresh /\ v2.incoming = v6.call)  BY <1>1, <2>1, <3>2
    <3> QED  BY <3>1, <3>2
  <2>4. LegacyReplies(v1, v5, v6', v7, v8)  BY <1>1, <2>2 DEF LegacyReplies
  <2> QED  BY <1>1, <2>1, <2>3, <2>4 DEF LegacyInv
<1>3. ASSUME NEW po \in CallPolls, \A k \in po.list : v1[k] # "none", v7' = po, v5' = v5 \/ \E k \in Legacy!Calls : Legacy!Ask(k),
             UNCHANGED <<v1, v6, v8>>
      PROVE  LegacyReplies(v1', v5', v6', v7', v8')
  <2>1. LegacyReplies(v1, v5', v6, v7, v8)  BY <1>1, <1>3, CallAskKeeps
  <2>2. LegacyReplies(v1, v5', v6, po, v8)  BY <1>3, <2>1 DEF LegacyReplies, KnownReplies
  <2> QED  BY <1>3, <2>2
<1>4. v7 \in CallPolls /\ \A k \in v7.list : v1[k] # "none"
  BY <1>1 DEF KnownReplies, CallPolls
<1>n. Legacy!NoPoll \in CallPolls /\ Legacy!NoPoll.list = {}  BY DEF Legacy!NoPoll, CallPolls
<1>w. ASSUME NEW at \in {"follows", "clears"}, NEW k \in Legacy!Calls
      PROVE  /\ [Legacy!NoPoll EXCEPT !.at = at, !.call = k] \in CallPolls
             /\ [Legacy!NoPoll EXCEPT !.at = at, !.call = k].list = {}
  BY DEF Legacy!NoPoll, CallPolls
<1>5. CASE Legacy!PollTick
  <2>1. UNCHANGED <<v1, v2, v3, v4, v6, v8>>  BY <1>5 DEF Legacy!PollTick
  <2>2. CASE v2.active # None
    <3>1. /\ Legacy!Ask(v2.active) /\ v2.active \in Legacy!Calls
          /\ v7' = [Legacy!NoPoll EXCEPT !.at = "follows", !.call = v2.active]
      BY <1>1, <1>5, <2>2 DEF Legacy!PollTick, CallPages
    <3>2. v7' \in CallPolls /\ v7'.list = {}  BY <1>w, <3>1
    <3> QED  BY <1>1, <1>3, <2>1, <3>1, <3>2 DEF LegacyInv
  <2>3. CASE v2.active = None
    <3>1. v7' = [Legacy!NoPoll EXCEPT !.at = "asked"] /\ v5' = v5  BY <1>5, <2>3 DEF Legacy!PollTick
    <3>2. v7' \in CallPolls /\ v7'.list = {}  BY <3>1 DEF CallPolls, Legacy!NoPoll
    <3> QED  BY <1>1, <1>3, <2>1, <3>1, <3>2 DEF LegacyInv
  <2> QED  BY <2>2, <2>3
<1>6. CASE Legacy!PollServed \/ Legacy!PollFailed
  <2> DEFINE list == {k \in CallsIn : v1[k] = "ringing"}
  <2>1. /\ v7' = [v7 EXCEPT !.at = "served", !.list = list] \/ v7' = Legacy!NoPoll
        /\ UNCHANGED <<v1, v2, v3, v4, v5, v6, v8>>
    BY <1>6 DEF Legacy!PollServed, Legacy!PollFailed
  <2>2. list \subseteq CallsIn /\ \A k \in list : v1[k] # "none"  OBVIOUS
  <2> HIDE DEF list
  <2>3. v7' \in CallPolls /\ v7'.list \in {list, {}}  BY <1>1, <1>n, <2>1, <2>2 DEF CallPolls
  <2> QED  BY <1>1, <1>3, <2>1, <2>2, <2>3 DEF LegacyInv
<1>7. CASE Legacy!PollReplied
  <2>1. UNCHANGED <<v1, v8>>  BY <1>7 DEF Legacy!PollReplied
  <2>2. CASE v2' = [v2 EXCEPT !.ring = None] /\ v7' = Legacy!NoPoll /\ UNCHANGED <<v3, v4, v5, v6>>
    BY <1>1, <1>3, <1>n, <2>1, <2>2, RingStops DEF LegacyInv
  <2>3. CASE /\ v2.incoming # None /\ Legacy!Ask(v2.incoming)
             /\ v7' = [Legacy!NoPoll EXCEPT !.at = "clears", !.call = v2.incoming] /\ UNCHANGED <<v2, v3, v4, v6>>
    <3>1. v2.incoming \in Legacy!Calls  BY <1>1, <2>3 DEF CallPages
    <3>2. v7' \in CallPolls /\ v7'.list = {}  BY <1>w, <2>3, <3>1
    <3> QED  BY <1>1, <1>3, <2>1, <2>3, <3>1, <3>2 DEF LegacyInv
  <2>4. ASSUME NEW k \in v7.list, Legacy!Render(k, UNCHANGED v5), v7' = Legacy!NoPoll PROVE LegacyInv'
    <3>1. k \in CallsIn /\ v1[k] # "none"  BY <1>1, <1>4 DEF CallPolls
    <3>2. LegacyCore(v1, v2', v3', v4') /\ v6' \in CallShows  BY <2>1, <2>4, <3>1, RenderKeeps
    <3>3. v5' = v5  BY <2>4 DEF Legacy!Render
    <3>4. LegacyReplies(v1, v5, v6', v7', v8)  BY <1>1, <1>n, <2>4, <3>2 DEF LegacyReplies, KnownReplies
    <3> QED  BY <1>1, <2>1, <3>2, <3>3, <3>4 DEF LegacyInv
  <2> QED  BY <1>7, <2>2, <2>3, <2>4 DEF Legacy!PollReplied
<1>11. CASE Legacy!PollWaited
  <2>1. UNCHANGED <<v1, v8>> /\ v7' = Legacy!NoPoll  BY <1>11 DEF Legacy!PollWaited
  <2>2. CASE v2' = [v2 EXCEPT !.ring = None] /\ UNCHANGED <<v3, v4, v5, v6>>
    BY <1>1, <1>3, <1>n, <2>1, <2>2, RingStops DEF LegacyInv
  <2>3. CASE UNCHANGED <<v2, v3, v4, v5, v6>>  BY <1>1, <1>3, <1>n, <2>1, <2>3 DEF LegacyInv
  <2>4. CASE Legacy!Clean(v3, v2.cur, None)
    <3>1. v2.cur \in LegacyNumbers /\ None \in CallsIn \cup {None}  BY <1>1 DEF CallPages
    <3>2. LegacyCore(v1, v2', v3', v4') /\ LegacyReplies(v1, v5', v6', v7, v8)
      BY <1>1, <2>4, <3>1, CleanKeeps
    <3>3. LegacyReplies(v1, v5', v6', v7', v8)  BY <1>n, <2>1, <3>2 DEF LegacyReplies, KnownReplies
    <3> QED  BY <1>1, <2>1, <3>2, <3>3 DEF LegacyInv
  <2> QED  BY <1>11, <2>2, <2>3, <2>4 DEF Legacy!PollWaited, Legacy!Cleanup
<1>8. ASSUME NEW k \in Legacy!Calls, Legacy!EventArrives(k) PROVE LegacyInv'
  <2>1. LegacyReplies(v1, v5', v6, v7, v8)  BY <1>1, <1>8, CallAskKeeps DEF Legacy!EventArrives
  <2> QED  BY <1>1, <1>8, <2>1 DEF Legacy!EventArrives, LegacyInv
<1>9. ASSUME NEW k \in Legacy!Calls, Legacy!RefreshServed(k) \/ Legacy!RefreshFailed(k) PROVE LegacyInv'
  <2> DEFINE x == [v5[k] EXCEPT !.at = "served", !.status = v1[k]]
  <2>1. /\ UNCHANGED <<v1, v2, v3, v4, v6, v7, v8>>
        /\ (v5' = [v5 EXCEPT ![k] = x] /\ v1[k] # "none") \/ v5' = [v5 EXCEPT ![k] = Legacy!NoRefresh]
    BY <1>1, <1>9 DEF Legacy!RefreshServed, Legacy!RefreshFailed
  <2>2. x \in CallRefreshes
    <3>1. v5[k] \in CallRefreshes /\ v1[k] \in Legacy!Statuses  BY <1>1
    <3> QED  BY <3>1 DEF CallRefreshes
  <2>3. Legacy!NoRefresh \in CallRefreshes /\ Legacy!NoRefresh.status = "none"
    BY DEF Legacy!NoRefresh, CallRefreshes, Legacy!Statuses
  <2> HIDE DEF x
  <2>4. LegacyReplies(v1, v5', v6, v7, v8)  BY <1>1, <2>1, <2>2, <2>3, AskRefreshKeeps
  <2> QED  BY <1>1, <2>1, <2>4 DEF LegacyInv
<1>10. ASSUME NEW k \in Legacy!Calls, Legacy!Others(k) PROVE LegacyInv'
  <2>1. UNCHANGED <<v2, v3, v4, v5, v6, v7, v8>> /\ \E x \in Legacy!Statuses \ {"none"} : v1' = [v1 EXCEPT ![k] = x]
    BY <1>10 DEF Legacy!Others, Legacy!Statuses
  <2>2. /\ v1' \in [Legacy!Calls -> Legacy!Statuses]
        /\ \A j \in Legacy!Calls : v1'[j] = "none" => v1[j] = "none"
    BY <1>1, <2>1
  <2>3. LegacyCore(v1', v2, v3, v4) /\ LegacyReplies(v1', v5, v6, v7, v8)  BY <1>1, <2>2, ServerKeeps
  <2> QED  BY <2>1, <2>2, <2>3 DEF LegacyInv
<1> QED  BY <1>2, <1>5, <1>6, <1>7, <1>8, <1>9, <1>10, <1>11

LEMMA LegacyStepKeeps == ASSUME PagesConstants, LegacyInv, [Legacy!Next]_Legacy!vars PROVE LegacyInv'
<1>1. CASE UNCHANGED Legacy!vars  BY <1>1 DEF Legacy!vars, LegacyInv
<1>2. CASE Legacy!Next
  BY <1>2, CallBeginKeeps, MicKeeps, ServersKeeps, DescribedKeeps, ServedKeeps, CallUpKeeps, EndKeeps, ApplyKeeps,
         PollsKeep
     DEF Legacy!Next
<1> QED  BY <1>1, <1>2

LegacyPart == which = "legacy" => LegacyInv

LEMMA LegacyStart == Init => LegacyPart
  BY PagesConstants, LegacyInitEstablishes DEF Init, LegacyPart

LEMMA LegacyStep == LegacyPart /\ [Next]_vars => LegacyPart'
<1> SUFFICES ASSUME LegacyPart, [Next]_vars PROVE LegacyPart'
  OBVIOUS
<1>1. CASE which = "legacy"
  <2>1. [Legacy!Next]_Legacy!vars  BY <1>1 DEF Next, vars, Step, Legacy!vars
  <2>2. which' = "legacy"  BY <1>1 DEF Next, vars, Step
  <2> QED  BY <1>1, <2>1, <2>2, PagesConstants, LegacyStepKeeps DEF LegacyPart
<1>2. CASE which # "legacy"  BY <1>2 DEF Next, vars, Step, LegacyPart
<1> QED  BY <1>1, <1>2

-----------------------------------------------------------------------------
(* What the invariants say. *)

LEMMA ScannerIs == ScannerInv => Scanner!TypeOK /\ Scanner!CameraOfDialog
  BY DEF ScannerInv

LEMMA NegotiationIs == NegotiationInv => Negotiation!TypeOK /\ Negotiation!AnswerMatchesOffer
<1> SUFFICES ASSUME NegotiationInv PROVE Negotiation!TypeOK /\ Negotiation!AnswerMatchesOffer  OBVIOUS
<1>1. Negotiation!TypeOK
  <2>1. /\ v1 \in OfferRecords /\ v2 \in Callers /\ v3 \in Callees /\ v4 \in [Negotiation!Sides -> Readings]
        /\ v5 \in [Negotiation!Sides -> IceStates] /\ 1 <= v1.offer /\ 1 <= v3.offer
    BY DEF NegotiationInv, NegotiationTyped
  <2>2. v1 \in [offer : 1 .. Offers, answer : 0 .. Offers, ice : SUBSET Negotiation!Sides]
    BY <2>1, OfferFacts DEF OfferRecords, OfferNumbers
  <2>3. v3 \in [offer : 1 .. Offers, at : {"none", "answer", "served"}]
    BY <2>1, OfferFacts DEF Callees, OfferNumbers
  <2> QED  BY <2>1, <2>2, <2>3 DEF Negotiation!TypeOK, Callers, Readings, IceStates, OfferNumbers
<1>2. Negotiation!AnswerMatchesOffer  BY DEF NegotiationInv, OfferOpen, Negotiation!AnswerMatchesOffer
<1> QED  BY <1>1, <1>2

LEMMA PollIs == PollInv => Poll!TypeOK /\ Poll!IntentsOnce
<1> SUFFICES ASSUME PollInv PROVE Poll!TypeOK /\ Poll!IntentsOnce  OBVIOUS
<1>1. Poll!TypeOK
  <2>1. RefreshSteps = {"none", "polled", "chosen", "lists", "polled_lists", "intents", "polled_intents"}
    BY DEF RefreshSteps, PolledSteps
  <2> QED  BY <2>1 DEF PollInv, PollTyped, Poll!TypeOK, PollPages, BeatStates, Heards, LinkIntents
<1>2. Poll!IntentsOnce
  BY DEF PollInv, OwnRefresh, TakenOnce, PolledSteps, Poll!IntentsOnce
<1> QED  BY <1>1, <1>2

LEMMA LegacyIs == LegacyInv => Legacy!TypeOK /\ Legacy!NoCallReturns /\ Legacy!MicrophoneAccounted
<1> SUFFICES ASSUME LegacyInv PROVE Legacy!TypeOK /\ Legacy!NoCallReturns /\ Legacy!MicrophoneAccounted  OBVIOUS
<1>1. Legacy!TypeOK
  <2>1. v2 \in [cur : 0 .. Attempts, active : Legacy!Opt, incoming : Legacy!Opt, setup : BOOLEAN,
                peer : 0 .. Attempts, ring : Legacy!Opt]
    <3>1. v2 \in CallPages /\ CallsIn \cup {None} \subseteq Legacy!Opt
      BY LegacyFacts DEF LegacyInv, LegacyCore
    <3> QED  BY <3>1 DEF CallPages, LegacyNumbers
  <2> QED
    BY <2>1 DEF LegacyInv, LegacyCore, LegacyReplies, Legacy!TypeOK, CallAtts, LegacyAts, CallRefreshes, CallShows,
                CallPolls, CallAsks
<1>2. Legacy!NoCallReturns  BY DEF LegacyInv, LegacyCore, EndedHidden, Legacy!NoCallReturns
<1>3. Legacy!MicrophoneAccounted  BY DEF LegacyInv, LegacyCore, MicRows, Legacy!MicrophoneAccounted
<1> QED  BY <1>1, <1>2, <1>3

-----------------------------------------------------------------------------
(* The contacts rail. *)

RailServers == [links : [Peers -> Rail!Links], blocked : SUBSET Peers, changes : 0 .. RelationChanges]
RailShows == [links : [Peers -> Rail!Links], blocked : SUBSET Peers, found : [Peers -> Rail!Links \cup {None}]]
RailSurfaces == {Rail!NoSurface} \cup [kind : {"menu", "confirm"}, peer : Peers, action : Rail!Actions]
RailOps == [at : {"none", "task", "served", "reload", "search", "chat"}, action : Rail!Actions \cup {"none"}]
RailReads == [links : [Peers -> Rail!Links] \cup {None}, blocked : (SUBSET Peers) \cup {None}, since : 0 .. RelationChanges]

RailTyped ==
  /\ v1 \in RailServers /\ v2 \in RailShows /\ v3 \in RailSurfaces
  /\ v4 \in [Rail!Keys -> RailOps] /\ v5 \in [Rail!Keys -> RailReads] /\ v6 \in BOOLEAN

\* What was read when nothing has changed since is the relation as it is.
ReadsOf(s, r) ==
  /\ r.since <= s.changes
  /\ r.since = s.changes => /\ r.links # None => r.links = s.links
                            /\ r.blocked # None => r.blocked = s.blocked

\* A rail that is not behind shows the relations, or a change it will reload after is under way.
RailFollows(s, sh, os, late) ==
  ~late => \/ sh.links = s.links /\ sh.blocked = s.blocked
           \/ \E k \in Rail!Keys : os[k].at \in {"served", "reload"}

RailInv == RailTyped /\ (\A k \in Rail!Keys : ReadsOf(v1, v5[k])) /\ RailFollows(v1, v2, v4, v6)

LEMMA RailBounds ==
  /\ RelationChanges \in Nat /\ 0 \in 0 .. RelationChanges
  /\ Rail!NoOp \in RailOps /\ Rail!NoOp.at = "none" /\ Rail!NoRead \in RailReads
  /\ Rail!NoRead.links = None /\ Rail!NoRead.blocked = None /\ Rail!NoRead.since = 0
<1>1. RelationChanges \in Nat  BY PagesConstants DEF Rail!ContactsAssumption
<1> QED  BY <1>1 DEF Rail!NoOp, Rail!NoRead, RailOps, RailReads

LEMMA RailInitEstablishes == ASSUME Rail!Init PROVE RailInv
<1>1. PICK l \in [Peers -> Rail!Links] : v1 = [links |-> l, blocked |-> {}, changes |-> 0]  BY DEF Rail!Init
<1>2. v1 \in RailServers /\ v1.changes = 0  BY <1>1, RailBounds DEF RailServers
<1>3. v2 \in RailShows  BY DEF Rail!Init, RailShows, Rail!Links
<1>4. v3 \in RailSurfaces /\ v6 \in BOOLEAN  BY DEF Rail!Init, RailSurfaces
<1> DEFINE r == [Rail!NoOp EXCEPT !.at = "reload"]
<1>5. r \in RailOps /\ r.at = "reload"  BY RailBounds DEF RailOps
<1>6. v4 = [k \in Rail!Keys |-> IF k = "page" THEN r ELSE Rail!NoOp]  BY DEF Rail!Init
<1> HIDE DEF r
<1>7. v4 \in [Rail!Keys -> RailOps] /\ v4["page"].at = "reload" /\ "page" \in Rail!Keys
  BY <1>5, <1>6, RailBounds DEF Rail!Keys
<1>8. v5 \in [Rail!Keys -> RailReads] /\ \A k \in Rail!Keys : v5[k] = Rail!NoRead  BY RailBounds DEF Rail!Init
<1>9. \A k \in Rail!Keys : ReadsOf(v1, v5[k])  BY <1>2, <1>8, RailBounds DEF ReadsOf
<1> QED  BY <1>2, <1>3, <1>4, <1>7, <1>8, <1>9 DEF RailInv, RailTyped, RailFollows

\* A change of the relations: whatever was read before is older.
LEMMA RelationsChange ==
  ASSUME RailInv, NEW s \in RailServers, s.changes = v1.changes, v1.changes < RelationChanges, Rail!Change(s)
  PROVE  v1' \in RailServers /\ \A k \in Rail!Keys : ReadsOf(v1', v5[k])
<1> DEFINE n == s.changes + 1
<1>1. v1' = [s EXCEPT !.changes = n]  BY DEF Rail!Change
<1>2. v1.changes \in 0 .. RelationChanges  BY DEF RailInv, RailTyped, RailServers
<1>3. n \in 0 .. RelationChanges /\ n = v1.changes + 1  BY <1>2, RailBounds
<1> HIDE DEF n
<1>4. v1' \in RailServers /\ v1'.changes = n  BY <1>1, <1>3 DEF RailServers
<1>5. ASSUME NEW k \in Rail!Keys PROVE ReadsOf(v1', v5[k])
  <2>1. v5[k].since \in 0 .. RelationChanges /\ v5[k].since <= v1.changes
    BY DEF RailInv, RailTyped, RailReads, ReadsOf
  <2>2. v5[k].since < v1'.changes  BY <1>2, <1>3, <1>4, <2>1, RailBounds
  <2> QED  BY <1>2, <1>3, <1>4, <2>1, <2>2, RailBounds DEF ReadsOf
<1> QED  BY <1>4, <1>5

LEMMA AfterTyped ==
  ASSUME NEW s \in RailServers, NEW p \in Peers, NEW action
  PROVE  Rail!After(s, p, action) \in RailServers /\ Rail!After(s, p, action).changes = s.changes
<1> DEFINE added == s.blocked \cup {p}
           removed == s.blocked \ {p}
           gone == [s.links EXCEPT ![p] = "none"]
           sent == [s.links EXCEPT ![p] = "pending_sent"]
           friends == [s.links EXCEPT ![p] = "accepted"]
<1>1. s \in [links : [Peers -> Rail!Links], blocked : SUBSET Peers, changes : 0 .. RelationChanges]  BY DEF RailServers
<1>2. /\ Rail!After(s, p, "block") = [s EXCEPT !.blocked = added, !.links = gone]
      /\ Rail!After(s, p, "unblock") = [s EXCEPT !.blocked = removed]
      /\ Rail!After(s, p, "request") = [s EXCEPT !.links = sent]
      /\ Rail!After(s, p, "accept") = [s EXCEPT !.links = friends]
  BY <1>1 DEF Rail!After
<1>3. action \notin {"block", "unblock", "request", "accept"} => Rail!After(s, p, action) = [s EXCEPT !.links = gone]
  BY <1>1 DEF Rail!After
<1>4. /\ added \in SUBSET Peers /\ removed \in SUBSET Peers /\ gone \in [Peers -> Rail!Links]
      /\ sent \in [Peers -> Rail!Links] /\ friends \in [Peers -> Rail!Links]
  BY <1>1 DEF Rail!Links
<1> HIDE DEF added, removed, gone, sent, friends
<1>5. CASE action = "block"
  <2>1. [s EXCEPT !.blocked = added, !.links = gone] \in RailServers
        /\ [s EXCEPT !.blocked = added, !.links = gone].changes = s.changes
    BY <1>1, <1>4 DEF RailServers
  <2> QED  BY <1>2, <1>5, <2>1
<1>6. CASE action = "unblock"
  <2>1. [s EXCEPT !.blocked = removed] \in RailServers /\ [s EXCEPT !.blocked = removed].changes = s.changes
    BY <1>1, <1>4 DEF RailServers
  <2> QED  BY <1>2, <1>6, <2>1
<1>7. CASE action = "request"
  <2>1. [s EXCEPT !.links = sent] \in RailServers /\ [s EXCEPT !.links = sent].changes = s.changes
    BY <1>1, <1>4 DEF RailServers
  <2> QED  BY <1>2, <1>7, <2>1
<1>8. CASE action = "accept"
  <2>1. [s EXCEPT !.links = friends] \in RailServers /\ [s EXCEPT !.links = friends].changes = s.changes
    BY <1>1, <1>4 DEF RailServers
  <2> QED  BY <1>2, <1>8, <2>1
<1>9. CASE action \notin {"block", "unblock", "request", "accept"}
  <2>1. [s EXCEPT !.links = gone] \in RailServers /\ [s EXCEPT !.links = gone].changes = s.changes
    BY <1>1, <1>4 DEF RailServers
  <2> QED  BY <1>3, <1>9, <2>1
<1> QED  BY <1>5, <1>6, <1>7, <1>8, <1>9

\* A peer acts, or the server does what the user asked.
LEMMA RelationsKeep ==
  ASSUME RailInv, \E p \in Peers : Rail!PeerActs(p) \/ Rail!TaskServed(p)
  PROVE  RailInv'
<1>1. /\ v1 \in RailServers /\ v2 \in RailShows /\ v3 \in RailSurfaces
      /\ v4 \in [Rail!Keys -> RailOps] /\ v5 \in [Rail!Keys -> RailReads] /\ v6 \in BOOLEAN
  BY DEF RailInv, RailTyped
<1>2. PICK p \in Peers : Rail!PeerActs(p) \/ Rail!TaskServed(p)  OBVIOUS
<1>3. p \in Rail!Keys  BY DEF Rail!Keys
<1>4. CASE Rail!PeerActs(p)
  <2>1. PICK l \in Rail!Links : Rail!Change([v1 EXCEPT !.links[p] = l])  BY <1>4 DEF Rail!PeerActs
  <2> DEFINE f == [v1.links EXCEPT ![p] = l]
             s == [v1 EXCEPT !.links = f]
  <2>2. f \in [Peers -> Rail!Links] /\ Rail!Change(s) /\ v1.changes < RelationChanges
    BY <1>1, <1>4, <2>1 DEF RailServers, Rail!PeerActs
  <2> HIDE DEF f
  <2>3. s \in RailServers /\ s.changes = v1.changes  BY <1>1, <2>2 DEF RailServers
  <2> HIDE DEF s
  <2>4. v1' \in RailServers /\ \A k \in Rail!Keys : ReadsOf(v1', v5[k])  BY <2>2, <2>3, RelationsChange
  <2>5. v6' = TRUE /\ UNCHANGED <<v2, v3, v4, v5>>  BY <1>4 DEF Rail!PeerActs
  <2> QED  BY <1>1, <2>4, <2>5 DEF RailInv, RailTyped, RailFollows
<1>5. CASE Rail!TaskServed(p)
  <2> DEFINE s == Rail!After(v1, p, v4[p].action)
             r == [v4[p] EXCEPT !.at = "served"]
  <2>1. v1.changes < RelationChanges /\ Rail!Change(s) /\ v4' = [v4 EXCEPT ![p] = r] /\ UNCHANGED <<v2, v3, v5, v6>>
    BY <1>5 DEF Rail!TaskServed
  <2>2. s \in RailServers /\ s.changes = v1.changes  BY <1>1, AfterTyped
  <2>3. r \in RailOps /\ r.at = "served"  BY <1>1, <1>3 DEF RailOps
  <2> HIDE DEF s, r
  <2>4. v1' \in RailServers /\ \A k \in Rail!Keys : ReadsOf(v1', v5[k])  BY <2>1, <2>2, RelationsChange
  <2>5. v4' \in [Rail!Keys -> RailOps] /\ v4'[p].at = "served"  BY <1>1, <1>3, <2>1, <2>3
  <2> QED  BY <1>1, <1>3, <2>1, <2>4, <2>5 DEF RailInv, RailTyped, RailFollows
<1> QED  BY <1>2, <1>4, <1>5

\* One key's operation moves on; nobody else's does.
OpSet(k, r) ==
  r \in RailOps /\ v4' = [v4 EXCEPT ![k] = r] /\ UNCHANGED <<v1, v2>>

LEMMA RailOpMoves ==
  ASSUME RailInv, NEW k \in Rail!Keys, NEW r, OpSet(k, r),
         v6' \in BOOLEAN, v6 => v6', ~v6' => (v4[k].at \in {"served", "reload"} => r.at \in {"served", "reload"})
  PROVE  v4' \in [Rail!Keys -> RailOps] /\ RailFollows(v1', v2', v4', v6')
<1>1. v4 \in [Rail!Keys -> RailOps]  BY DEF RailInv, RailTyped
<1>2. v4' \in [Rail!Keys -> RailOps] /\ v4'[k] = r /\ \A q \in Rail!Keys \ {k} : v4'[q] = v4[q]
  BY <1>1 DEF OpSet
<1>3. RailFollows(v1', v2', v4', v6')
  <2> SUFFICES ASSUME ~v6', ~(v2.links = v1.links /\ v2.blocked = v1.blocked)
               PROVE  \E q \in Rail!Keys : v4'[q].at \in {"served", "reload"}
    BY DEF RailFollows, OpSet
  <2>1. PICK q \in Rail!Keys : v4[q].at \in {"served", "reload"}  BY DEF RailInv, RailFollows
  <2> QED  BY <1>2, <2>1
<1> QED  BY <1>2, <1>3

\* What the user opens, and what begins or ends without the server.
LEMMA RailClicksKeep ==
  ASSUME RailInv,
         \/ Rail!SurfaceClosed \/ Rail!MenuClicked \/ Rail!ConfirmClicked \/ Rail!AvatarChanged
         \/ \E p \in Peers : Rail!MenuOpened(p) \/ Rail!ChatClicked(p) \/ Rail!ChatFailed(p)
         \/ \E k \in Rail!Keys : Rail!TaskReplied(k)
  PROVE  RailInv'
<1>1. /\ v1 \in RailServers /\ v2 \in RailShows /\ v3 \in RailSurfaces
      /\ v4 \in [Rail!Keys -> RailOps] /\ v5 \in [Rail!Keys -> RailReads] /\ v6 \in BOOLEAN
  BY DEF RailInv, RailTyped
<1>2. UNCHANGED <<v1, v2, v5, v6>>
  BY DEF Rail!SurfaceClosed, Rail!MenuClicked, Rail!ConfirmClicked, Rail!AvatarChanged, Rail!MenuOpened,
         Rail!ChatClicked, Rail!ChatFailed, Rail!TaskReplied
<1>3. Rail!NoSurface \in RailSurfaces /\ "page" \in Rail!Keys /\ Peers \subseteq Rail!Keys
  BY DEF RailSurfaces, Rail!Keys
<1>4. v3.kind \in {"menu", "confirm"} => v3 \in [kind : {"menu", "confirm"}, peer : Peers, action : Rail!Actions]
  BY <1>1 DEF RailSurfaces, Rail!NoSurface
<1> DEFINE Same == v4' = v4
           Moved == \E k \in Rail!Keys : \E r \in RailOps :
                      /\ v4' = [v4 EXCEPT ![k] = r]
                      /\ v4[k].at \in {"served", "reload"} => r.at \in {"served", "reload"}
<1>5. ASSUME v3' \in RailSurfaces, Same PROVE RailInv'
  BY <1>1, <1>2, <1>5 DEF RailInv, RailTyped
<1>6. ASSUME v3' \in RailSurfaces, Moved PROVE RailInv'
  <2>1. PICK k \in Rail!Keys, r \in RailOps :
           /\ v4' = [v4 EXCEPT ![k] = r]
           /\ v4[k].at \in {"served", "reload"} => r.at \in {"served", "reload"}
    BY <1>6
  <2>2. OpSet(k, r)  BY <1>2, <2>1 DEF OpSet
  <2>3. v6' \in BOOLEAN /\ (v6 => v6')  BY <1>1, <1>2
  <2>4. v4' \in [Rail!Keys -> RailOps] /\ RailFollows(v1', v2', v4', v6')  BY <2>1, <2>2, <2>3, RailOpMoves
  <2>5. \A q \in Rail!Keys : ReadsOf(v1', v5'[q])  BY <1>2 DEF RailInv
  <2> QED  BY <1>1, <1>2, <1>6, <2>4, <2>5 DEF RailInv, RailTyped
<1>7. ASSUME NEW p \in Peers, NEW a \in Rail!Actions, Rail!Mutate(p, a) PROVE Same \/ Moved
  <2> DEFINE r == [Rail!NoOp EXCEPT !.at = "task", !.action = a]
  <2>1. r \in RailOps  BY RailBounds DEF RailOps
  <2>2. Same \/ (v4[p].at = "none" /\ v4' = [v4 EXCEPT ![p] = r])  BY <1>7 DEF Rail!Mutate
  <2> HIDE DEF r
  <2> QED  BY <1>3, <2>1, <2>2
<1>8. ASSUME NEW k \in Rail!Keys, NEW a \in {"task", "reload", "chat"},
             v4' = [v4 EXCEPT ![k].at = a], v4[k].at \in {"served", "reload"} => a = "reload"
      PROVE  Moved
  <2> DEFINE r == [v4[k] EXCEPT !.at = a]
  <2>1. r \in RailOps /\ r.at = a /\ v4' = [v4 EXCEPT ![k] = r]  BY <1>1, <1>8 DEF RailOps
  <2> HIDE DEF r
  <2> QED  BY <1>8, <2>1
<1>9. ASSUME NEW k \in Rail!Keys, v4' = [v4 EXCEPT ![k] = Rail!NoOp], v4[k].at = "chat" PROVE Moved
  BY <1>9, RailBounds
<1> HIDE DEF Same, Moved
<1>10. CASE Rail!SurfaceClosed
  <2>1. v3' = Rail!NoSurface /\ v4' = v4  BY <1>10 DEF Rail!SurfaceClosed
  <2> QED  BY <1>3, <1>5, <2>1 DEF Same
<1>11. CASE Rail!MenuClicked
  <2> DEFINE c == [v3 EXCEPT !.kind = "confirm"]
  <2>1. v3 \in [kind : {"menu", "confirm"}, peer : Peers, action : Rail!Actions]
    BY <1>4, <1>11 DEF Rail!MenuClicked
  <2>2. c \in RailSurfaces /\ v3.peer \in Peers /\ v3.action \in Rail!Actions  BY <2>1 DEF RailSurfaces
  <2>3. \/ v3' = c /\ v4' = v4
        \/ v3' = Rail!NoSurface /\ Rail!Mutate(v3.peer, v3.action)
    BY <1>11 DEF Rail!MenuClicked
  <2> HIDE DEF c
  <2>4. v3' \in RailSurfaces /\ (Same \/ Moved)  BY <1>3, <1>7, <2>2, <2>3 DEF Same
  <2> QED  BY <1>5, <1>6, <2>4
<1>12. CASE Rail!ConfirmClicked
  <2>1. v3.peer \in Peers /\ v3.action \in Rail!Actions  BY <1>4, <1>12 DEF Rail!ConfirmClicked
  <2>2. v3' = Rail!NoSurface /\ Rail!Mutate(v3.peer, v3.action)  BY <1>12 DEF Rail!ConfirmClicked
  <2> QED  BY <1>3, <1>5, <1>6, <1>7, <2>1, <2>2
<1>13. CASE Rail!AvatarChanged
  <2>1. v3' = v3 /\ v4["page"].at = "none" /\ v4' = [v4 EXCEPT !["page"].at = "task"]
    BY <1>13 DEF Rail!AvatarChanged
  <2>2. Moved  BY <1>3, <1>8, <2>1
  <2> QED  BY <1>1, <1>6, <2>1, <2>2
<1>14. ASSUME NEW p \in Peers, Rail!MenuOpened(p) PROVE RailInv'
  <2>0. PICK relation \in Rail!Rows(p) : \E a \in Rail!Offered(relation) : v3' = [kind |-> "menu", peer |-> p, action |-> a]
    BY <1>14 DEF Rail!MenuOpened
  <2>1. PICK a \in Rail!Offered(relation) : v3' = [kind |-> "menu", peer |-> p, action |-> a]  BY <2>0
  <2>2. a \in Rail!Actions  BY <2>1 DEF Rail!Offered, Rail!Actions
  <2>3. v3' \in RailSurfaces /\ v4' = v4  BY <1>14, <2>1, <2>2 DEF RailSurfaces, Rail!MenuOpened
  <2> QED  BY <1>5, <2>3 DEF Same
<1>15. ASSUME NEW p \in Peers, Rail!ChatClicked(p) \/ Rail!ChatFailed(p) PROVE RailInv'
  <2>1. p \in Rail!Keys /\ v3' = v3  BY <1>3, <1>15 DEF Rail!ChatClicked, Rail!ChatFailed
  <2>2. \/ v4[p].at = "none" /\ v4' = [v4 EXCEPT ![p].at = "chat"]
        \/ v4[p].at = "chat" /\ v4' = [v4 EXCEPT ![p] = Rail!NoOp]
    BY <1>15 DEF Rail!ChatClicked, Rail!ChatFailed
  <2>3. Moved  BY <1>8, <1>9, <2>1, <2>2
  <2> QED  BY <1>1, <1>6, <2>1, <2>3
<1>16. ASSUME NEW k \in Rail!Keys, Rail!TaskReplied(k) PROVE RailInv'
  <2>1. v3' = v3  BY <1>16 DEF Rail!TaskReplied
  <2>2. v4' = [v4 EXCEPT ![k].at = "reload"]
    BY <1>16 DEF Rail!TaskReplied
  <2>3. Moved  BY <1>8, <2>2
  <2> QED  BY <1>1, <1>6, <2>1, <2>3
<1> QED  BY <1>10, <1>11, <1>12, <1>13, <1>14, <1>15, <1>16

\* A search changes what its rows offer and nothing of what is shown of the relations.
LEMMA SearchKeeps ==
  ASSUME RailInv, Rail!SearchSubmitted \/ \E k \in Rail!Keys : Rail!Searched(k)
  PROVE  RailInv'
<1>1. /\ v1 \in RailServers /\ v2 \in RailShows /\ v3 \in RailSurfaces
      /\ v4 \in [Rail!Keys -> RailOps] /\ v5 \in [Rail!Keys -> RailReads] /\ v6 \in BOOLEAN
  BY DEF RailInv, RailTyped
<1>2. UNCHANGED <<v1, v3, v5, v6>> /\ Rail!Search  BY DEF Rail!SearchSubmitted, Rail!Searched
<1>3. v2' \in RailShows /\ v2'.links = v2.links /\ v2'.blocked = v2.blocked
  <2>1. CASE v2' = v2  BY <1>1, <2>1
  <2>2. ASSUME NEW f \in [Peers -> Rail!Links \cup {None}], v2' = [v2 EXCEPT !.found = f]
        PROVE  v2' \in RailShows /\ v2'.links = v2.links /\ v2'.blocked = v2.blocked
    BY <1>1, <2>2 DEF RailShows
  <2>3. ASSUME NEW hits \in SUBSET Peers,
               v2' = [v2 EXCEPT !.found = [p \in Peers |-> IF p \in hits THEN v1.links[p] ELSE None]]
        PROVE  v2' \in RailShows /\ v2'.links = v2.links /\ v2'.blocked = v2.blocked
    <3> DEFINE f == [p \in Peers |-> IF p \in hits THEN v1.links[p] ELSE None]
    <3>1. f \in [Peers -> Rail!Links \cup {None}] /\ v2' = [v2 EXCEPT !.found = f]  BY <1>1, <2>3 DEF RailServers
    <3> HIDE DEF f
    <3> QED  BY <2>2, <3>1
  <2> QED  BY <1>2, <2>1, <2>3 DEF Rail!Search
<1>4. ASSUME v4' = v4 PROVE RailInv'  BY <1>1, <1>2, <1>3, <1>4 DEF RailInv, RailTyped, RailFollows
<1>5. ASSUME NEW k \in Rail!Keys, Rail!Searched(k) PROVE RailInv'
  <2>1. v4' = [v4 EXCEPT ![k] = Rail!NoOp] /\ v4[k].at = "search"  BY <1>5 DEF Rail!Searched
  <2>2. v4' \in [Rail!Keys -> RailOps] /\ \A q \in Rail!Keys \ {k} : v4'[q] = v4[q]  BY <1>1, <2>1, RailBounds
  <2>3. (\E q \in Rail!Keys : v4[q].at \in {"served", "reload"}) => \E q \in Rail!Keys : v4'[q].at \in {"served", "reload"}
    BY <2>1, <2>2
  <2>4. RailFollows(v1', v2', v4', v6')  BY <1>2, <1>3, <2>3 DEF RailInv, RailFollows
  <2>5. \A q \in Rail!Keys : ReadsOf(v1', v5'[q])  BY <1>2 DEF RailInv
  <2> QED  BY <1>1, <1>2, <1>3, <2>2, <2>4, <2>5 DEF RailInv, RailTyped
<1> QED  BY <1>4, <1>5 DEF Rail!SearchSubmitted

\* A reload reads, shows what it read, or fails.
LEMMA ReloadsKeep ==
  ASSUME RailInv, NEW k \in Rail!Keys,
         Rail!OpFailed(k) \/ Rail!Reloaded(k) \/ \E links \in BOOLEAN : Rail!Reads(k, links)
  PROVE  RailInv'
<1>1. /\ v1 \in RailServers /\ v2 \in RailShows /\ v3 \in RailSurfaces
      /\ v4 \in [Rail!Keys -> RailOps] /\ v5 \in [Rail!Keys -> RailReads] /\ v6 \in BOOLEAN
      /\ \A q \in Rail!Keys : ReadsOf(v1, v5[q])
  BY DEF RailInv, RailTyped
<1>2. v1' = v1 /\ v3' = v3  BY DEF Rail!OpFailed, Rail!Reloaded, Rail!Reads
<1>3. v1.changes \in 0 .. RelationChanges /\ v1.links \in [Peers -> Rail!Links] /\ v1.blocked \in SUBSET Peers
  BY <1>1 DEF RailServers
<1>4. ReadsOf(v1, Rail!NoRead)  BY <1>3, RailBounds DEF ReadsOf
<1>5. ASSUME v5' = [v5 EXCEPT ![k] = Rail!NoRead]
      PROVE  v5' \in [Rail!Keys -> RailReads] /\ \A q \in Rail!Keys : ReadsOf(v1', v5'[q])
  <2>1. v5' \in [Rail!Keys -> RailReads] /\ v5'[k] = Rail!NoRead /\ \A q \in Rail!Keys \ {k} : v5'[q] = v5[q]
    BY <1>1, <1>5, RailBounds
  <2> QED  BY <1>1, <1>2, <1>4, <2>1
<1>6. CASE Rail!OpFailed(k)
  <2>1. /\ v6' = (v6 \/ v4[k].at # "task") /\ v4' = [v4 EXCEPT ![k] = Rail!NoOp]
        /\ v5' = [v5 EXCEPT ![k] = Rail!NoRead] /\ UNCHANGED <<v1, v2, v3>>
    BY <1>6 DEF Rail!OpFailed
  <2>2. v6' \in BOOLEAN /\ (v6 => v6') /\ (~v6' => v4[k].at = "task")  BY <1>1, <2>1, Zenon
  <2>3. OpSet(k, Rail!NoOp)  BY <2>1, RailBounds DEF OpSet
  <2>4. v4' \in [Rail!Keys -> RailOps] /\ RailFollows(v1', v2', v4', v6')  BY <2>2, <2>3, RailOpMoves
  <2> QED  BY <1>1, <1>2, <1>5, <2>1, <2>2, <2>4 DEF RailInv, RailTyped
<1>7. CASE Rail!Reloaded(k)
  <2> DEFINE s == [v2 EXCEPT !.links = v5[k].links, !.blocked = v5[k].blocked]
             o == [Rail!NoOp EXCEPT !.at = "search"]
  <2>1. /\ v5[k].links # None /\ v5[k].blocked # None /\ v2' = s /\ v6' = (v5[k].since # v1.changes)
        /\ v5' = [v5 EXCEPT ![k] = Rail!NoRead]
        /\ v4' = [v4 EXCEPT ![k] = IF k \in Peers THEN o ELSE Rail!NoOp]
    BY <1>7 DEF Rail!Reloaded
  <2>2. v5[k].links \in [Peers -> Rail!Links] /\ v5[k].blocked \in SUBSET Peers  BY <1>1, <2>1 DEF RailReads
  <2>3. s \in RailShows /\ s.links = v5[k].links /\ s.blocked = v5[k].blocked  BY <1>1, <2>2 DEF RailShows
  <2>4. o \in RailOps  BY RailBounds DEF RailOps
  <2> HIDE DEF s, o
  <2>5. v4' \in [Rail!Keys -> RailOps]  BY <1>1, <2>1, <2>4, RailBounds
  <2>6. v6' \in BOOLEAN /\ (~v6' => v5[k].since = v1.changes)  BY <2>1, Zenon
  <2>7. RailFollows(v1', v2', v4', v6')  BY <1>1, <1>2, <2>1, <2>3, <2>6 DEF RailFollows, ReadsOf
  <2> QED  BY <1>1, <1>2, <1>5, <2>1, <2>3, <2>5, <2>6, <2>7 DEF RailInv, RailTyped
<1>8. ASSUME NEW links \in BOOLEAN, Rail!Reads(k, links) PROVE RailInv'
  <2> DEFINE t == Rail!Later(k)
             a == IF links THEN v1.links ELSE v5[k].links
             b == IF links THEN v5[k].blocked ELSE v1.blocked
             r == [links |-> a, blocked |-> b, since |-> t]
  <2>1. UNCHANGED <<v1, v2, v3, v4, v6>>  BY <1>8 DEF Rail!Reads
  <2>2. v5[k] \in RailReads /\ v5[k].since \in 0 .. RelationChanges /\ ReadsOf(v1, v5[k])  BY <1>1 DEF RailReads
  <2>3. /\ a \in [Peers -> Rail!Links] \cup {None} /\ b \in (SUBSET Peers) \cup {None}
        /\ (a # None => a = v1.links \/ a = v5[k].links) /\ (b # None => b = v1.blocked \/ b = v5[k].blocked)
    BY <1>3, <2>2 DEF RailReads
  <2>4. /\ t \in 0 .. RelationChanges /\ t <= v1.changes
        /\ t = v5[k].since \/ (v5[k].links = None /\ v5[k].blocked = None)
    BY <1>3, <2>2, RailBounds DEF Rail!Later, ReadsOf
  <2>5. v5' = [v5 EXCEPT ![k] = r]
    BY <1>1, <1>8, <2>2 DEF Rail!Reads, RailReads
  <2> HIDE DEF t, a, b
  <2>6. r \in RailReads /\ r.links = a /\ r.blocked = b /\ r.since = t  BY <2>3, <2>4 DEF RailReads
  <2> HIDE DEF r
  <2>7. ReadsOf(v1, r)  BY <2>2, <2>3, <2>4, <2>6 DEF ReadsOf
  <2>8. v5' \in [Rail!Keys -> RailReads] /\ v5'[k] = r /\ \A q \in Rail!Keys \ {k} : v5'[q] = v5[q]
    BY <1>1, <2>5, <2>6
  <2>9. \A q \in Rail!Keys : ReadsOf(v1', v5'[q])  BY <1>1, <2>1, <2>7, <2>8
  <2> QED  BY <1>1, <2>1, <2>8, <2>9 DEF RailInv, RailTyped
<1> QED  BY <1>6, <1>7, <1>8

LEMMA RailStepKeeps == ASSUME RailInv, [Rail!Next]_Rail!vars PROVE RailInv'
<1>1. CASE UNCHANGED Rail!vars
  BY <1>1 DEF Rail!vars, RailInv, RailTyped, RailFollows
<1> QED  BY <1>1, RelationsKeep, RailClicksKeep, SearchKeeps, ReloadsKeep DEF Rail!Next

LEMMA RailIs == RailInv => Rail!TypeOK /\ Rail!ShownIsTrue
<1> SUFFICES ASSUME RailInv PROVE Rail!TypeOK /\ Rail!ShownIsTrue  OBVIOUS
<1>1. Rail!TypeOK
  BY RailBounds DEF RailInv, RailTyped, Rail!TypeOK, RailServers, RailShows, RailSurfaces, RailOps
<1>2. Rail!ShownIsTrue  BY DEF RailInv, RailFollows, Rail!ShownIsTrue
<1> QED  BY <1>1, <1>2

RailPart == which = "contacts" => RailInv

LEMMA RailStart == Init => RailPart
  BY PagesConstants, RailInitEstablishes DEF Init, RailPart

LEMMA RailStep == RailPart /\ [Next]_vars => RailPart'
<1> SUFFICES ASSUME RailPart, [Next]_vars PROVE RailPart'
  OBVIOUS
<1>1. CASE which = "contacts"
  <2>1. [Rail!Next]_Rail!vars  BY <1>1 DEF Next, vars, Step, Rail!vars
  <2>2. which' = "contacts"  BY <1>1 DEF Next, vars, Step
  <2> QED  BY <1>1, <2>1, <2>2, PagesConstants, RailStepKeeps DEF RailPart
<1>2. CASE which # "contacts"  BY <1>2 DEF Next, vars, Step, RailPart
<1> QED  BY <1>1, <1>2

-----------------------------------------------------------------------------
(* The alerts panel. *)

AlertKeys == AlertItems \cup {"form"}
AlertSets == [set : SUBSET AlertItems, changes : 0 .. AlertChanges]
AlertShown == [set : SUBSET AlertItems, edited : BOOLEAN]
AlertSteps == [at : {"none", "asked", "served"}, set : SUBSET AlertItems, when : 0 .. AlertChanges]

AlertsTyped ==
  /\ v1 \in {"alerts", "inbox", "preferences"} /\ v2 \in AlertSets /\ v3 \in AlertShown
  /\ v4 \in [Alerts!Loads -> AlertSteps] /\ v5 \in [AlertKeys -> AlertSteps] /\ v6 \in BOOLEAN

\* What was read when nothing has changed since is the list as it is.
ReadIsOld(s, ls) ==
  \A l \in Alerts!Loads : ls[l].at = "served" => /\ ls[l].when <= s.changes
                                                 /\ ls[l].when = s.changes => ls[l].set = s.set

\* So are the preferences that were saved; only the form saves them.
SavedIsOld(kind, s, os) ==
  kind = "preferences" =>
    /\ \A i \in AlertItems : os[i] = Alerts!NoOp
    /\ os["form"].at = "served" => /\ os["form"].when <= s.changes
                                   /\ os["form"].when = s.changes => os["form"].set = s.set

\* A panel that is not behind shows the list, or a request or a load that shows it is under way.
PanelFollows(s, sh, ls, os, late) ==
  ~late /\ ~sh.edited => \/ sh.set = s.set
                         \/ \E l \in Alerts!Loads : ls[l].at # "none"
                         \/ \E o \in AlertKeys : os[o].at = "served"

AlertsInv ==
  AlertsTyped /\ ReadIsOld(v2, v4) /\ SavedIsOld(v1, v2, v5) /\ PanelFollows(v2, v3, v4, v5, v6)

LEMMA AlertsBounds ==
  /\ AlertChanges \in Nat /\ AlertLoads \in Nat /\ "form" \notin AlertItems /\ "form" \in AlertKeys
  /\ Alerts!NoOp \in AlertSteps /\ Alerts!NoOp.at = "none" /\ Alerts!NoLoad \in AlertSteps /\ Alerts!NoLoad.at = "none"
<1>1. AlertChanges \in Nat /\ AlertLoads \in Nat /\ "form" \notin AlertItems
  BY PagesConstants DEF Alerts!AlertsAssumption
<1> QED  BY <1>1 DEF Alerts!NoOp, Alerts!NoLoad, AlertSteps, AlertKeys

LEMMA AlertsInitEstablishes == ASSUME Alerts!Init PROVE AlertsInv
<1>1. PICK set \in SUBSET AlertItems : v2 = [set |-> set, changes |-> 0]  BY DEF Alerts!Init
<1>2. /\ v1 \in {"alerts", "inbox", "preferences"} /\ v3 = [set |-> {}, edited |-> FALSE]
      /\ v4 = [l \in Alerts!Loads |-> Alerts!NoLoad] /\ v5 = [o \in AlertKeys |-> Alerts!NoOp] /\ v6 = TRUE
  BY DEF Alerts!Init, AlertKeys
<1>3. AlertsTyped
  BY <1>1, <1>2, AlertsBounds DEF AlertsTyped, AlertSets, AlertShown
<1>4. ReadIsOld(v2, v4)  BY <1>2, AlertsBounds DEF ReadIsOld
<1>5. SavedIsOld(v1, v2, v5)  BY <1>2, AlertsBounds DEF SavedIsOld, AlertKeys
<1> QED  BY <1>2, <1>3, <1>4, <1>5 DEF AlertsInv, PanelFollows

\* A load begins.
LEMMA AlertLoadBegins ==
  ASSUME AlertsTyped, NEW s, ReadIsOld(s, v4), Alerts!Load
  PROVE  /\ v4' \in [Alerts!Loads -> AlertSteps] /\ ReadIsOld(s, v4')
         /\ \E l \in Alerts!Loads : v4'[l].at # "none"
<1>1. PICK l \in Alerts!Loads : v4[l] = Alerts!NoLoad /\ v4' = [v4 EXCEPT ![l].at = "asked"]  BY DEF Alerts!Load
<1>2. v4 \in [Alerts!Loads -> AlertSteps]  BY DEF AlertsTyped
<1> DEFINE r == [v4[l] EXCEPT !.at = "asked"]
<1>3. v4' = [v4 EXCEPT ![l] = r] /\ r \in AlertSteps /\ r.at = "asked"  BY <1>1, <1>2 DEF AlertSteps
<1> HIDE DEF r
<1>4. v4'[l] = r /\ \A m \in Alerts!Loads \ {l} : v4'[m] = v4[m]  BY <1>2, <1>3
<1>5. ReadIsOld(s, v4')  BY <1>3, <1>4 DEF ReadIsOld
<1> QED  BY <1>2, <1>3, <1>4, <1>5

\* A load ends, or is answered.
LEMMA AlertsLoadKeeps ==
  ASSUME AlertsInv, NEW l \in Alerts!Loads, Alerts!LoadServed(l) \/ Alerts!LoadReplied(l) \/ Alerts!LoadFailed(l)
  PROVE  AlertsInv'
<1>1. /\ v1 \in {"alerts", "inbox", "preferences"} /\ v2 \in AlertSets /\ v3 \in AlertShown
      /\ v4 \in [Alerts!Loads -> AlertSteps] /\ v5 \in [AlertKeys -> AlertSteps] /\ v6 \in BOOLEAN
      /\ ReadIsOld(v2, v4)
  BY DEF AlertsInv, AlertsTyped
<1>2. UNCHANGED <<v1, v2, v5>>  BY DEF Alerts!LoadServed, Alerts!LoadReplied, Alerts!LoadFailed
<1>3. CASE Alerts!LoadServed(l)
  <2> DEFINE r == [at |-> "served", set |-> v2.set, when |-> v2.changes]
  <2>1. v4' = [v4 EXCEPT ![l] = r] /\ v3' = v3 /\ v6' = v6  BY <1>3 DEF Alerts!LoadServed
  <2>2. r \in AlertSteps /\ r.at = "served" /\ r.set = v2.set /\ r.when = v2.changes /\ v2.changes <= v2.changes
    BY <1>1, AlertsBounds DEF AlertSteps, AlertSets
  <2> HIDE DEF r
  <2>3. v4' \in [Alerts!Loads -> AlertSteps] /\ v4'[l] = r /\ \A m \in Alerts!Loads \ {l} : v4'[m] = v4[m]
    BY <1>1, <2>1, <2>2
  <2>4. ReadIsOld(v2, v4')  BY <1>1, <2>2, <2>3 DEF ReadIsOld
  <2>5. \E m \in Alerts!Loads : v4'[m].at # "none"  BY <2>2, <2>3
  <2> QED  BY <1>1, <1>2, <2>1, <2>3, <2>4, <2>5 DEF AlertsInv, AlertsTyped, PanelFollows
<1>4. CASE Alerts!LoadReplied(l) \/ Alerts!LoadFailed(l)
  <2>1. v4' = [v4 EXCEPT ![l] = Alerts!NoLoad]  BY <1>4 DEF Alerts!LoadReplied, Alerts!LoadFailed
  <2>2. v4' \in [Alerts!Loads -> AlertSteps] /\ v4'[l] = Alerts!NoLoad /\ \A m \in Alerts!Loads \ {l} : v4'[m] = v4[m]
    BY <1>1, <2>1, AlertsBounds
  <2>3. ReadIsOld(v2, v4')  BY <1>1, <2>2, AlertsBounds DEF ReadIsOld
  <2>4. v3' \in AlertShown /\ v6' \in BOOLEAN /\ (v6' \/ v3'.set = v2.set)
    <3>1. CASE Alerts!LoadReplied(l)
      <4>1. v4[l].at = "served" /\ v3' = [set |-> v4[l].set, edited |-> FALSE] /\ v6' = (v4[l].when # v2.changes)
        BY <3>1 DEF Alerts!LoadReplied
      <4> QED  BY <1>1, <4>1 DEF ReadIsOld, AlertShown, AlertSteps
    <3>2. CASE Alerts!LoadFailed(l)  BY <1>1, <3>2 DEF Alerts!LoadFailed
    <3> QED  BY <1>4, <3>1, <3>2
  <2> QED  BY <1>1, <1>2, <2>2, <2>3, <2>4 DEF AlertsInv, AlertsTyped, PanelFollows
<1> QED  BY <1>3, <1>4

\* The list changes: what was read before is older.
LEMMA AlertsChangeKeeps ==
  ASSUME AlertsTyped, ReadIsOld(v2, v4), NEW set \in SUBSET AlertItems, Alerts!Changed(set)
  PROVE  /\ v2' \in AlertSets /\ v2'.set = set /\ v2'.changes = v2.changes + 1 /\ v2.changes \in Nat
         /\ v2'.changes \in 0 .. AlertChanges
         /\ ReadIsOld(v2', v4)
<1>1. /\ v2.changes \in 0 .. AlertChanges /\ v2.changes < AlertChanges
      /\ v2' = [set |-> set, changes |-> v2.changes + 1] /\ v2.changes + 1 \in 0 .. AlertChanges
  BY AlertsBounds DEF AlertsTyped, AlertSets, Alerts!Changed
<1>2. v2' \in AlertSets /\ v2'.set = set /\ v2'.changes = v2.changes + 1  BY <1>1 DEF AlertSets
<1>3. ASSUME NEW l \in Alerts!Loads, v4[l].at = "served" PROVE v4[l].when <= v2'.changes /\ v4[l].when # v2'.changes
  <2>1. v4[l].when <= v2.changes /\ v4[l].when \in 0 .. AlertChanges  BY <1>3 DEF AlertsTyped, AlertSteps, ReadIsOld
  <2> QED  BY <1>1, <1>2, <2>1
<1> QED  BY <1>1, <1>2, <1>3 DEF ReadIsOld

LEMMA AlertsServedKeeps ==
  ASSUME AlertsInv, NEW o \in AlertKeys, Alerts!OpServed(o)
  PROVE  AlertsInv'
<1>1. /\ v2 \in AlertSets /\ v5 \in [AlertKeys -> AlertSteps] /\ AlertsTyped /\ ReadIsOld(v2, v4)
      /\ SavedIsOld(v1, v2, v5)
  BY DEF AlertsInv, AlertsTyped
<1>2. /\ v5[o].at = "asked" /\ UNCHANGED <<v1, v3, v4, v6>>
      /\ v5' = [v5 EXCEPT ![o].at = "served", ![o].when = v2.changes + 1]
  BY DEF Alerts!OpServed
<1>3. PICK set \in SUBSET AlertItems : Alerts!Changed(set) /\ (v1 = "preferences" => o # "form" \/ set = v5[o].set)
  <2>1. v5[o].set \in SUBSET AlertItems /\ v2.set \in SUBSET AlertItems  BY <1>1 DEF AlertSteps, AlertSets
  <2>2. CASE o = "form" /\ v1 = "alerts" /\ \E i \in AlertItems : Alerts!Changed(v2.set \cup {i})  BY <2>1, <2>2
  <2>3. CASE o = "form" /\ v1 = "preferences" /\ Alerts!Changed(v5[o].set)  BY <2>1, <2>3
  <2>4. CASE o \in AlertItems /\ Alerts!Changed(v2.set \ {o})
    <3>1. v2.set \ {o} \in SUBSET AlertItems /\ o # "form"  BY <2>1, <2>4, AlertsBounds
    <3> QED  BY <2>4, <3>1
  <2> QED  BY <2>2, <2>3, <2>4 DEF Alerts!OpServed
<1>4. /\ v2' \in AlertSets /\ v2'.set = set /\ v2'.changes = v2.changes + 1 /\ v2.changes \in Nat
      /\ v2'.changes \in 0 .. AlertChanges /\ ReadIsOld(v2', v4)
  BY <1>1, <1>3, AlertsChangeKeeps
<1> DEFINE n == v2.changes + 1
           r == [v5[o] EXCEPT !.at = "served", !.when = n]
<1>5. r \in AlertSteps /\ r.at = "served" /\ r.when = v2'.changes /\ r.set = v5[o].set
  <2>1. n = v2'.changes /\ n \in 0 .. AlertChanges  BY <1>4
  <2> HIDE DEF n
  <2> QED  BY <1>1, <2>1 DEF AlertSteps
<1>6. v5' = [v5 EXCEPT ![o] = r]  BY <1>2
<1> HIDE DEF r
<1>7. v5' \in [AlertKeys -> AlertSteps] /\ v5'[o] = r /\ \A p \in AlertKeys \ {o} : v5'[p] = v5[p]
  BY <1>1, <1>5, <1>6
<1>8. SavedIsOld(v1, v2', v5')
  <2> SUFFICES ASSUME v1 = "preferences" PROVE SavedIsOld(v1, v2', v5')  BY DEF SavedIsOld
  <2>1. \A i \in AlertItems : v5[i] = Alerts!NoOp  BY <1>1 DEF SavedIsOld
  <2>2. o \notin AlertItems /\ o = "form"  BY <1>2, <2>1, AlertsBounds DEF AlertKeys
  <2>3. \A i \in AlertItems : v5'[i] = Alerts!NoOp  BY <1>7, <2>1, <2>2 DEF AlertKeys
  <2>4. v5'["form"].set = v2'.set /\ v5'["form"].when = v2'.changes  BY <1>3, <1>4, <1>5, <1>7, <2>2
  <2>5. v5'["form"].when <= v2'.changes  BY <1>4, <2>4
  <2> QED  BY <2>3, <2>4, <2>5 DEF SavedIsOld
<1>9. \E p \in AlertKeys : v5'[p].at = "served"  BY <1>5, <1>7
<1> QED  BY <1>1, <1>2, <1>4, <1>7, <1>8, <1>9 DEF AlertsInv, AlertsTyped, PanelFollows

LEMMA AlertsRepliedKeeps ==
  ASSUME AlertsInv, NEW o \in AlertKeys, Alerts!OpReplied(o) \/ Alerts!OpFailed(o)
  PROVE  AlertsInv'
<1>1. /\ v2 \in AlertSets /\ v3 \in AlertShown /\ v4 \in [Alerts!Loads -> AlertSteps]
      /\ v5 \in [AlertKeys -> AlertSteps] /\ v6 \in BOOLEAN /\ AlertsTyped /\ ReadIsOld(v2, v4)
      /\ SavedIsOld(v1, v2, v5) /\ PanelFollows(v2, v3, v4, v5, v6)
  BY DEF AlertsInv, AlertsTyped
<1>2. UNCHANGED <<v1, v2>> /\ v5' = [v5 EXCEPT ![o] = Alerts!NoOp] /\ v5[o].at # "none"
  BY DEF Alerts!OpReplied, Alerts!OpFailed
<1>3. v5' \in [AlertKeys -> AlertSteps] /\ v5'[o] = Alerts!NoOp /\ \A p \in AlertKeys \ {o} : v5'[p] = v5[p]
  BY <1>1, <1>2, AlertsBounds
<1>4. SavedIsOld(v1, v2, v5')
  BY <1>1, <1>3, AlertsBounds DEF SavedIsOld, AlertKeys
<1>5. CASE Alerts!OpReplied(o) /\ v1 = "preferences"
  <2>1. /\ v5[o].at = "served" /\ v4' = v4 /\ v3' = [set |-> v5[o].set, edited |-> FALSE]
        /\ v6' = (v5[o].when # v2.changes)
    BY <1>5 DEF Alerts!OpReplied
  <2>2. o = "form"  BY <1>1, <1>5, <2>1, AlertsBounds DEF SavedIsOld, AlertKeys
  <2>3. v6' \/ v3'.set = v2.set  BY <1>1, <1>5, <2>1, <2>2 DEF SavedIsOld
  <2>4. v3' \in AlertShown /\ v6' \in BOOLEAN  BY <1>1, <2>1 DEF AlertShown, AlertSteps
  <2> QED  BY <1>1, <1>2, <1>3, <1>4, <2>1, <2>3, <2>4 DEF AlertsInv, AlertsTyped, PanelFollows
<1>6. CASE Alerts!OpReplied(o) /\ v1 # "preferences"
  <2>1. Alerts!Load /\ v3' = v3 /\ v6' = v6  BY <1>6 DEF Alerts!OpReplied
  <2>2. v4' \in [Alerts!Loads -> AlertSteps] /\ ReadIsOld(v2, v4') /\ \E l \in Alerts!Loads : v4'[l].at # "none"
    BY <1>1, <2>1, AlertLoadBegins
  <2> QED  BY <1>1, <1>2, <1>3, <1>4, <2>1, <2>2 DEF AlertsInv, AlertsTyped, PanelFollows
<1>7. CASE Alerts!OpFailed(o)
  <2>1. v6' = (v6 \/ v5[o].at = "served") /\ UNCHANGED <<v3, v4>>  BY <1>7 DEF Alerts!OpFailed
  <2>2. v6' \in BOOLEAN  BY <1>1, <2>1
  <2>3. PanelFollows(v2, v3, v4, v5', v6')  BY <1>1, <1>3, <2>1 DEF PanelFollows
  <2> QED  BY <1>1, <1>2, <1>3, <1>4, <2>1, <2>2, <2>3 DEF AlertsInv, AlertsTyped
<1> QED  BY <1>5, <1>6, <1>7

\* The user opens the panel, ticks a box, asks for a change.
LEMMA AlertsUserKeeps ==
  ASSUME AlertsInv,
         Alerts!PanelOpened \/ Alerts!Submitted \/ Alerts!ServerChanges
         \/ \E i \in AlertItems : Alerts!Ticked(i) \/ Alerts!AlertDeleted(i) \/ Alerts!MessageRead(i)
  PROVE  AlertsInv'
<1>1. /\ v2 \in AlertSets /\ v3 \in AlertShown /\ v4 \in [Alerts!Loads -> AlertSteps]
      /\ v5 \in [AlertKeys -> AlertSteps] /\ v6 \in BOOLEAN /\ AlertsTyped /\ ReadIsOld(v2, v4)
      /\ SavedIsOld(v1, v2, v5) /\ PanelFollows(v2, v3, v4, v5, v6)
  BY DEF AlertsInv, AlertsTyped
<1>2. CASE Alerts!PanelOpened
  <2>1. v4' \in [Alerts!Loads -> AlertSteps] /\ ReadIsOld(v2, v4') /\ \E l \in Alerts!Loads : v4'[l].at # "none"
    BY <1>1, <1>2, AlertLoadBegins DEF Alerts!PanelOpened
  <2>2. UNCHANGED <<v1, v2, v3, v5, v6>>  BY <1>2 DEF Alerts!PanelOpened
  <2> QED  BY <1>1, <2>1, <2>2 DEF AlertsInv, AlertsTyped, PanelFollows
<1>3. CASE Alerts!Submitted
  <2> DEFINE set == IF v1 = "preferences" THEN v3.set ELSE {}
             r == [Alerts!NoOp EXCEPT !.at = "asked", !.set = set]
  <2>1. UNCHANGED <<v1, v2, v3, v4, v6>> /\ v5["form"] = Alerts!NoOp /\ v5' = [v5 EXCEPT !["form"] = r]
    BY <1>3 DEF Alerts!Submitted
  <2>2. set \in SUBSET AlertItems  BY <1>1 DEF AlertShown
  <2> HIDE DEF set
  <2>3. r \in AlertSteps /\ r.at = "asked"  BY <2>2, AlertsBounds DEF AlertSteps
  <2> HIDE DEF r
  <2>4. v5' \in [AlertKeys -> AlertSteps] /\ v5'["form"] = r /\ \A p \in AlertKeys \ {"form"} : v5'[p] = v5[p]
    BY <1>1, <2>1, <2>3, AlertsBounds
  <2>5. SavedIsOld(v1, v2, v5')  BY <1>1, <2>3, <2>4, AlertsBounds DEF SavedIsOld, AlertKeys
  <2>6. PanelFollows(v2, v3, v4, v5', v6)  BY <1>1, <2>1, <2>4, AlertsBounds DEF PanelFollows
  <2> QED  BY <1>1, <2>1, <2>4, <2>5, <2>6 DEF AlertsInv, AlertsTyped
<1>4. CASE Alerts!ServerChanges
  <2>1. PICK i \in AlertItems : Alerts!Changed(v2.set \cup {i})  BY <1>4 DEF Alerts!ServerChanges
  <2>2. UNCHANGED <<v1, v3, v4, v5>> /\ v6' = TRUE  BY <1>4 DEF Alerts!ServerChanges
  <2>3. v2.set \cup {i} \in SUBSET AlertItems  BY <1>1 DEF AlertSets
  <2>4. /\ v2' \in AlertSets /\ v2'.changes = v2.changes + 1 /\ v2.changes \in Nat /\ ReadIsOld(v2', v4)
    BY <1>1, <2>1, <2>3, AlertsChangeKeeps
  <2>5. SavedIsOld(v1, v2', v5)
    <3> SUFFICES ASSUME v1 = "preferences", v5["form"].at = "served"
                 PROVE  v5["form"].when <= v2'.changes /\ v5["form"].when # v2'.changes
      BY <1>1 DEF SavedIsOld
    <3>1. v5["form"].when <= v2.changes /\ v5["form"].when \in Nat
      BY <1>1, AlertsBounds DEF SavedIsOld, AlertSteps
    <3> QED  BY <2>4, <3>1
  <2> QED  BY <1>1, <2>2, <2>4, <2>5 DEF AlertsInv, AlertsTyped, PanelFollows
<1>5. ASSUME NEW i \in AlertItems, Alerts!Ticked(i) PROVE AlertsInv'
  <2>1. UNCHANGED <<v1, v2, v4, v5, v6>>  BY <1>5 DEF Alerts!Ticked
  <2>2. v3' = [set |-> IF i \in v3.set THEN v3.set \ {i} ELSE v3.set \cup {i}, edited |-> TRUE]
    BY <1>5 DEF Alerts!Ticked
  <2>3. v3' \in AlertShown /\ v3'.edited  BY <1>1, <2>2 DEF AlertShown
  <2> QED  BY <1>1, <2>1, <2>3 DEF AlertsInv, AlertsTyped, PanelFollows
<1>6. ASSUME NEW i \in AlertItems, v1 # "preferences", Alerts!Asked(i) PROVE AlertsInv'
  <2> DEFINE r == [v5[i] EXCEPT !.at = "asked"]
  <2>1. UNCHANGED <<v1, v2, v3, v4, v6>> /\ v5[i] = Alerts!NoOp /\ v5' = [v5 EXCEPT ![i] = r]
    BY <1>6 DEF Alerts!Asked
  <2>2. r \in AlertSteps /\ i \in AlertKeys  BY <1>1 DEF AlertSteps, AlertKeys
  <2> HIDE DEF r
  <2>3. v5' \in [AlertKeys -> AlertSteps] /\ \A p \in AlertKeys \ {i} : v5'[p] = v5[p]
    BY <1>1, <2>1, <2>2
  <2>4. PanelFollows(v2, v3, v4, v5', v6)  BY <1>1, <2>1, <2>3, AlertsBounds DEF PanelFollows
  <2> QED  BY <1>1, <1>6, <2>1, <2>3, <2>4 DEF AlertsInv, AlertsTyped, SavedIsOld
<1> QED  BY <1>2, <1>3, <1>4, <1>5, <1>6 DEF Alerts!AlertDeleted, Alerts!MessageRead

LEMMA AlertsStepKeeps == ASSUME AlertsInv, [Alerts!Next]_Alerts!vars PROVE AlertsInv'
<1>1. CASE UNCHANGED Alerts!vars
  BY <1>1 DEF Alerts!vars, AlertsInv, AlertsTyped, ReadIsOld, SavedIsOld, PanelFollows
<1>2. ASSUME NEW o \in AlertKeys, Alerts!OpServed(o) \/ Alerts!OpReplied(o) \/ Alerts!OpFailed(o) PROVE AlertsInv'
  BY <1>2, AlertsServedKeeps, AlertsRepliedKeeps
<1> QED  BY <1>1, <1>2, AlertsLoadKeeps, AlertsUserKeeps DEF Alerts!Next, AlertKeys

LEMMA AlertsIs == AlertsInv => Alerts!TypeOK /\ Alerts!PanelIsTrue
<1> SUFFICES ASSUME AlertsInv PROVE Alerts!TypeOK /\ Alerts!PanelIsTrue  OBVIOUS
<1>1. AlertsTyped /\ PanelFollows(v2, v3, v4, v5, v6)  BY DEF AlertsInv
<1>2. Alerts!TypeOK  BY <1>1 DEF AlertsTyped, Alerts!TypeOK, AlertSets, AlertShown, AlertSteps, AlertKeys
<1>3. Alerts!PanelIsTrue  BY <1>1, AlertsBounds DEF PanelFollows, Alerts!PanelIsTrue, AlertKeys
<1> QED  BY <1>2, <1>3

AlertsPart == which = "alerts" => AlertsInv

LEMMA AlertsStart == Init => AlertsPart
  BY PagesConstants, AlertsInitEstablishes DEF Init, AlertsPart

LEMMA AlertsStep == AlertsPart /\ [Next]_vars => AlertsPart'
<1> SUFFICES ASSUME AlertsPart, [Next]_vars PROVE AlertsPart'
  OBVIOUS
<1>1. CASE which = "alerts"
  <2>1. [Alerts!Next]_Alerts!vars  BY <1>1 DEF Next, vars, Step, Alerts!vars
  <2>2. which' = "alerts"  BY <1>1 DEF Next, vars, Step
  <2> QED  BY <1>1, <2>1, <2>2, PagesConstants, AlertsStepKeeps DEF AlertsPart
<1>2. CASE which # "alerts"  BY <1>2 DEF Next, vars, Step, AlertsPart
<1> QED  BY <1>1, <1>2

-----------------------------------------------------------------------------
(* The service worker. *)

WorkerStates ==
  [active : 0 .. WorkerVersions, installing : 0 .. WorkerVersions, deletes : SUBSET Worker!Versions]
FetchSteps == [at : {"none", "asked", "served"}, by : 0 .. WorkerVersions, read : 0 .. WorkerVersions]
LateCaches == [made : SUBSET Worker!Versions, older : SUBSET Worker!Versions]
CallNotes ==
  [push : {"none", "looking", "over"}, shown : {"none", "silent", "ringing"}, told : BOOLEAN, raced : BOOLEAN]

WorkerTyped ==
  /\ v1 \in Worker!Versions /\ v2 \in WorkerStates /\ v3 \in [Worker!Versions -> 0 .. WorkerVersions + 1]
  /\ v4 \in [Worker!Fetches -> FetchSteps] /\ v5 \in [Worker!Versions -> 0 .. WorkerVersions]
  /\ v6 \in LateCaches /\ v7 \in [CallsIn -> CallNotes] /\ v8 \in BOOLEAN

\* Who asked was active, and has not been installed again.
AskersInstalled(s, w, fs) ==
  /\ w.active <= s /\ w.installing <= s /\ (w.installing # 0 => w.active < w.installing)
  /\ \A f \in Worker!Fetches : fs[f].at # "none" => /\ fs[f].by \in Worker!Versions /\ fs[f].by <= s
                                                    /\ w.installing # 0 => fs[f].by < w.installing

\* The newest answer of a version is in its cache, or on its way, unless an older one came after it.
CacheIsNewest(cs, fs, ns, over) ==
  /\ \A f \in Worker!Fetches : fs[f].at = "served" => fs[f].read \in Worker!Versions /\ fs[f].read <= ns[fs[f].by]
  /\ \A v \in Worker!Versions :
       ns[v] # 0 /\ v \notin over =>
         \/ cs[v] \in {ns[v] + 1, 0}
         \/ \E f \in Worker!Fetches : fs[f].at = "served" /\ fs[f].by = v /\ fs[f].read = ns[v]

\* Once the active version has deleted the others, only what comes late is there.
OthersGone(w, cs, made) ==
  w.active \notin w.deletes => \A v \in Worker!Versions \ {w.active} : cs[v] # 0 => v \in made

\* A notification of a call that is over was not shown yet when that was told.
NoteRaced(ns) ==
  \A c \in CallsIn : ns[c].told /\ (ns[c].shown # "none" \/ ns[c].push = "looking") => ns[c].raced

WorkerInv ==
  /\ WorkerTyped /\ AskersInstalled(v1, v2, v4) /\ CacheIsNewest(v3, v4, v5, v6.older)
  /\ (\A v \in Worker!Versions : v5[v] <= v1)
  /\ OthersGone(v2, v3, v6.made) /\ NoteRaced(v7)

LEMMA WorkerBounds ==
  /\ WorkerVersions \in Nat /\ WorkerVersions # 0 /\ WorkerFetches \in Nat
  /\ Worker!Versions = 1 .. WorkerVersions /\ Worker!Gone = 0 /\ Worker!Empty = 1
BY PagesConstants DEF Worker!WorkerAssumption, Worker!Versions, Worker!Gone, Worker!Empty

LEMMA WorkerInitEstablishes == ASSUME Worker!Init PROVE WorkerInv
<1>1. /\ v1 = 1 /\ v2 = [active |-> 0, installing |-> 1, deletes |-> {}]
      /\ v3 = [v \in Worker!Versions |-> 0]
      /\ v4 = [f \in Worker!Fetches |-> [at |-> "none", by |-> 0, read |-> 0]]
      /\ v5 = [v \in Worker!Versions |-> 0] /\ v6 = [made |-> {}, older |-> {}]
      /\ v7 = [c \in CallsIn |-> [push |-> "none", shown |-> "none", told |-> FALSE, raced |-> FALSE]]
      /\ v8 = FALSE
  BY WorkerBounds DEF Worker!Init
<1>2. 1 \in Worker!Versions /\ 1 \in 0 .. WorkerVersions /\ 0 \in 0 .. WorkerVersions /\ 0 \in 0 .. WorkerVersions + 1
  BY WorkerBounds
<1>3. v2 \in WorkerStates /\ v6 \in LateCaches  BY <1>1, <1>2 DEF WorkerStates, LateCaches
<1>4. v4 \in [Worker!Fetches -> FetchSteps] /\ v7 \in [CallsIn -> CallNotes]  BY <1>1, <1>2 DEF FetchSteps, CallNotes
<1>5. WorkerTyped  BY <1>1, <1>2, <1>3, <1>4 DEF WorkerTyped
<1>6. AskersInstalled(v1, v2, v4)  BY <1>1 DEF AskersInstalled
<1>7. CacheIsNewest(v3, v4, v5, v6.older)  BY <1>1 DEF CacheIsNewest
<1>8. OthersGone(v2, v3, v6.made)  BY <1>1 DEF OthersGone
<1>9. NoteRaced(v7)  BY <1>1 DEF NoteRaced
<1>10. \A v \in Worker!Versions : v5[v] <= v1  BY <1>1
<1> QED  BY <1>5, <1>6, <1>7, <1>8, <1>9, <1>10 DEF WorkerInv

\* A version is deployed, installed, and deletes the others' caches.
LEMMA VersionsKeep ==
  ASSUME WorkerInv,
         Worker!Deployed \/ (\E ok \in BOOLEAN : Worker!Installed(ok)) \/ (\E v \in Worker!Versions : Worker!Activated(v))
  PROVE  WorkerInv'
<1>1. /\ v1 \in Worker!Versions /\ v2 \in WorkerStates /\ v3 \in [Worker!Versions -> 0 .. WorkerVersions + 1]
      /\ v4 \in [Worker!Fetches -> FetchSteps] /\ v5 \in [Worker!Versions -> 0 .. WorkerVersions]
      /\ v6 \in LateCaches /\ v7 \in [CallsIn -> CallNotes] /\ v8 \in BOOLEAN
      /\ AskersInstalled(v1, v2, v4) /\ CacheIsNewest(v3, v4, v5, v6.older)
      /\ (\A v \in Worker!Versions : v5[v] <= v1)
      /\ OthersGone(v2, v3, v6.made) /\ NoteRaced(v7)
  BY DEF WorkerInv, WorkerTyped
<1>2. v4' = v4 /\ UNCHANGED <<v7, v8>>  BY DEF Worker!Deployed, Worker!Installed, Worker!Activated
<1>3. CASE Worker!Deployed
  <2>1. /\ v1 < WorkerVersions /\ v2.installing = 0 /\ v1' = v1 + 1 /\ UNCHANGED <<v3, v5, v6>>
        /\ v2' = [v2 EXCEPT !.installing = v1'] /\ v1' \in Worker!Versions /\ v1 \in Nat
    BY <1>1, <1>3, WorkerBounds DEF Worker!Deployed
  <2>2. /\ v2' \in WorkerStates /\ v2'.installing = v1' /\ v2'.active = v2.active /\ v2'.deletes = v2.deletes
        /\ v2.active \in 0 .. WorkerVersions
    <3> DEFINE n == v1'
    <3>1. n \in 0 .. WorkerVersions /\ v2' = [v2 EXCEPT !.installing = n]  BY <2>1, WorkerBounds
    <3> HIDE DEF n
    <3>2. /\ v2' \in WorkerStates /\ v2'.installing = n /\ v2'.active = v2.active /\ v2'.deletes = v2.deletes
          /\ v2.active \in 0 .. WorkerVersions
      BY <1>1, <3>1 DEF WorkerStates
    <3> QED  BY <3>2 DEF n
  <2>3. AskersInstalled(v1', v2', v4)
    <3>1. v2.active <= v1 /\ v2'.active < v1' /\ v2'.active <= v1'  BY <1>1, <2>1, <2>2 DEF AskersInstalled
    <3>2. ASSUME NEW f \in Worker!Fetches, v4[f].at # "none"
          PROVE  v4[f].by \in Worker!Versions /\ v4[f].by <= v1' /\ v4[f].by < v1'
      BY <1>1, <2>1, <3>2, WorkerBounds DEF AskersInstalled
    <3>3. v1' <= v1'  BY <2>1
    <3> QED  BY <2>2, <3>1, <3>2, <3>3 DEF AskersInstalled
  <2>4. \A v \in Worker!Versions : v5[v] <= v1'
    <3>1. \A v \in Worker!Versions : v5[v] \in Nat  BY <1>1
    <3> QED  BY <1>1, <2>1, <3>1
  <2>5. OthersGone(v2', v3, v6.made)  BY <1>1, <2>2 DEF OthersGone
  <2> QED  BY <1>1, <1>2, <2>1, <2>2, <2>3, <2>4, <2>5 DEF WorkerInv, WorkerTyped
<1>4. ASSUME NEW ok \in BOOLEAN, Worker!Installed(ok) PROVE WorkerInv'
  <2> DEFINE i == v2.installing
             held == IF ok THEN v1 + 1 ELSE 1
             n == IF ok THEN v1 ELSE 0
  <2>1. /\ i # 0 /\ i \in Worker!Versions /\ UNCHANGED <<v1, v6>>
        /\ v3' = [v3 EXCEPT ![i] = held] /\ v5' = [v5 EXCEPT ![i] = n]
        /\ v2' = [active |-> i, installing |-> 0, deletes |-> v2.deletes \cup {i}]
    BY <1>1, <1>4, WorkerBounds DEF Worker!Installed, WorkerStates, Worker!Held
  <2>2. /\ held \in 0 .. WorkerVersions + 1 /\ n \in 0 .. WorkerVersions /\ n <= v1 /\ (n # 0 => held = n + 1)
    BY <1>1, WorkerBounds
  <2>3. i <= v1 /\ v2.deletes \in SUBSET Worker!Versions  BY <1>1 DEF AskersInstalled, WorkerStates
  <2>4. \A f \in Worker!Fetches : v4[f].at # "none" => v4[f].by \in Worker!Versions /\ v4[f].by # i
    BY SMTT(30), <1>1, <2>1, WorkerBounds DEF AskersInstalled
  <2> HIDE DEF i, held, n
  <2>5. /\ v2' \in WorkerStates /\ v2'.active = i /\ v2'.installing = 0 /\ i \in v2'.deletes
    BY <2>1, <2>3, WorkerBounds DEF WorkerStates
  <2>6. /\ v3' \in [Worker!Versions -> 0 .. WorkerVersions + 1] /\ v5' \in [Worker!Versions -> 0 .. WorkerVersions]
        /\ v3'[i] = held /\ v5'[i] = n
        /\ \A v \in Worker!Versions \ {i} : v3'[v] = v3[v] /\ v5'[v] = v5[v]
    BY <1>1, <2>1, <2>2
  <2>7. AskersInstalled(v1, v2', v4)  BY <1>1, <2>3, <2>5, WorkerBounds DEF AskersInstalled
  <2>8. CacheIsNewest(v3', v4, v5', v6.older)
    <3>1. ASSUME NEW f \in Worker!Fetches, v4[f].at = "served"
          PROVE  v4[f].read \in Worker!Versions /\ v4[f].read <= v5'[v4[f].by]
      BY <1>1, <2>4, <2>6, <3>1 DEF CacheIsNewest
    <3>2. ASSUME NEW v \in Worker!Versions, v5'[v] # 0, v \notin v6.older
          PROVE  \/ v3'[v] \in {v5'[v] + 1, 0}
                 \/ \E f \in Worker!Fetches : v4[f].at = "served" /\ v4[f].by = v /\ v4[f].read = v5'[v]
      <4>1. CASE v = i  BY <2>2, <2>6, <3>2, <4>1
      <4>2. CASE v # i  BY <1>1, <2>6, <3>2, <4>2 DEF CacheIsNewest
      <4> QED  BY <4>1, <4>2
    <3> QED  BY <3>1, <3>2 DEF CacheIsNewest
  <2>9. \A v \in Worker!Versions : v5'[v] <= v1
    BY <1>1, <2>2, <2>6
  <2>10. OthersGone(v2', v3', v6.made)  BY <2>5 DEF OthersGone
  <2> QED  BY <1>1, <1>2, <2>1, <2>5, <2>6, <2>7, <2>8, <2>9, <2>10 DEF WorkerInv, WorkerTyped
<1>5. ASSUME NEW v \in Worker!Versions, Worker!Activated(v) PROVE WorkerInv'
  <2> DEFINE made == IF v = v2.active THEN {} ELSE v6.made
  <2>1. /\ v \in v2.deletes /\ UNCHANGED <<v1, v5>> /\ v2' = [v2 EXCEPT !.deletes = v2.deletes \ {v}]
        /\ v3' = [c \in Worker!Versions |-> IF c = v THEN v3[c] ELSE 0]
        /\ v6' = [v6 EXCEPT !.made = made]
    BY <1>1, <1>5, WorkerBounds DEF Worker!Activated, WorkerStates, LateCaches
  <2>2. made \in SUBSET Worker!Versions  BY <1>1 DEF LateCaches
  <2>3. made = IF v = v2.active THEN {} ELSE v6.made  OBVIOUS
  <2> HIDE DEF made
  <2>4. /\ v2' \in WorkerStates /\ v2'.active = v2.active /\ v2'.installing = v2.installing
        /\ v2'.deletes = v2.deletes \ {v}
    BY <1>1, <2>1 DEF WorkerStates
  <2>5. v6' \in LateCaches /\ v6'.made = made /\ v6'.older = v6.older  BY <1>1, <2>1, <2>2 DEF LateCaches
  <2>6. /\ v3' \in [Worker!Versions -> 0 .. WorkerVersions + 1] /\ v3'[v] = v3[v]
        /\ \A c \in Worker!Versions \ {v} : v3'[c] = 0
    BY <1>1, <2>1, WorkerBounds
  <2>7. AskersInstalled(v1, v2', v4)  BY <1>1, <2>4 DEF AskersInstalled
  <2>8. CacheIsNewest(v3', v4, v5, v6'.older)
    <3>1. ASSUME NEW c \in Worker!Versions, v5[c] # 0, c \notin v6.older
          PROVE  \/ v3'[c] \in {v5[c] + 1, 0}
                 \/ \E f \in Worker!Fetches : v4[f].at = "served" /\ v4[f].by = c /\ v4[f].read = v5[c]
      <4>1. CASE c = v  BY <1>1, <2>6, <3>1, <4>1 DEF CacheIsNewest
      <4>2. CASE c # v  BY <2>6, <4>2
      <4> QED  BY <4>1, <4>2
    <3> QED  BY <1>1, <2>5, <3>1 DEF CacheIsNewest
  <2>9. OthersGone(v2', v3', v6'.made)
    <3>1. CASE v = v2.active  BY <2>4, <2>6, <3>1 DEF OthersGone
    <3>2. CASE v # v2.active  BY <1>1, <2>3, <2>4, <2>5, <2>6, <3>2 DEF OthersGone
    <3> QED  BY <3>1, <3>2
  <2> QED  BY <1>1, <1>2, <2>1, <2>4, <2>5, <2>6, <2>7, <2>8, <2>9 DEF WorkerInv, WorkerTyped
<1> QED  BY <1>3, <1>4, <1>5

\* An asset is asked for, read and stored.
LEMMA FetchesKeep ==
  ASSUME WorkerInv, NEW f \in Worker!Fetches,
         Worker!Fetched(f) \/ Worker!FetchServed(f) \/ Worker!Stored(f) \/ Worker!FetchFailed(f)
  PROVE  WorkerInv'
<1>1. /\ v1 \in Worker!Versions /\ v2 \in WorkerStates /\ v3 \in [Worker!Versions -> 0 .. WorkerVersions + 1]
      /\ v4 \in [Worker!Fetches -> FetchSteps] /\ v5 \in [Worker!Versions -> 0 .. WorkerVersions]
      /\ v6 \in LateCaches /\ v7 \in [CallsIn -> CallNotes] /\ v8 \in BOOLEAN
      /\ AskersInstalled(v1, v2, v4) /\ CacheIsNewest(v3, v4, v5, v6.older)
      /\ (\A v \in Worker!Versions : v5[v] <= v1)
      /\ OthersGone(v2, v3, v6.made) /\ NoteRaced(v7)
  BY DEF WorkerInv, WorkerTyped
<1>2. UNCHANGED <<v1, v2, v7, v8>>
  BY DEF Worker!Fetched, Worker!FetchServed, Worker!Stored, Worker!FetchFailed
<1>3. ASSUME NEW r \in FetchSteps, r.at # "served", v4[f].at # "served",
             r.at # "none" => r.by \in Worker!Versions /\ r.by <= v1 /\ (v2.installing # 0 => r.by < v2.installing),
             v4' = [v4 EXCEPT ![f] = r], UNCHANGED <<v3, v5, v6>>
      PROVE  WorkerInv'
  <2>1. v4' \in [Worker!Fetches -> FetchSteps] /\ v4'[f] = r /\ \A g \in Worker!Fetches \ {f} : v4'[g] = v4[g]
    BY <1>1, <1>3
  <2>2. AskersInstalled(v1, v2, v4')  BY <1>1, <1>3, <2>1 DEF AskersInstalled
  <2>3. CacheIsNewest(v3, v4', v5, v6.older)
    <3>1. \A g \in Worker!Fetches : v4'[g].at = "served" <=> v4[g].at = "served"  BY <1>3, <2>1
    <3>2. \A g \in Worker!Fetches : v4[g].at = "served" => v4'[g] = v4[g]  BY <1>3, <2>1
    <3> QED  BY <1>1, <3>1, <3>2 DEF CacheIsNewest
  <2> QED  BY <1>1, <1>2, <1>3, <2>1, <2>2, <2>3 DEF WorkerInv, WorkerTyped
<1>4. CASE Worker!Fetched(f)
  <2> DEFINE r == [at |-> "asked", by |-> v2.active, read |-> 0]
  <2>1. v2.active # 0 /\ v4[f].at = "none" /\ v4' = [v4 EXCEPT ![f] = r] /\ UNCHANGED <<v3, v5, v6>>
    BY <1>4 DEF Worker!Fetched
  <2>2. v2.active \in Worker!Versions  BY <1>1, <2>1, WorkerBounds DEF WorkerStates
  <2>3. r \in FetchSteps /\ r.at = "asked" /\ r.by = v2.active  BY <2>2, WorkerBounds DEF FetchSteps
  <2> HIDE DEF r
  <2> QED  BY <1>1, <1>3, <2>1, <2>2, <2>3 DEF AskersInstalled
<1>5. CASE Worker!FetchFailed(f)
  <2> DEFINE r == [v4[f] EXCEPT !.at = "none", !.by = 0]
  <2>1. v4[f].at = "asked" /\ v4' = [v4 EXCEPT ![f] = r] /\ UNCHANGED <<v3, v5, v6>>
    BY <1>5 DEF Worker!FetchFailed
  <2>2. 0 \in 0 .. WorkerVersions  BY WorkerBounds
  <2>3. r \in FetchSteps /\ r.at = "none"  BY <1>1, <2>2 DEF FetchSteps
  <2> HIDE DEF r
  <2> QED  BY <1>3, <2>1, <2>3
<1> DEFINE by == v4[f].by
<1>6. CASE Worker!FetchServed(f)
  <2> DEFINE r == [v4[f] EXCEPT !.at = "served", !.read = v1]
             n == IF v5[by] > v1 THEN v5[by] ELSE v1
  <2>1. v4[f].at = "asked" /\ v4' = [v4 EXCEPT ![f] = r] /\ v5' = [v5 EXCEPT ![by] = n] /\ UNCHANGED <<v3, v6>>
    BY <1>6 DEF Worker!FetchServed
  <2>2. by \in Worker!Versions /\ by <= v1 /\ (v2.installing # 0 => by < v2.installing)
    BY <1>1, <2>1 DEF AskersInstalled
  <2>3. v1 \in 0 .. WorkerVersions /\ v1 \in Nat  BY <1>1, WorkerBounds
  <2>4. v5[by] \in Nat /\ v5[by] <= v1 /\ n = v1
    <3>1. v5[by] \in Nat /\ v5[by] <= v1  BY <1>1, <2>2
    <3> QED  BY <2>3, <3>1
  <2>5. r \in FetchSteps /\ r.at = "served" /\ r.by = by /\ r.read = v1  BY <1>1, <2>3 DEF FetchSteps
  <2> HIDE DEF r, n
  <2>6. v4' \in [Worker!Fetches -> FetchSteps] /\ v4'[f] = r /\ \A g \in Worker!Fetches \ {f} : v4'[g] = v4[g]
    BY <1>1, <2>1, <2>5
  <2>7. v5' \in [Worker!Versions -> 0 .. WorkerVersions] /\ v5'[by] = v1 /\ \A v \in Worker!Versions \ {by} : v5'[v] = v5[v]
    BY <1>1, <2>1, <2>2, <2>3, <2>4
  <2>8. AskersInstalled(v1, v2, v4')
    BY <1>1, <2>2, <2>5, <2>6 DEF AskersInstalled
  <2>9. CacheIsNewest(v3, v4', v5', v6.older)
    <3>1. ASSUME NEW g \in Worker!Fetches, v4'[g].at = "served"
          PROVE  v4'[g].read \in Worker!Versions /\ v4'[g].read <= v5'[v4'[g].by]
      <4>1. CASE g = f  BY <1>1, <2>3, <2>5, <2>6, <2>7, <4>1
      <4>2. CASE g # f
        <5>1. v4'[g] = v4[g] /\ v4[g].by \in Worker!Versions /\ v4[g].read \in Worker!Versions
              /\ v4[g].read <= v5[v4[g].by]
          BY <1>1, <2>6, <3>1, <4>2 DEF CacheIsNewest, AskersInstalled
        <5>2. CASE v4[g].by = by
          <6>1. v4[g].read \in Nat  BY <5>1, WorkerBounds
          <6> QED  BY <2>3, <2>4, <2>7, <5>1, <5>2, <6>1
        <5>3. CASE v4[g].by # by  BY <2>7, <5>1, <5>3
        <5> QED  BY <5>2, <5>3
      <4> QED  BY <4>1, <4>2
    <3>2. ASSUME NEW v \in Worker!Versions, v5'[v] # 0, v \notin v6.older
          PROVE  \/ v3[v] \in {v5'[v] + 1, 0}
                 \/ \E g \in Worker!Fetches : v4'[g].at = "served" /\ v4'[g].by = v /\ v4'[g].read = v5'[v]
      <4>1. CASE v = by  BY <2>5, <2>6, <2>7, <4>1
      <4>2. CASE v # by
        <5>1. v5'[v] = v5[v]  BY <2>7, <4>2
        <5>2. \A g \in Worker!Fetches : v4[g].at = "served" => g # f /\ v4'[g] = v4[g]  BY <2>1, <2>6
        <5> QED  BY <1>1, <3>2, <5>1, <5>2 DEF CacheIsNewest
      <4> QED  BY <4>1, <4>2
    <3> QED  BY <3>1, <3>2 DEF CacheIsNewest
  <2>10. \A v \in Worker!Versions : v5'[v] <= v1  BY <1>1, <2>3, <2>7
  <2> QED  BY <1>1, <1>2, <2>1, <2>6, <2>7, <2>8, <2>9, <2>10 DEF WorkerInv, WorkerTyped
<1>7. CASE Worker!Stored(f)
  <2> DEFINE r == [at |-> "none", by |-> 0, read |-> 0]
             read == v4[f].read
             made == IF v3[by] = 0 THEN v6.made \cup {by} ELSE v6.made
             older == IF read < v5[by] THEN v6.older \cup {by} ELSE v6.older \ {by}
  <2>1. /\ v4[f].at = "served" /\ v4' = [v4 EXCEPT ![f] = r] /\ v3' = [v3 EXCEPT ![by] = read + 1] /\ v5' = v5
        /\ v6' = [made |-> made, older |-> older]
    BY <1>7, WorkerBounds DEF Worker!Stored, Worker!Held
  <2>2. /\ by \in Worker!Versions /\ read \in Worker!Versions /\ read <= v5[by] /\ v5[by] \in Nat /\ read \in Nat
        /\ read + 1 \in 0 .. WorkerVersions + 1 /\ read + 1 # 0
    BY <1>1, <2>1, WorkerBounds DEF AskersInstalled, CacheIsNewest
  <2>3. made \in SUBSET Worker!Versions /\ older \in SUBSET Worker!Versions  BY <1>1, <2>2 DEF LateCaches
  <2>4. v6' \in LateCaches /\ v6'.made = made /\ v6'.older = older  BY <2>1, <2>3 DEF LateCaches
  <2>5. r \in FetchSteps /\ r.at = "none"  BY WorkerBounds DEF FetchSteps
  <2>6. (v3[by] = 0 => by \in made) /\ v6.made \subseteq made  OBVIOUS
  <2>7. /\ by \notin older => read = v5[by]
        /\ \A v \in Worker!Versions \ {by} : v \in older <=> v \in v6.older
    BY <2>2
  <2> HIDE DEF r, read, made, older, by
  <2>8. v4' \in [Worker!Fetches -> FetchSteps] /\ v4'[f] = r /\ \A g \in Worker!Fetches \ {f} : v4'[g] = v4[g]
    BY <1>1, <2>1, <2>5
  <2>9. /\ v3' \in [Worker!Versions -> 0 .. WorkerVersions + 1] /\ v3'[by] = read + 1
        /\ \A v \in Worker!Versions \ {by} : v3'[v] = v3[v]
    BY <1>1, <2>1, <2>2
  <2>10. AskersInstalled(v1, v2, v4')  BY <1>1, <2>5, <2>8 DEF AskersInstalled
  <2>11. CacheIsNewest(v3', v4', v5, v6'.older)
    <3>1. ASSUME NEW g \in Worker!Fetches, v4'[g].at = "served"
          PROVE  v4'[g].read \in Worker!Versions /\ v4'[g].read <= v5[v4'[g].by]
      BY <1>1, <2>5, <2>8, <3>1 DEF CacheIsNewest
    <3>2. ASSUME NEW v \in Worker!Versions, v5[v] # 0, v \notin older
          PROVE  \/ v3'[v] \in {v5[v] + 1, 0}
                 \/ \E g \in Worker!Fetches : v4'[g].at = "served" /\ v4'[g].by = v /\ v4'[g].read = v5[v]
      <4>1. CASE v = by  BY <2>7, <2>9, <3>2, <4>1
      <4>2. CASE v # by
        <5>1. \A g \in Worker!Fetches : v4[g].by = v => g # f /\ v4'[g] = v4[g]  BY <2>8, <4>2 DEF by
        <5> QED  BY <1>1, <2>7, <2>9, <3>2, <4>2, <5>1 DEF CacheIsNewest
      <4> QED  BY <4>1, <4>2
    <3> QED  BY <2>4, <3>1, <3>2 DEF CacheIsNewest
  <2>12. OthersGone(v2, v3', v6'.made)
    <3> SUFFICES ASSUME v2.active \notin v2.deletes, NEW v \in Worker!Versions \ {v2.active}, v3'[v] # 0
                 PROVE  v \in made
      BY <2>4 DEF OthersGone
    <3>1. CASE v3[v] # 0  BY <1>1, <2>6, <3>1 DEF OthersGone
    <3>2. CASE v3[v] = 0  BY <2>6, <2>9, <3>2
    <3> QED  BY <3>1, <3>2
  <2> QED  BY <1>1, <1>2, <2>1, <2>4, <2>8, <2>9, <2>10, <2>11, <2>12 DEF WorkerInv, WorkerTyped
<1> QED  BY <1>4, <1>5, <1>6, <1>7

\* A call is pushed, shown, told to be over, clicked.
LEMMA NotesKeep ==
  ASSUME WorkerInv,
         Worker!FrontChanges
         \/ \E c \in CallsIn : Worker!Pushed(c) \/ Worker!Shown(c) \/ Worker!CallTerminal(c) \/ Worker!Clicked(c)
  PROVE  WorkerInv'
<1>1. v7 \in [CallsIn -> CallNotes] /\ v8 \in BOOLEAN /\ NoteRaced(v7)  BY DEF WorkerInv, WorkerTyped
<1>2. UNCHANGED <<v1, v2, v3, v4, v5, v6>>
  BY DEF Worker!FrontChanges, Worker!Pushed, Worker!Shown, Worker!CallTerminal, Worker!Clicked
<1>3. v7' \in [CallsIn -> CallNotes] /\ NoteRaced(v7')
  <2>1. ASSUME NEW c \in CallsIn, NEW r \in CallNotes, v7' = [v7 EXCEPT ![c] = r],
               r.told /\ (r.shown # "none" \/ r.push = "looking") => r.raced
        PROVE  v7' \in [CallsIn -> CallNotes] /\ NoteRaced(v7')
    BY <1>1, <2>1 DEF NoteRaced
  <2>2. ASSUME NEW c \in CallsIn, Worker!Pushed(c) PROVE v7' \in [CallsIn -> CallNotes] /\ NoteRaced(v7')
    <3> DEFINE raced == v7[c].raced \/ v7[c].told
               r == [v7[c] EXCEPT !.push = "looking", !.raced = raced]
    <3>1. v7' = [v7 EXCEPT ![c] = r]  BY <2>2 DEF Worker!Pushed
    <3>2. raced \in BOOLEAN /\ (v7[c].told => raced)  BY <1>1 DEF CallNotes
    <3> HIDE DEF raced
    <3>3. r \in CallNotes /\ (r.told => r.raced)  BY <1>1, <3>2 DEF CallNotes
    <3> HIDE DEF r
    <3> QED  BY <2>1, <3>1, <3>3
  <2>3. ASSUME NEW c \in CallsIn, Worker!Shown(c) PROVE v7' \in [CallsIn -> CallNotes] /\ NoteRaced(v7')
    <3> DEFINE how == IF v8 THEN "silent" ELSE "ringing"
               r == [v7[c] EXCEPT !.push = "over", !.shown = how]
    <3>1. v7' = [v7 EXCEPT ![c] = r] /\ v7[c].push = "looking"  BY <2>3 DEF Worker!Shown
    <3>2. how \in {"silent", "ringing"}  OBVIOUS
    <3> HIDE DEF how
    <3>3. r \in CallNotes /\ r.told = v7[c].told /\ r.raced = v7[c].raced  BY <1>1, <3>2 DEF CallNotes
    <3> HIDE DEF r
    <3> QED  BY <1>1, <2>1, <3>1, <3>3 DEF NoteRaced
  <2>4. ASSUME NEW c \in CallsIn, Worker!CallTerminal(c) PROVE v7' \in [CallsIn -> CallNotes] /\ NoteRaced(v7')
    <3> DEFINE raced == v7[c].raced \/ v7[c].push = "looking"
               r == [v7[c] EXCEPT !.told = TRUE, !.shown = "none", !.raced = raced]
    <3>1. v7' = [v7 EXCEPT ![c] = r]  BY <2>4 DEF Worker!CallTerminal
    <3>2. raced \in BOOLEAN /\ (v7[c].push = "looking" => raced)  BY <1>1 DEF CallNotes
    <3> HIDE DEF raced
    <3>3. r \in CallNotes /\ r.shown = "none" /\ r.push = v7[c].push /\ r.raced = raced  BY <1>1, <3>2 DEF CallNotes
    <3> HIDE DEF r
    <3> QED  BY <2>1, <3>1, <3>2, <3>3
  <2>5. ASSUME NEW c \in CallsIn, Worker!Clicked(c) PROVE v7' \in [CallsIn -> CallNotes] /\ NoteRaced(v7')
    <3> DEFINE r == [v7[c] EXCEPT !.shown = "none"]
    <3>1. v7' = [v7 EXCEPT ![c] = r]  BY <2>5 DEF Worker!Clicked
    <3>2. r \in CallNotes /\ r.shown = "none" /\ r.push = v7[c].push /\ r.raced = v7[c].raced /\ r.told = v7[c].told
      BY <1>1 DEF CallNotes
    <3> HIDE DEF r
    <3> QED  BY <1>1, <2>1, <3>1, <3>2 DEF NoteRaced
  <2>6. CASE Worker!FrontChanges  BY <1>1, <2>6 DEF Worker!FrontChanges
  <2> QED  BY <2>2, <2>3, <2>4, <2>5, <2>6
<1>4. v8' \in BOOLEAN
  BY <1>1 DEF Worker!FrontChanges, Worker!Pushed, Worker!Shown, Worker!CallTerminal, Worker!Clicked
<1> QED  BY <1>2, <1>3, <1>4 DEF WorkerInv, WorkerTyped, AskersInstalled, CacheIsNewest, OthersGone

LEMMA WorkerStepKeeps == ASSUME WorkerInv, [Worker!Next]_Worker!vars PROVE WorkerInv'
<1>1. CASE UNCHANGED Worker!vars
  BY <1>1 DEF Worker!vars, WorkerInv, WorkerTyped, AskersInstalled, CacheIsNewest, OthersGone, NoteRaced
<1> QED  BY <1>1, VersionsKeep, FetchesKeep, NotesKeep DEF Worker!Next

LEMMA WorkerIs == WorkerInv => Worker!TypeOK /\ Worker!WorkerSettled
<1> SUFFICES ASSUME WorkerInv PROVE Worker!TypeOK /\ Worker!WorkerSettled  OBVIOUS
<1>1. Worker!TypeOK
  BY DEF WorkerInv, WorkerTyped, WorkerStates, FetchSteps, LateCaches, CallNotes, Worker!TypeOK
<1>2. ASSUME \A f \in Worker!Fetches : v4[f].at = "none", v2.active \notin {0} \cup v6.older, v5[v2.active] # 0
      PROVE  v3[v2.active] \in {Worker!Held(v5[v2.active]), Worker!Gone}
  <2>1. v2.active \in Worker!Versions /\ v2.active \notin v6.older
    BY <1>2, WorkerBounds DEF WorkerInv, WorkerTyped, WorkerStates
  <2> QED  BY <1>2, <2>1, WorkerBounds DEF WorkerInv, CacheIsNewest, Worker!Held
<1>3. v2.deletes = {} => \A v \in Worker!Versions \ {v2.active} : v3[v] # Worker!Gone => v \in v6.made
  BY WorkerBounds DEF WorkerInv, OthersGone
<1>4. \A c \in CallsIn : v7[c].told /\ v7[c].shown # "none" => v7[c].raced
  BY DEF WorkerInv, NoteRaced
<1> QED  BY <1>1, <1>2, <1>3, <1>4 DEF Worker!WorkerSettled

WorkerPart == which = "worker" => WorkerInv

LEMMA WorkerStart == Init => WorkerPart
  BY PagesConstants, WorkerInitEstablishes DEF Init, WorkerPart

LEMMA WorkerStep == WorkerPart /\ [Next]_vars => WorkerPart'
<1> SUFFICES ASSUME WorkerPart, [Next]_vars PROVE WorkerPart'
  OBVIOUS
<1>1. CASE which = "worker"
  <2>1. [Worker!Next]_Worker!vars  BY <1>1 DEF Next, vars, Step, Worker!vars
  <2>2. which' = "worker"  BY <1>1 DEF Next, vars, Step
  <2> QED  BY <1>1, <2>1, <2>2, PagesConstants, WorkerStepKeeps DEF WorkerPart
<1>2. CASE which # "worker"  BY <1>2 DEF Next, vars, Step, WorkerPart
<1> QED  BY <1>1, <1>2

-----------------------------------------------------------------------------
(* The settings and the lock of the open conversation's mailbox. *)

LockNumbers == 0 .. LockChanges
LockOpens == [conv : Convs \cup {None}, page : Mailbox!Settings, core : Mailbox!Settings, one : BOOLEAN]
LockDialogs == SUBSET Mailbox!Dialogs
LockAsks == [at : {"none", "asked", "served"}, conv : Convs \cup {None}, is : Mailbox!Settings, over : LockNumbers,
             quiet : BOOLEAN]
LockLists == [at : {"none", "asked", "served"}, is : [Convs -> Mailbox!Settings]]
LockLoadings == [lists : [Mailbox!Loads -> LockLists], messages : 0 .. LockLoads, due : BOOLEAN]

MailboxTyped ==
  /\ v1 \in [Convs -> Mailbox!Settings] /\ v2 \in [Convs -> Mailbox!Settings] /\ v3 \in LockOpens
  /\ v4 \in LockDialogs /\ v5 \in [Mailbox!Ops -> LockAsks] /\ v6 \in LockLoadings
  /\ v7 \in BOOLEAN /\ v8 \in BOOLEAN

\* t is the last change of any conversation's settings.
LastChange(t, s) ==
  /\ t \in LockNumbers /\ \A c \in Convs : s[c].n <= t
  /\ t > 0 => \E c \in Convs : s[c].n = t

\* Settings that were the server's: its own, those listed, and the answers to come.
WasServers(x, s, li, ls, os) ==
  \/ \E c \in Convs : x = s[c] \/ x = li[c]
  \/ \E l \in Mailbox!Loads : ls.lists[l].at = "served" /\ \E c \in Convs : x = ls.lists[l].is[c]
  \/ os["save"].at = "served" /\ x = os["save"].is
  \/ \E o \in Mailbox!Locks : os[o].at = "served" /\ x = [lock |-> TRUE, locked |-> TRUE, n |-> os[o].is.n]

\* With the number of a conversation's settings, they are those settings.
KeptKnown(t, s, li, ls, os) ==
  \A x \in Mailbox!Settings : WasServers(x, s, li, ls, os) => /\ x.n <= t
                                                             /\ \A c \in Convs : x.n = s[c].n => x = s[c]

\* So are the two objects of the open conversation, whatever was written to them.
OpenKnown(t, s, op) ==
  /\ op.conv # None => \A x \in {op.page, op.core} : x.n <= t /\ (x.n = s[op.conv].n => x = s[op.conv])
  /\ op.one => op.page = op.core
  /\ op.conv = None => op.one

\* An answer's change was the conversation's it was asked for, and no other's.
AnswersKnown(s, os) ==
  \A o \in Mailbox!Ops :
    /\ os[o].at # "none" => os[o].conv \in Convs
    /\ os[o].at = "served" => /\ os[o].over < os[o].is.n /\ os[o].is.n <= s[os[o].conv].n
                              /\ \A c \in Convs : os[o].is.n = s[c].n => c = os[o].conv

\* What the server unlocked had the lock the settings had that were unlocked.
UnlockKnown(s, li, ls, os, op) ==
  LET u == os["unlock"] IN
  u.at = "served" /\ u.is.n = s[u.conv].n =>
    /\ ~s[u.conv].locked
    /\ \A x \in Mailbox!Settings :
         /\ WasServers(x, s, li, ls, os) \/ (op.conv = u.conv /\ x \in {op.page, op.core})
         /\ x.n = u.over
         => x.lock = s[u.conv].lock

\* A page that is not behind tells the lock, or an answer is on its way.
LockFollows(s, op, os, late) ==
  ~late /\ op.conv # None => op.core = s[op.conv] \/ \E o \in Mailbox!Ops : os[o].at = "served"

MailboxKnown(t) ==
  /\ LastChange(t, v1) /\ KeptKnown(t, v1, v2, v6, v5) /\ OpenKnown(t, v1, v3) /\ AnswersKnown(v1, v5)
  /\ UnlockKnown(v1, v2, v6, v5, v3)

MailboxInv ==
  /\ MailboxTyped /\ \E t \in LockNumbers : MailboxKnown(t)
  /\ LockFollows(v1, v3, v5, v8) /\ (v7 => v3.conv # None)

LEMMA MailboxBounds ==
  /\ LockChanges \in Nat /\ LockLoads \in Nat /\ LockOps \in Nat /\ None \notin Convs /\ 0 \in LockNumbers
  /\ Mailbox!Nothing \in Mailbox!Settings /\ Mailbox!Nothing.n = 0
  /\ Mailbox!NoOp \in LockAsks /\ Mailbox!NoOp.at = "none"
  /\ Mailbox!NoList \in LockLists /\ Mailbox!NoList.at = "none"
<1>1. LockChanges \in Nat /\ LockLoads \in Nat /\ LockOps \in Nat /\ None \notin Convs
  BY PagesConstants DEF Mailbox!LockAssumption
<1>2. 0 \in LockNumbers  BY <1>1 DEF LockNumbers
<1>3. Mailbox!Nothing \in Mailbox!Settings /\ Mailbox!Nothing.n = 0
  BY <1>1 DEF Mailbox!Nothing, Mailbox!Settings
<1>4. Mailbox!NoOp \in LockAsks /\ Mailbox!NoOp.at = "none"  BY <1>2, <1>3 DEF Mailbox!NoOp, LockAsks
<1>5. Mailbox!NoList \in LockLists /\ Mailbox!NoList.at = "none"  BY <1>3 DEF Mailbox!NoList, LockLists
<1> QED  BY <1>1, <1>2, <1>3, <1>4, <1>5

LEMMA MailboxInitEstablishes == ASSUME Mailbox!Init PROVE MailboxInv
<1>1. PICK b \in BOOLEAN : v1 = [c \in Convs |-> [lock |-> TRUE, locked |-> b, n |-> 0]]  BY DEF Mailbox!Init
<1> DEFINE r == [lock |-> TRUE, locked |-> b, n |-> 0]
<1>2. r \in Mailbox!Settings /\ r.n = 0  BY MailboxBounds DEF Mailbox!Settings, LockNumbers
<1> HIDE DEF r
<1>3. v1 \in [Convs -> Mailbox!Settings] /\ \A c \in Convs : v1[c] = r  BY <1>1, <1>2 DEF r
<1>4. /\ v2 = v1 /\ v3 = [conv |-> None, page |-> Mailbox!Nothing, core |-> Mailbox!Nothing, one |-> TRUE]
      /\ v4 = {} /\ v5 = [o \in Mailbox!Ops |-> Mailbox!NoOp]
      /\ v6 = [lists |-> [l \in Mailbox!Loads |-> Mailbox!NoList], messages |-> 0, due |-> FALSE]
      /\ v7 = FALSE /\ v8 = FALSE
  BY DEF Mailbox!Init
<1>5. v3 \in LockOpens /\ v3.conv = None /\ v3.one /\ v3.page = v3.core  BY <1>4, MailboxBounds DEF LockOpens
<1>6. v4 \in LockDialogs  BY <1>4 DEF LockDialogs
<1>7. v5 \in [Mailbox!Ops -> LockAsks] /\ \A o \in Mailbox!Ops : v5[o].at = "none"  BY <1>4, MailboxBounds
<1>8. v6 \in LockLoadings /\ \A l \in Mailbox!Loads : v6.lists[l].at = "none"
  <2> DEFINE f == [l \in Mailbox!Loads |-> Mailbox!NoList]
  <2>1. f \in [Mailbox!Loads -> LockLists] /\ \A l \in Mailbox!Loads : f[l].at = "none"  BY MailboxBounds
  <2>2. 0 \in 0 .. LockLoads  BY MailboxBounds
  <2> HIDE DEF f
  <2>3. v6 = [lists |-> f, messages |-> 0, due |-> FALSE]  BY <1>4 DEF f
  <2> QED  BY <2>1, <2>2, <2>3 DEF LockLoadings
<1>9. MailboxTyped  BY <1>3, <1>4, <1>5, <1>6, <1>7, <1>8 DEF MailboxTyped
<1>10. LastChange(0, v1)  BY <1>2, <1>3, MailboxBounds DEF LastChange
<1>11. "save" \in Mailbox!Ops /\ Mailbox!Locks \subseteq Mailbox!Ops /\ "unlock" \in Mailbox!Ops  BY DEF Mailbox!Ops
<1>12. KeptKnown(0, v1, v2, v6, v5)  BY <1>2, <1>3, <1>4, <1>7, <1>8, <1>11 DEF KeptKnown, WasServers
<1>13. OpenKnown(0, v1, v3) /\ AnswersKnown(v1, v5) /\ UnlockKnown(v1, v2, v6, v5, v3)
  BY <1>5, <1>7, <1>11 DEF OpenKnown, AnswersKnown, UnlockKnown
<1> QED  BY <1>4, <1>5, <1>9, <1>10, <1>12, <1>13, MailboxBounds DEF MailboxInv, MailboxKnown, LockFollows

\* x is the server's, or of the open conversation c.
ComesFrom(x, c) == WasServers(x, v1, v2, v6, v5) \/ (v3.conv = c /\ x \in {v3.page, v3.core})

\* Steps that change no settings at the server and bring the page none but the server's.
MailboxMoves ==
  /\ v1' = v1
  /\ \A x \in Mailbox!Settings : WasServers(x, v1, v2', v6', v5') => WasServers(x, v1, v2, v6, v5)
  /\ \A o \in Mailbox!Ops : v5'[o] = v5[o] \/ (v5'[o].at # "served" /\ (v5'[o].at # "none" => v5'[o].conv \in Convs))
  /\ v3'.conv # None => ComesFrom(v3'.page, v3'.conv) /\ ComesFrom(v3'.core, v3'.conv)
  /\ v3'.one => v3'.page = v3'.core
  /\ v3'.conv = None => v3'.one

LEMMA MovesKeep ==
  ASSUME MailboxInv, MailboxTyped', MailboxMoves, LockFollows(v1, v3', v5', v8'), v7' => v3'.conv # None
  PROVE  MailboxInv'
<1>1. PICK t \in LockNumbers : MailboxKnown(t)  BY DEF MailboxInv
<1>2. LastChange(t, v1') /\ KeptKnown(t, v1', v2', v6', v5')
  BY <1>1 DEF MailboxKnown, MailboxMoves, KeptKnown
<1>3. v3' \in LockOpens /\ v3'.page \in Mailbox!Settings /\ v3'.core \in Mailbox!Settings
      /\ (v3'.conv # None => v3'.conv \in Convs)
  BY DEF MailboxTyped, LockOpens
<1>4. OpenKnown(t, v1', v3')
  <2>1. ASSUME v3'.conv # None, NEW x \in {v3'.page, v3'.core}
        PROVE  x.n <= t /\ (x.n = v1[v3'.conv].n => x = v1[v3'.conv])
    <3>1. x \in Mailbox!Settings /\ v3'.conv \in Convs /\ ComesFrom(x, v3'.conv)  BY <1>3, <2>1 DEF MailboxMoves
    <3>2. CASE WasServers(x, v1, v2, v6, v5)  BY <1>1, <3>1, <3>2 DEF MailboxKnown, KeptKnown
    <3>3. CASE v3.conv = v3'.conv /\ x \in {v3.page, v3.core}
      BY <1>1, <2>1, <3>3 DEF MailboxKnown, OpenKnown
    <3> QED  BY <3>1, <3>2, <3>3 DEF ComesFrom
  <2> QED  BY <2>1 DEF OpenKnown, MailboxMoves
<1>5. AnswersKnown(v1', v5')  BY <1>1 DEF MailboxKnown, MailboxMoves, AnswersKnown
<1>6. UnlockKnown(v1', v2', v6', v5', v3')
  <2> DEFINE u == v5["unlock"]
  <2>1. SUFFICES ASSUME v5'["unlock"].at = "served", v5'["unlock"].is.n = v1[v5'["unlock"].conv].n
                 PROVE  /\ ~v1[u.conv].locked
                        /\ v5'["unlock"] = u
                        /\ \A x \in Mailbox!Settings :
                             /\ WasServers(x, v1, v2', v6', v5') \/ (v3'.conv = u.conv /\ x \in {v3'.page, v3'.core})
                             /\ x.n = u.over
                             => x.lock = v1[u.conv].lock
    BY DEF UnlockKnown, MailboxMoves
  <2>2. v5'["unlock"] = u  BY <2>1 DEF MailboxMoves, Mailbox!Ops
  <2>3. /\ ~v1[u.conv].locked
        /\ \A x \in Mailbox!Settings :
             /\ WasServers(x, v1, v2, v6, v5) \/ (v3.conv = u.conv /\ x \in {v3.page, v3.core})
             /\ x.n = u.over
             => x.lock = v1[u.conv].lock
    BY <1>1, <2>1, <2>2 DEF MailboxKnown, UnlockKnown
  <2>4. u.conv # None
    <3>1. u.conv \in Convs  BY <1>1, <2>1, <2>2 DEF MailboxKnown, AnswersKnown, Mailbox!Ops
    <3> QED  BY <3>1, MailboxBounds
  <2> HIDE DEF u
  <2>5. ASSUME NEW x \in Mailbox!Settings, x.n = u.over,
               WasServers(x, v1, v2', v6', v5') \/ (v3'.conv = u.conv /\ x \in {v3'.page, v3'.core})
        PROVE  x.lock = v1[u.conv].lock
    <3>1. CASE WasServers(x, v1, v2', v6', v5')  BY <2>3, <2>5, <3>1 DEF MailboxMoves
    <3>2. CASE v3'.conv = u.conv /\ x \in {v3'.page, v3'.core}
      <4>1. ComesFrom(x, u.conv)  BY <2>4, <3>2 DEF MailboxMoves
      <4> QED  BY <2>3, <2>5, <4>1 DEF ComesFrom
    <3> QED  BY <2>5, <3>1, <3>2
  <2> QED  BY <2>2, <2>3, <2>5
<1> QED  BY <1>1, <1>2, <1>4, <1>5, <1>6 DEF MailboxInv, MailboxKnown, MailboxMoves

\* One list of the loads changes.
LEMMA OneListSet ==
  ASSUME NEW ls \in LockLoadings, NEW l \in Mailbox!Loads, NEW r \in LockLists, NEW js, js = [ls EXCEPT !.lists[l] = r]
  PROVE  /\ js \in LockLoadings /\ js.lists[l] = r /\ \A k \in Mailbox!Loads \ {l} : js.lists[k] = ls.lists[k]
<1> DEFINE f == [ls.lists EXCEPT ![l] = r]
<1>1. ls.lists \in [Mailbox!Loads -> LockLists]  BY DEF LockLoadings
<1>2. f \in [Mailbox!Loads -> LockLists] /\ f[l] = r /\ \A k \in Mailbox!Loads \ {l} : f[k] = ls.lists[k]  BY <1>1
<1>3. js = [ls EXCEPT !.lists = f]  OBVIOUS
<1> HIDE DEF f
<1>4. js \in LockLoadings /\ js.lists = f  BY <1>2, <1>3 DEF LockLoadings
<1> QED  BY <1>2, <1>4

\* A load that was answered before still has its answer.
FewerServed(ls) ==
  ls \in LockLoadings /\ \A l \in Mailbox!Loads : ls.lists[l].at = "served" => ls.lists[l] = v6.lists[l]

LEMMA ListAskedKeeps ==
  ASSUME NEW ls, FewerServed(ls), Mailbox!ListAsked(ls)
  PROVE  FewerServed(v6')
<1>1. PICK l \in Mailbox!Loads : ls.lists[l] = Mailbox!NoList /\ v6' = [ls EXCEPT !.lists[l].at = "asked"]
  BY DEF Mailbox!ListAsked
<1> DEFINE r == [ls.lists[l] EXCEPT !.at = "asked"]
<1>2. ls \in LockLoadings /\ ls.lists[l] \in LockLists  BY <1>1, MailboxBounds DEF FewerServed
<1>3. r \in LockLists /\ r.at = "asked" /\ v6' = [ls EXCEPT !.lists[l] = r]  BY <1>1, <1>2 DEF LockLists
<1> HIDE DEF r
<1>4. v6' \in LockLoadings /\ v6'.lists[l] = r /\ \A k \in Mailbox!Loads \ {l} : v6'.lists[k] = ls.lists[k]
  BY <1>2, <1>3, OneListSet
<1> QED  BY <1>3, <1>4 DEF FewerServed

\* With the answers of fewer loads and requests nothing new is the server's.
LEMMA FewerKept ==
  ASSUME v1' = v1, v2' = v2, FewerServed(v6'),
         \A o \in Mailbox!Ops : v5'[o].at = "served" => v5'[o] = v5[o]
  PROVE  \A x \in Mailbox!Settings : WasServers(x, v1, v2', v6', v5') => WasServers(x, v1, v2, v6, v5)
<1>1. "save" \in Mailbox!Ops /\ Mailbox!Locks \subseteq Mailbox!Ops  BY DEF Mailbox!Ops
<1> QED  BY <1>1 DEF WasServers, FewerServed

\* Steps that leave the open conversation, the lists and the requests alone.
LEMMA DialogStepKeeps ==
  ASSUME MailboxInv, UNCHANGED <<v1, v2, v3, v5, v8>>, FewerServed(v6'), v4' \in LockDialogs, v7' \in BOOLEAN,
         v7' => v3.conv # None
  PROVE  MailboxInv'
<1>1. MailboxTyped'  BY DEF MailboxInv, MailboxTyped, FewerServed
<1>2. v3.one => v3.page = v3.core  BY DEF MailboxInv, MailboxKnown, OpenKnown
<1>3. v3.conv = None => v3.one  BY DEF MailboxInv, MailboxKnown, OpenKnown
<1>4. MailboxMoves  BY <1>2, <1>3, FewerKept DEF MailboxMoves, ComesFrom
<1>5. LockFollows(v1, v3', v5', v8')  BY DEF MailboxInv, LockFollows
<1> QED  BY <1>1, <1>4, <1>5, MovesKeep

LEMMA DialogsAndListsKeep ==
  ASSUME MailboxInv,
         \/ Mailbox!ListWanted \/ Mailbox!RefreshDue \/ Mailbox!LoadFailed \/ Mailbox!OpenSettings
         \/ Mailbox!UnlockClicked \/ Mailbox!Refreshed \/ Mailbox!CallBegins \/ Mailbox!Hidden \/ Mailbox!Shown
         \/ \E d \in Mailbox!Dialogs : Mailbox!DialogClosed(d)
  PROVE  MailboxInv'
<1>1. /\ v3 \in LockOpens /\ v4 \in LockDialogs /\ v6 \in LockLoadings /\ v7 \in BOOLEAN /\ MailboxTyped
      /\ v3.core \in Mailbox!Settings /\ v3.core.lock \in BOOLEAN
  BY DEF MailboxInv, MailboxTyped, LockOpens, LockDialogs, Mailbox!Settings
<1>2. UNCHANGED <<v1, v2, v3, v5, v8>>
  BY DEF Mailbox!ListWanted, Mailbox!RefreshDue, Mailbox!LoadFailed, Mailbox!OpenSettings,
         Mailbox!UnlockClicked, Mailbox!Refreshed, Mailbox!CallBegins, Mailbox!Hidden, Mailbox!Shown,
         Mailbox!DialogClosed
<1>3. FewerServed(v6)  BY <1>1 DEF FewerServed
<1>4. v7 => v3.conv # None  BY DEF MailboxInv
<1>5. CASE Mailbox!ListWanted
  <2>1. FewerServed(v6') /\ v4' = v4 /\ v7' = v7  BY <1>3, <1>5, ListAskedKeeps DEF Mailbox!ListWanted
  <2> QED  BY <1>1, <1>2, <1>4, <2>1, DialogStepKeeps
<1>6. CASE Mailbox!RefreshDue
  <2> DEFINE m == IF v3.conv # None THEN v6.messages + 1 ELSE v6.messages
             ls == [v6 EXCEPT !.due = FALSE, !.messages = m]
  <2>1. v6.messages \in 0 .. LockLoads /\ v6.messages < LockLoads  BY <1>1, <1>6 DEF LockLoadings, Mailbox!RefreshDue
  <2>2. m \in 0 .. LockLoads  BY <2>1, MailboxBounds
  <2>3. Mailbox!ListAsked(ls)  BY <1>6 DEF Mailbox!RefreshDue
  <2> HIDE DEF m
  <2>4. ls \in LockLoadings /\ ls.lists = v6.lists  BY <1>1, <2>2 DEF LockLoadings
  <2>5. FewerServed(ls)  BY <1>3, <2>4 DEF FewerServed
  <2> HIDE DEF ls
  <2>6. FewerServed(v6') /\ v4' = v4 /\ v7' = v7  BY <1>6, <2>3, <2>5, ListAskedKeeps DEF Mailbox!RefreshDue
  <2> QED  BY <1>1, <1>2, <1>4, <2>6, DialogStepKeeps
<1>7. CASE Mailbox!LoadFailed
  <2>1. v4' = v4 /\ v7' = v7  BY <1>7 DEF Mailbox!LoadFailed
  <2>2. CASE v6.messages > 0 /\ v6' = [v6 EXCEPT !.messages = @ - 1]
    <3> DEFINE m == v6.messages - 1
    <3>1. v6.messages \in 0 .. LockLoads  BY <1>1 DEF LockLoadings
    <3>2. m \in 0 .. LockLoads /\ v6' = [v6 EXCEPT !.messages = m]  BY <2>2, <3>1, MailboxBounds
    <3> HIDE DEF m
    <3>3. v6' \in LockLoadings /\ v6'.lists = v6.lists  BY <1>1, <3>2 DEF LockLoadings
    <3>4. FewerServed(v6')  BY <3>3 DEF FewerServed
    <3> QED  BY <1>1, <1>2, <1>4, <2>1, <3>4, DialogStepKeeps
  <2>3. ASSUME NEW l \in Mailbox!Loads, v6' = [v6 EXCEPT !.lists[l] = Mailbox!NoList] PROVE MailboxInv'
    <3> DEFINE r == Mailbox!NoList
    <3>0. r \in LockLists /\ r.at = "none"  BY MailboxBounds
    <3> HIDE DEF r
    <3>1. v6' = [v6 EXCEPT !.lists[l] = r]  BY <2>3 DEF r
    <3>2. v6' \in LockLoadings /\ v6'.lists[l] = r /\ \A k \in Mailbox!Loads \ {l} : v6'.lists[k] = v6.lists[k]
      <4>1. v6 \in LockLoadings /\ l \in Mailbox!Loads /\ v6.lists[l] \in LockLists  BY <1>1, <2>3 DEF LockLoadings
      <4> QED  BY <3>0, <3>1, <4>1, OneListSet
    <3>3. FewerServed(v6')  BY <3>0, <3>2 DEF FewerServed
    <3> QED  BY <1>1, <1>2, <1>4, <2>1, <3>3, DialogStepKeeps
  <2> QED  BY <1>7, <2>2, <2>3 DEF Mailbox!LoadFailed
<1>8. CASE \/ Mailbox!OpenSettings \/ Mailbox!UnlockClicked \/ Mailbox!CallBegins
           \/ \E d \in Mailbox!Dialogs : Mailbox!DialogClosed(d)
  <2>1. v4' \in LockDialogs
    BY <1>1, <1>8 DEF Mailbox!OpenSettings, Mailbox!UnlockClicked, Mailbox!CallBegins, Mailbox!DialogClosed,
                     Mailbox!Shows, Mailbox!Closes, LockDialogs, Mailbox!Dialogs
  <2>2. v6' = v6 /\ v7' = v7
    BY <1>8 DEF Mailbox!OpenSettings, Mailbox!UnlockClicked, Mailbox!CallBegins, Mailbox!DialogClosed
  <2> QED  BY <1>1, <1>2, <1>3, <1>4, <2>1, <2>2, DialogStepKeeps
<1>11. CASE Mailbox!Refreshed
  <2>1. v6' = [v6 EXCEPT !.due = TRUE] /\ v4' = v4 /\ v7' = v7  BY <1>11 DEF Mailbox!Refreshed, Mailbox!Refreshes
  <2>2. v6' \in LockLoadings /\ v6'.lists = v6.lists  BY <1>1, <2>1 DEF LockLoadings
  <2>3. FewerServed(v6')  BY <2>2 DEF FewerServed
  <2> QED  BY <1>1, <1>2, <1>4, <2>1, <2>3, DialogStepKeeps
<1>12. CASE Mailbox!Hidden
  <2> DEFINE b == v3.conv # None /\ v3.core.lock
  <2>1. b \in BOOLEAN /\ (b => v3.conv # None) /\ v7' = b /\ v4' = v4 /\ v6' = v6  BY <1>1, <1>12 DEF Mailbox!Hidden
  <2> HIDE DEF b
  <2> QED  BY <1>1, <1>2, <1>3, <2>1, DialogStepKeeps
<1>13. CASE Mailbox!Shown
  <2>1. v7' = FALSE /\ v4' = v4 /\ v6' = v6  BY <1>13 DEF Mailbox!Shown
  <2> QED  BY <1>1, <1>2, <1>3, <2>1, DialogStepKeeps
<1> QED  BY <1>5, <1>6, <1>7, <1>8, <1>11, <1>12, <1>13

\* A conversation is opened, and the answers of lists and messages give it other objects.
LEMMA SelectedKeeps == ASSUME MailboxInv, NEW c \in Convs, Mailbox!Selected(c) PROVE MailboxInv'
<1>1. /\ v1 \in [Convs -> Mailbox!Settings] /\ v2 \in [Convs -> Mailbox!Settings] /\ v6 \in LockLoadings
      /\ v4 \in LockDialogs /\ MailboxTyped /\ v2[c] \in Mailbox!Settings
  BY DEF MailboxInv, MailboxTyped
<1>2. /\ v3' = [conv |-> c, page |-> v2[c], core |-> v2[c], one |-> TRUE] /\ UNCHANGED <<v1, v2, v5, v7>>
      /\ v6' = [v6 EXCEPT !.messages = v6.messages + 1] /\ v6.messages < LockLoads
      /\ v4' = IF v2[c].locked THEN {"unlock"} ELSE {}
      /\ v8' = (v2[c].n # v1[c].n)
  BY DEF Mailbox!Selected
<1>3. /\ v3' \in LockOpens /\ v3'.conv = c /\ v3'.page = v2[c] /\ v3'.core = v2[c] /\ v3'.one
  BY <1>1, <1>2 DEF LockOpens
<1> DEFINE m == v6.messages + 1
<1>4. m \in 0 .. LockLoads
  <2>1. v6.messages \in 0 .. LockLoads  BY <1>1 DEF LockLoadings
  <2> QED  BY <1>2, <2>1, MailboxBounds
<1>5. v6' = [v6 EXCEPT !.messages = m]  BY <1>2
<1> HIDE DEF m
<1>6. v6' \in LockLoadings /\ v6'.lists = v6.lists  BY <1>1, <1>4, <1>5 DEF LockLoadings
<1>7. v4' \in LockDialogs  BY <1>2 DEF LockDialogs, Mailbox!Dialogs
<1>8. v8' \in BOOLEAN /\ (~v8' => v2[c].n = v1[c].n)  BY <1>2, Zenon
<1>9. MailboxTyped'  BY <1>2, <1>3, <1>6, <1>7, <1>8 DEF MailboxInv, MailboxTyped
<1>10. WasServers(v2[c], v1, v2, v6, v5)  BY DEF WasServers
<1>11. FewerServed(v6')  BY <1>6 DEF FewerServed
<1>12. MailboxMoves
  <2>1. \A x \in Mailbox!Settings : WasServers(x, v1, v2', v6', v5') => WasServers(x, v1, v2, v6, v5)
    BY <1>2, <1>11, FewerKept
  <2>2. ComesFrom(v3'.page, v3'.conv) /\ ComesFrom(v3'.core, v3'.conv)  BY <1>3, <1>10 DEF ComesFrom
  <2>3. v3'.conv # None  BY <1>3, MailboxBounds
  <2> QED  BY <1>2, <1>3, <2>1, <2>2, <2>3 DEF MailboxMoves
<1>13. v2[c].n = v1[c].n => v2[c] = v1[c]
  BY <1>1, <1>10 DEF MailboxInv, MailboxKnown, KeptKnown
<1>14. LockFollows(v1, v3', v5', v8')  BY <1>3, <1>8, <1>13 DEF LockFollows
<1>15. v3'.conv # None  BY <1>3, MailboxBounds
<1> QED  BY <1>9, <1>12, <1>14, <1>15, MovesKeep

LEMMA ListsKeep ==
  ASSUME MailboxInv, NEW l \in Mailbox!Loads, Mailbox!ListServed(l) \/ Mailbox!ListReplied(l)
  PROVE  MailboxInv'
<1>1. /\ v1 \in [Convs -> Mailbox!Settings] /\ v2 \in [Convs -> Mailbox!Settings] /\ v6 \in LockLoadings
      /\ v3 \in LockOpens /\ v6.lists[l] \in LockLists /\ v6.lists[l].is \in [Convs -> Mailbox!Settings]
  BY DEF MailboxInv, MailboxTyped, LockLoadings, LockLists
<1>2. (v3.one => v3.page = v3.core) /\ (v3.conv = None => v3.one) /\ (v7 => v3.conv # None)
  BY DEF MailboxInv, MailboxKnown, OpenKnown
<1>3. CASE Mailbox!ListServed(l)
  <2> DEFINE r == [at |-> "served", is |-> v1]
  <2>1. r \in LockLists /\ r.at = "served" /\ r.is = v1  BY <1>1 DEF LockLists
  <2>2. UNCHANGED <<v1, v2, v3, v4, v5, v7, v8>> /\ v6' = [v6 EXCEPT !.lists[l] = r]  BY <1>3 DEF Mailbox!ListServed
  <2> HIDE DEF r
  <2>3. v6' \in LockLoadings /\ v6'.lists[l] = r /\ \A k \in Mailbox!Loads \ {l} : v6'.lists[k] = v6.lists[k]
    BY <1>1, <2>1, <2>2, OneListSet
  <2>4. MailboxTyped'  BY <2>2, <2>3 DEF MailboxInv, MailboxTyped
  <2>5. \A x \in Mailbox!Settings : WasServers(x, v1, v2', v6', v5') => WasServers(x, v1, v2, v6, v5)
    BY <2>1, <2>2, <2>3 DEF WasServers
  <2>6. MailboxMoves  BY <1>2, <2>2, <2>5 DEF MailboxMoves, ComesFrom
  <2>7. LockFollows(v1, v3', v5', v8')  BY <2>2 DEF MailboxInv, LockFollows
  <2> QED  BY <1>2, <2>2, <2>4, <2>6, <2>7, MovesKeep
<1>4. CASE Mailbox!ListReplied(l)
  <2> DEFINE is == v6.lists[l].is
  <2>1. /\ v6.lists[l].at = "served" /\ v2' = is /\ v6' = [v6 EXCEPT !.lists[l] = Mailbox!NoList]
        /\ UNCHANGED <<v1, v4, v5, v7>>
    BY <1>4 DEF Mailbox!ListReplied
  <2>2. /\ v6' \in LockLoadings /\ v6'.lists[l] = Mailbox!NoList
        /\ \A k \in Mailbox!Loads \ {l} : v6'.lists[k] = v6.lists[k]
    BY <1>1, <2>1, OneListSet, MailboxBounds
  <2>3. \A c \in Convs : WasServers(is[c], v1, v2, v6, v5)  BY <2>1 DEF WasServers
  <2>4. \A x \in Mailbox!Settings : WasServers(x, v1, v2', v6', v5') => WasServers(x, v1, v2, v6, v5)
    BY <2>1, <2>2, <2>3, MailboxBounds DEF WasServers
  <2>5. is \in [Convs -> Mailbox!Settings]  BY <1>1
  <2> HIDE DEF is
  <2>6. CASE v3.conv = None
    <3>1. v3' = v3 /\ v8' = v8  BY <1>4, <2>6 DEF Mailbox!ListReplied
    <3>2. MailboxTyped'  BY <2>1, <2>2, <2>5, <3>1 DEF MailboxInv, MailboxTyped
    <3>3. MailboxMoves  BY <1>2, <2>1, <2>4, <2>6, <3>1 DEF MailboxMoves
    <3>4. LockFollows(v1, v3', v5', v8')  BY <2>6, <3>1 DEF LockFollows
    <3> QED  BY <1>2, <2>1, <3>1, <3>2, <3>3, <3>4, MovesKeep
  <2>7. CASE v3.conv # None
    <3> DEFINE c == v3.conv
               x == is[c]
    <3>1. c \in Convs /\ x \in Mailbox!Settings  BY <1>1, <2>5, <2>7 DEF LockOpens
    <3>2. v3' = [v3 EXCEPT !.core = x, !.one = FALSE] /\ v8' = (x.n # v1[c].n)
      BY <1>4, <2>1, <2>7 DEF Mailbox!ListReplied
    <3>3. WasServers(x, v1, v2, v6, v5)  BY <2>3, <3>1
    <3>4. x.n = v1[c].n => x = v1[c]  BY <3>1, <3>3 DEF MailboxInv, MailboxKnown, KeptKnown
    <3> HIDE DEF x
    <3>5. v3' \in LockOpens /\ v3'.core = x /\ ~v3'.one /\ v3'.page = v3.page /\ v3'.conv = c
      BY <1>1, <3>1, <3>2 DEF LockOpens
    <3>6. v8' \in BOOLEAN /\ (~v8' => x.n = v1[c].n)  BY <3>2, Zenon
    <3>7. MailboxTyped'  BY <2>1, <2>2, <2>5, <3>5, <3>6 DEF MailboxInv, MailboxTyped
    <3>8. ComesFrom(v3'.page, v3'.conv) /\ ComesFrom(v3'.core, v3'.conv)  BY <3>3, <3>5 DEF ComesFrom
    <3>9. MailboxMoves  BY <2>1, <2>4, <2>7, <3>5, <3>8 DEF MailboxMoves
    <3>10. LockFollows(v1, v3', v5', v8')  BY <3>4, <3>5, <3>6 DEF LockFollows
    <3> QED  BY <2>7, <3>5, <3>7, <3>9, <3>10, MovesKeep
  <2> QED  BY <2>6, <2>7
<1> QED  BY <1>3, <1>4

\* The answer of a list of messages, and of an action on the conversation.
LEMMA MessagesRepliedKeeps == ASSUME MailboxInv, Mailbox!MessagesReplied PROVE MailboxInv'
<1>1. /\ v1 \in [Convs -> Mailbox!Settings] /\ v3 \in LockOpens /\ v6 \in LockLoadings /\ v8 \in BOOLEAN
      /\ v3.page \in Mailbox!Settings /\ v6.messages \in 0 .. LockLoads
      /\ v3.conv \in Convs \cup {None}
  BY DEF MailboxInv, MailboxTyped, LockLoadings, LockOpens
<1>2. (v3.one => v3.page = v3.core) /\ (v3.conv = None => v3.one) /\ (v7 => v3.conv # None)
  BY DEF MailboxInv, MailboxKnown, OpenKnown
<1> DEFINE m == v6.messages - 1
           p == v3.page
           b == v3.page.n # v1[v3.conv].n
<1>3. /\ v6.messages > 0 /\ v6' = [v6 EXCEPT !.messages = m] /\ v3' = [v3 EXCEPT !.core = p, !.one = TRUE]
      /\ v8' = (IF v3.one THEN v8 ELSE b) /\ UNCHANGED <<v1, v2, v4, v5, v7>>
  BY DEF Mailbox!MessagesReplied
<1>4. m \in 0 .. LockLoads  BY <1>1, <1>3, MailboxBounds
<1>5. b \in BOOLEAN /\ (~b => p.n = v1[v3.conv].n)  BY Zenon
<1>6. p \in Mailbox!Settings /\ p = v3.page  BY <1>1
<1> HIDE DEF m, p, b
<1>7. v6' \in LockLoadings /\ v6'.lists = v6.lists  BY <1>1, <1>3, <1>4 DEF LockLoadings
<1>8. v3' \in LockOpens /\ v3'.core = p /\ v3'.page = p /\ v3'.one /\ v3'.conv = v3.conv
  BY <1>1, <1>3, <1>6 DEF LockOpens
<1>9. v8' \in BOOLEAN /\ (v3.one => v8' = v8) /\ (~v3.one => v8' = b)  BY <1>1, <1>3, <1>5
<1>10. MailboxTyped'  BY <1>3, <1>7, <1>8, <1>9 DEF MailboxInv, MailboxTyped
<1>11. FewerServed(v6')  BY <1>7 DEF FewerServed
<1>12. \A x \in Mailbox!Settings : WasServers(x, v1, v2', v6', v5') => WasServers(x, v1, v2, v6, v5)
  BY <1>3, <1>11, FewerKept
<1>13. MailboxMoves  BY <1>2, <1>3, <1>6, <1>8, <1>12 DEF MailboxMoves, ComesFrom
<1>14. v3.conv # None /\ p.n = v1[v3.conv].n => p = v1[v3.conv]
  BY <1>6 DEF MailboxInv, MailboxKnown, OpenKnown
<1>15. LockFollows(v1, v3', v5', v8')
  <2>1. CASE v3.one
    <3>1. p = v3.core /\ v8' = v8 /\ v3'.conv = v3.conv /\ v3'.core = p /\ v5' = v5
      BY <1>2, <1>3, <1>6, <1>8, <1>9, <2>1
    <3> QED  BY <3>1 DEF MailboxInv, LockFollows
  <2>2. CASE ~v3.one  BY <1>5, <1>8, <1>9, <1>14, <2>2 DEF LockFollows
  <2> QED  BY <2>1, <2>2
<1> QED  BY <1>2, <1>3, <1>8, <1>10, <1>13, <1>15, MovesKeep

LEMMA ConversationActionKeeps == ASSUME MailboxInv, Mailbox!ConversationActionDone PROVE MailboxInv'
<1>1. /\ v1 \in [Convs -> Mailbox!Settings] /\ v4 \in LockDialogs /\ MailboxTyped
  BY DEF MailboxInv, MailboxTyped
<1>2. /\ v2' = v1 /\ v1' = v1 /\ v3' = [conv |-> None, page |-> Mailbox!Nothing, core |-> Mailbox!Nothing, one |-> TRUE]
      /\ v4' = {} /\ v5' = [o \in Mailbox!Ops |-> Mailbox!NoOp] /\ v7' = FALSE /\ v8' = FALSE
      /\ v6' = [lists |-> [l \in Mailbox!Loads |-> Mailbox!NoList], messages |-> 0, due |-> FALSE]
  BY DEF Mailbox!ConversationActionDone
<1>3. v4' \in LockDialogs  BY <1>2 DEF LockDialogs
<1>4. v3' \in LockOpens /\ v3'.conv = None /\ v3'.one /\ v3'.page = v3'.core  BY <1>2, MailboxBounds DEF LockOpens
<1>5. v5' \in [Mailbox!Ops -> LockAsks] /\ \A o \in Mailbox!Ops : v5'[o].at = "none"  BY <1>2, MailboxBounds
<1>6. v6' \in LockLoadings /\ \A l \in Mailbox!Loads : v6'.lists[l].at = "none"
  <2> DEFINE f == [l \in Mailbox!Loads |-> Mailbox!NoList]
  <2>1. f \in [Mailbox!Loads -> LockLists] /\ \A l \in Mailbox!Loads : f[l].at = "none"  BY MailboxBounds
  <2>2. 0 \in 0 .. LockLoads  BY MailboxBounds
  <2> HIDE DEF f
  <2>3. v6' = [lists |-> f, messages |-> 0, due |-> FALSE]  BY <1>2 DEF f
  <2> QED  BY <2>1, <2>2, <2>3 DEF LockLoadings
<1>7. MailboxTyped'  BY <1>1, <1>2, <1>3, <1>4, <1>5, <1>6 DEF MailboxTyped
<1>8. "save" \in Mailbox!Ops /\ Mailbox!Locks \subseteq Mailbox!Ops  BY DEF Mailbox!Ops
<1>9. MailboxMoves  BY <1>2, <1>4, <1>5, <1>6, <1>8 DEF MailboxMoves, WasServers
<1>10. LockFollows(v1, v3', v5', v8')  BY <1>4 DEF LockFollows
<1> QED  BY <1>2, <1>7, <1>9, <1>10, MovesKeep

\* One request changes.
LEMMA OneAskSet ==
  ASSUME MailboxTyped, NEW o \in Mailbox!Ops, NEW r \in LockAsks, v5' = [v5 EXCEPT ![o] = r]
  PROVE  v5' \in [Mailbox!Ops -> LockAsks] /\ v5'[o] = r /\ \A p \in Mailbox!Ops \ {o} : v5'[p] = v5[p]
BY DEF MailboxTyped

\* A request is made, or given up: nothing is known by it.
LEMMA LockAskKeeps ==
  ASSUME MailboxInv, NEW o \in Mailbox!Ops, NEW r \in LockAsks, v5' = [v5 EXCEPT ![o] = r],
         r.at # "served", r.at # "none" => r.conv \in Convs, UNCHANGED <<v1, v2, v3, v4>>, FewerServed(v6'),
         v7' \in BOOLEAN, v7' => v3.conv # None, v8' \in BOOLEAN,
         v8' = v8 \/ v8' = TRUE, ~v8' => v5[o].at # "served"
  PROVE  MailboxInv'
<1>1. v5' \in [Mailbox!Ops -> LockAsks] /\ v5'[o] = r /\ \A p \in Mailbox!Ops \ {o} : v5'[p] = v5[p]
  BY OneAskSet DEF MailboxInv
<1>2. MailboxTyped'  BY <1>1 DEF MailboxInv, MailboxTyped, FewerServed
<1>3. (v3.one => v3.page = v3.core) /\ (v3.conv = None => v3.one)
  BY DEF MailboxInv, MailboxKnown, OpenKnown
<1>4. \A p \in Mailbox!Ops : v5'[p].at = "served" => v5'[p] = v5[p]  BY <1>1
<1>6. \A x \in Mailbox!Settings : WasServers(x, v1, v2', v6', v5') => WasServers(x, v1, v2, v6, v5)
  BY <1>4, FewerKept
<1>7. MailboxMoves  BY <1>1, <1>3, <1>6 DEF MailboxMoves, ComesFrom
<1>8. LockFollows(v1, v3', v5', v8')  BY <1>1 DEF MailboxInv, LockFollows
<1> QED  BY <1>2, <1>3, <1>7, <1>8, MovesKeep

LEMMA LockAsksKeep ==
  ASSUME MailboxInv, NEW o \in Mailbox!Ops, NEW is \in Mailbox!Settings, NEW quiet \in BOOLEAN,
         Mailbox!Asks(o, is, quiet), FewerServed(v6'), v7' \in BOOLEAN, v7' => v3.conv # None
  PROVE  MailboxInv'
<1>1. v3 \in LockOpens /\ v8 \in BOOLEAN  BY DEF MailboxInv, MailboxTyped
<1> DEFINE r == [at |-> "asked", conv |-> v3.conv, is |-> is, over |-> 0, quiet |-> quiet]
<1>2. v5[o] = Mailbox!NoOp /\ v3.conv # None /\ v5' = [v5 EXCEPT ![o] = r] /\ UNCHANGED <<v1, v2, v3, v4, v8>>
  BY DEF Mailbox!Asks
<1>3. v3.conv \in Convs  BY <1>1, <1>2 DEF LockOpens
<1>4. r \in LockAsks /\ r.at = "asked" /\ r.conv \in Convs  BY <1>3, MailboxBounds DEF LockAsks
<1>5. v5[o].at # "served"  BY <1>2, MailboxBounds
<1> HIDE DEF r
<1> QED  BY <1>1, <1>2, <1>4, <1>5, LockAskKeeps

LEMMA LockQuietKeeps ==
  ASSUME MailboxInv, Mailbox!LocksQuietly, FewerServed(v6'), v7' = FALSE PROVE MailboxInv'
<1>1. PICK o \in Mailbox!Ops : Mailbox!Asks(o, Mailbox!Nothing, TRUE)  BY DEF Mailbox!LocksQuietly, Mailbox!Ops
<1>2. Mailbox!Nothing \in Mailbox!Settings /\ TRUE \in BOOLEAN  BY MailboxBounds
<1> QED  BY <1>1, <1>2, LockAsksKeep

\* The buttons, the page that is hidden and the page that is left.
LEMMA LockClicksKeep ==
  ASSUME MailboxInv, \/ Mailbox!SaveClicked \/ Mailbox!UnlockSubmitted \/ Mailbox!LockClicked
                     \/ Mailbox!AutoLockDue \/ Mailbox!PageHides
  PROVE  MailboxInv'
<1>1. v3 \in LockOpens /\ v3.core \in Mailbox!Settings /\ v6 \in LockLoadings /\ v7 \in BOOLEAN /\ (v7 => v3.conv # None)
  BY DEF MailboxInv, MailboxTyped, LockOpens
<1>2. FewerServed(v6)  BY <1>1 DEF FewerServed
<1>3. ASSUME NEW o \in Mailbox!Ops, NEW is \in Mailbox!Settings, Mailbox!Asks(o, is, FALSE), UNCHANGED <<v6, v7>>
      PROVE  MailboxInv'
  BY <1>1, <1>2, <1>3, LockAsksKeep
<1>4. CASE Mailbox!SaveClicked
  <2>1. PICK box \in BOOLEAN : Mailbox!Asks("save", [Mailbox!Nothing EXCEPT !.lock = box], FALSE)
    BY <1>4 DEF Mailbox!SaveClicked
  <2>2. [Mailbox!Nothing EXCEPT !.lock = box] \in Mailbox!Settings
    BY MailboxBounds DEF Mailbox!Nothing, Mailbox!Settings, LockNumbers
  <2> QED  BY <1>3, <1>4, <2>1, <2>2 DEF Mailbox!SaveClicked, Mailbox!Ops
<1>5. CASE Mailbox!UnlockSubmitted  BY <1>3, <1>5, MailboxBounds DEF Mailbox!UnlockSubmitted, Mailbox!Ops
<1>6. CASE Mailbox!LockClicked
  <2> DEFINE is == [v3.core EXCEPT !.n = 0]
  <2>1. is \in Mailbox!Settings  BY <1>1, MailboxBounds DEF Mailbox!Settings, LockNumbers
  <2>2. PICK o \in Mailbox!Locks : Mailbox!Asks(o, is, FALSE)  BY <1>6 DEF Mailbox!LockClicked
  <2> HIDE DEF is
  <2> QED  BY <1>3, <1>6, <2>1, <2>2 DEF Mailbox!LockClicked, Mailbox!Ops
<1>7. CASE Mailbox!AutoLockDue  BY <1>2, <1>7, LockQuietKeeps DEF Mailbox!AutoLockDue
<1>8. CASE Mailbox!PageHides
  <2>1. v6' = [v6 EXCEPT !.due = FALSE] /\ v7' = FALSE  BY <1>8 DEF Mailbox!PageHides
  <2>2. v6' \in LockLoadings /\ v6'.lists = v6.lists  BY <1>1, <2>1 DEF LockLoadings
  <2>3. FewerServed(v6')  BY <2>2 DEF FewerServed
  <2>4. CASE Mailbox!LocksQuietly  BY <2>1, <2>3, <2>4, LockQuietKeeps
  <2>5. CASE UNCHANGED <<v1, v2, v3, v4, v5, v8>>
    <3>1. v4' \in LockDialogs /\ v7' \in BOOLEAN /\ ~v7'  BY <2>1, <2>5 DEF MailboxInv, MailboxTyped
    <3> QED  BY <2>3, <2>5, <3>1, DialogStepKeeps
  <2> QED  BY <1>8, <2>4, <2>5 DEF Mailbox!PageHides
<1> QED  BY <1>4, <1>5, <1>6, <1>7, <1>8

LEMMA OpFailedKeeps == ASSUME MailboxInv, NEW o \in Mailbox!Ops, Mailbox!OpFailed(o) PROVE MailboxInv'
<1> DEFINE r == Mailbox!NoOp
<1>1. r \in LockAsks /\ r.at = "none"  BY MailboxBounds
<1>2. /\ v5' = [v5 EXCEPT ![o] = r] /\ UNCHANGED <<v1, v2, v3, v4, v6, v7>>
      /\ v8' = (v8 \/ v5[o].at = "served")
  BY DEF Mailbox!OpFailed
<1> HIDE DEF r
<1>3. v8 \in BOOLEAN  BY DEF MailboxInv, MailboxTyped
<1>4. v8' \in BOOLEAN /\ (v8' = v8 \/ v8' = TRUE) /\ (~v8' => v5[o].at # "served")  BY <1>2, <1>3
<1>5. FewerServed(v6') /\ v7' \in BOOLEAN /\ (v7' => v3.conv # None)
  BY <1>2 DEF MailboxInv, MailboxTyped, FewerServed
<1> QED  BY <1>1, <1>2, <1>4, <1>5, LockAskKeeps

\* The server's next change has the next number.
LEMMA ChangedIs ==
  ASSUME NEW t, LastChange(t, v1), v1 \in [Convs -> Mailbox!Settings], NEW c \in Convs, NEW lock \in BOOLEAN,
         NEW locked \in BOOLEAN, Mailbox!Changed(c, lock, locked)
  PROVE  /\ t + 1 \in LockNumbers /\ LastChange(t + 1, v1') /\ v1' \in [Convs -> Mailbox!Settings]
         /\ v1'[c] = [lock |-> lock, locked |-> locked, n |-> t + 1] /\ \A d \in Convs \ {c} : v1'[d] = v1[d]
         /\ t \in Nat
<1>0. LockChanges \in Nat /\ t \in 0 .. LockChanges  BY MailboxBounds DEF LastChange, LockNumbers
<1>1. \A d \in Convs : v1[d].n \in 0 .. LockChanges  BY DEF Mailbox!Settings
<1>2. {m \in 1 .. LockChanges : \E d \in Convs : v1[d].n >= m} = 1 .. t
  <2>1. ASSUME NEW m \in 1 .. LockChanges, \E d \in Convs : v1[d].n >= m PROVE m <= t
    BY <1>0, <1>1, <2>1 DEF LastChange
  <2>2. ASSUME NEW m \in 1 .. t PROVE m \in 1 .. LockChanges /\ \E d \in Convs : v1[d].n >= m
    BY <1>0, <2>2 DEF LastChange
  <2> QED  BY <1>0, <2>1, <2>2
<1>3. IsFiniteSet(1 .. t) /\ Cardinality(1 .. t) = t  BY <1>0, FS_Interval
<1>4. Mailbox!Cardinality(1 .. t) = Cardinality(1 .. t)  BY <1>3 DEF Mailbox!Cardinality, Cardinality
<1> DEFINE n == t + 1
           r == [lock |-> lock, locked |-> locked, n |-> n]
<1>5. n \in 1 .. LockChanges /\ v1' = [v1 EXCEPT ![c] = r]
  <2>1. PICK k \in 1 .. LockChanges :
          /\ k = 1 + Mailbox!Cardinality({m \in 1 .. LockChanges : \E d \in Convs : v1[d].n >= m})
          /\ v1' = [v1 EXCEPT ![c] = [lock |-> lock, locked |-> locked, n |-> k]]
    BY DEF Mailbox!Changed
  <2>2. k = 1 + t  BY <1>2, <1>3, <1>4, <2>1
  <2>3. k = n  BY <1>0, <2>2
  <2> QED  BY <2>1, <2>3
<1>6. n \in LockNumbers /\ t < n /\ t \in Nat  BY <1>0, <1>5 DEF LockNumbers
<1> HIDE DEF n
<1>7. r \in Mailbox!Settings /\ r.n = n  BY <1>6 DEF Mailbox!Settings, LockNumbers
<1> HIDE DEF r
<1>8. v1' \in [Convs -> Mailbox!Settings] /\ v1'[c] = r /\ \A d \in Convs \ {c} : v1'[d] = v1[d]  BY <1>5, <1>7
<1>9. LastChange(n, v1')  BY <1>1, <1>6, <1>7, <1>8 DEF LastChange, LockNumbers
<1> QED  BY <1>6, <1>8, <1>9 DEF r, n

\* The answer a request for c gets: the change it made, t + 1, which is the server's now.
AnswerOf(o, r, c) ==
  /\ r.at = "served" /\ r.conv = c /\ r.is.n = v1'[c].n /\ r.over < r.is.n
  /\ o = "save" => r.is = v1'[c]
  /\ o \in Mailbox!Locks => v1'[c].lock /\ v1'[c].locked
  /\ o = "unlock" => r.over = v1[c].n /\ ~v1'[c].locked /\ v1'[c].lock = v1[c].lock

LEMMA ChangeKeeps ==
  ASSUME MailboxInv, MailboxTyped', NEW c \in Convs, NEW lock \in BOOLEAN, NEW locked \in BOOLEAN,
         Mailbox!Changed(c, lock, locked), UNCHANGED <<v2, v3, v6>>, v7' => v3.conv # None,
         LockFollows(v1', v3', v5', v8'),
         \A o \in Mailbox!Ops : v5'[o] = v5[o] \/ v5'[o].at = "none" \/ AnswerOf(o, v5'[o], c)
  PROVE  MailboxInv'
<1>1. PICK t \in LockNumbers : MailboxKnown(t)  BY DEF MailboxInv
<1> DEFINE n == t + 1
           r == v1'[c]
<1>2. /\ n \in LockNumbers /\ LastChange(n, v1') /\ r = [lock |-> lock, locked |-> locked, n |-> n]
      /\ \A d \in Convs \ {c} : v1'[d] = v1[d]
      /\ t \in Nat
  BY <1>1, ChangedIs DEF MailboxKnown, MailboxInv, MailboxTyped
<1>3. t < n /\ n \in Nat /\ r.n = n /\ t \in Nat /\ LastChange(t, v1)  BY <1>1, <1>2 DEF MailboxKnown
<1>4. \A d \in Convs : v1[d] \in Mailbox!Settings /\ v1'[d] \in Mailbox!Settings /\ v1[d].n \in Nat /\ v1'[d].n \in Nat
                       /\ v1[d].n <= t
  BY <1>3 DEF MailboxInv, MailboxTyped, Mailbox!Settings, LastChange
<1> HIDE DEF n
<1>5. /\ v5 \in [Mailbox!Ops -> LockAsks] /\ v5' \in [Mailbox!Ops -> LockAsks]
      /\ "save" \in Mailbox!Ops /\ Mailbox!Locks \subseteq Mailbox!Ops /\ "unlock" \in Mailbox!Ops
      /\ \A o \in Mailbox!Ops : v5[o].is \in Mailbox!Settings /\ v5[o].is.n \in Nat /\ v5[o].over \in Nat
                                /\ v5'[o].is \in Mailbox!Settings /\ v5'[o].is.n \in Nat /\ v5'[o].over \in Nat
  BY MailboxBounds DEF MailboxInv, MailboxTyped, Mailbox!Ops, LockAsks, Mailbox!Settings, LockNumbers
<1>6. \A x \in Mailbox!Settings : WasServers(x, v1', v2', v6', v5') => x = r \/ WasServers(x, v1, v2, v6, v5)
  <2>1. SUFFICES ASSUME NEW x \in Mailbox!Settings, WasServers(x, v1', v2', v6', v5')
                 PROVE  x = r \/ WasServers(x, v1, v2, v6, v5)
    OBVIOUS
  <2>2. CASE \E d \in Convs : x = v1'[d] \/ x = v2[d]  BY <1>2, <2>2 DEF WasServers
  <2>3. CASE \E l \in Mailbox!Loads : v6.lists[l].at = "served" /\ \E d \in Convs : x = v6.lists[l].is[d]
    BY <2>3 DEF WasServers
  <2>4. CASE v5'["save"].at = "served" /\ x = v5'["save"].is  BY <1>5, <2>4 DEF WasServers, AnswerOf
  <2>5. ASSUME NEW o \in Mailbox!Locks, v5'[o].at = "served", x = [lock |-> TRUE, locked |-> TRUE, n |-> v5'[o].is.n]
        PROVE  x = r \/ WasServers(x, v1, v2, v6, v5)
    <3>1. CASE v5'[o] = v5[o]  BY <2>5, <3>1 DEF WasServers
    <3>2. CASE AnswerOf(o, v5'[o], c)
      <4>1. lock = TRUE /\ locked = TRUE /\ v5'[o].is.n = n  BY <1>2, <1>3, <2>5, <3>2 DEF AnswerOf
      <4> QED  BY <1>2, <2>5, <4>1
    <3> QED  BY <1>5, <2>5, <3>1, <3>2
  <2> QED  BY <2>1, <2>2, <2>3, <2>4, <2>5 DEF WasServers
<1> HIDE DEF r
<1>7. v1'[c] = r /\ r.n = n  BY <1>3 DEF r
<1>8. KeptKnown(n, v1', v2', v6', v5')
  <2>1. SUFFICES ASSUME NEW x \in Mailbox!Settings, WasServers(x, v1', v2', v6', v5')
                 PROVE  x.n <= n /\ \A d \in Convs : x.n = v1'[d].n => x = v1'[d]
    BY DEF KeptKnown
  <2>2. CASE x = r
    <3>1. x.n <= n  BY <1>3, <1>7, <2>2
    <3>2. ASSUME NEW d \in Convs, x.n = v1'[d].n PROVE x = v1'[d]  BY <1>2, <1>3, <1>4, <1>7, <2>2, <3>2
    <3> QED  BY <3>1, <3>2
  <2>3. CASE WasServers(x, v1, v2, v6, v5)
    <3>1. x.n <= t /\ x.n \in Nat /\ \A d \in Convs : x.n = v1[d].n => x = v1[d]
      BY <1>1, <2>3 DEF MailboxKnown, KeptKnown, Mailbox!Settings
    <3> QED  BY <1>2, <1>3, <1>7, <3>1
  <2> QED  BY <1>6, <2>1, <2>2, <2>3
<1>9. OpenKnown(n, v1', v3')
  <2>1. ASSUME v3.conv # None, NEW x \in {v3.page, v3.core}
        PROVE  x.n <= n /\ (x.n = v1'[v3.conv].n => x = v1'[v3.conv])
    <3>1. x.n <= t /\ (x.n = v1[v3.conv].n => x = v1[v3.conv])
      BY <1>1, <2>1 DEF MailboxKnown, OpenKnown
    <3>2. x.n \in Nat /\ v3.conv \in Convs
      BY <2>1 DEF MailboxInv, MailboxTyped, LockOpens, Mailbox!Settings
    <3> QED  BY <1>2, <1>3, <1>7, <3>1, <3>2
  <2>2. (v3.one => v3.page = v3.core) /\ (v3.conv = None => v3.one)  BY <1>1 DEF MailboxKnown, OpenKnown
  <2> QED  BY <2>1, <2>2 DEF OpenKnown
<1>10. \A o \in Mailbox!Ops : v5[o].at = "served" => v5[o].is.n <= t /\ v5[o].over < v5[o].is.n /\ v5[o].conv \in Convs
                               /\ v5[o].is.n <= v1[v5[o].conv].n
                               /\ \A d \in Convs : v5[o].is.n = v1[d].n => d = v5[o].conv
  BY <1>1, <1>3, <1>4, <1>5 DEF MailboxKnown, AnswersKnown
<1>11. AnswersKnown(v1', v5')
  <2>1. SUFFICES ASSUME NEW o \in Mailbox!Ops
                 PROVE  /\ v5'[o].at # "none" => v5'[o].conv \in Convs
                        /\ v5'[o].at = "served" =>
                             /\ v5'[o].over < v5'[o].is.n /\ v5'[o].is.n <= v1'[v5'[o].conv].n
                             /\ \A d \in Convs : v5'[o].is.n = v1'[d].n => d = v5'[o].conv
    BY DEF AnswersKnown
  <2>2. CASE v5'[o] = v5[o]
    <3>1. v5[o].at # "none" => v5[o].conv \in Convs  BY <1>1 DEF MailboxKnown, AnswersKnown
    <3>2. v5[o].at = "served" => v5[o].is.n <= v1'[v5[o].conv].n
      BY <1>2, <1>3, <1>5, <1>7, <1>10
    <3>3. v5[o].at = "served" => \A d \in Convs : v5[o].is.n = v1'[d].n => d = v5[o].conv
      BY <1>2, <1>3, <1>5, <1>7, <1>10
    <3> QED  BY <1>10, <2>2, <3>1, <3>2, <3>3
  <2>3. CASE AnswerOf(o, v5'[o], c)
    <3>1. v5'[o].conv = c /\ v5'[o].over < v5'[o].is.n /\ v5'[o].is.n = n  BY <1>7, <2>3 DEF AnswerOf
    <3>2. \A d \in Convs : v1'[d].n = n => d = c  BY <1>2, <1>3, <1>4
    <3> QED  BY <1>3, <1>7, <3>1, <3>2
  <2>4. CASE v5'[o].at = "none"  BY <2>4
  <2> QED  BY <2>2, <2>3, <2>4
<1>12. UnlockKnown(v1', v2', v6', v5', v3')
  <2> DEFINE u == v5'["unlock"]
  <2>1. SUFFICES ASSUME u.at = "served", u.is.n = v1'[u.conv].n
                 PROVE  /\ ~v1'[u.conv].locked
                        /\ \A x \in Mailbox!Settings :
                             /\ WasServers(x, v1', v2', v6', v5') \/ (v3.conv = u.conv /\ x \in {v3.page, v3.core})
                             /\ x.n = u.over
                             => x.lock = v1'[u.conv].lock
    BY DEF UnlockKnown
  <2>2. CASE u = v5["unlock"]
    <3>1. u.is.n <= t /\ u.over < u.is.n /\ u.conv \in Convs /\ u.is.n \in Nat /\ u.over \in Nat
      BY <1>5, <1>10, <2>1, <2>2
    <3>2. u.conv # c  BY <1>3, <1>7, <2>1, <3>1
    <3>3. v1'[u.conv] = v1[u.conv]  BY <1>2, <3>1, <3>2
    <3>4. /\ ~v1[u.conv].locked
          /\ \A x \in Mailbox!Settings :
               /\ WasServers(x, v1, v2, v6, v5) \/ (v3.conv = u.conv /\ x \in {v3.page, v3.core})
               /\ x.n = u.over
               => x.lock = v1[u.conv].lock
      BY <1>1, <2>1, <2>2, <3>3 DEF MailboxKnown, UnlockKnown
    <3>5. u.over # n  BY <1>3, <3>1
    <3> HIDE DEF u
    <3>6. \A x \in Mailbox!Settings : x.n = u.over => x # r  BY <1>7, <3>5
    <3> QED  BY <1>6, <3>3, <3>4, <3>6
  <2>3. CASE AnswerOf("unlock", u, c)
    <3>1. u.conv = c /\ u.over = v1[c].n /\ ~r.locked /\ r.lock = v1[c].lock  BY <1>7, <2>3 DEF AnswerOf
    <3> HIDE DEF u
    <3>2. ASSUME NEW x \in Mailbox!Settings, x.n = u.over,
                 WasServers(x, v1', v2', v6', v5') \/ (v3.conv = u.conv /\ x \in {v3.page, v3.core})
          PROVE  x = v1[c]
      <4>1. x # r  BY <1>3, <1>4, <1>7, <3>1, <3>2
      <4>2. CASE WasServers(x, v1', v2', v6', v5')
        <5>1. WasServers(x, v1, v2, v6, v5)  BY <1>6, <3>2, <4>1, <4>2
        <5> QED  BY <1>1, <3>1, <3>2, <5>1 DEF MailboxKnown, KeptKnown
      <4>3. CASE v3.conv = u.conv /\ x \in {v3.page, v3.core}
        <5>1. v3.conv # None  BY <3>1, <4>3, MailboxBounds
        <5> QED  BY <1>1, <3>1, <3>2, <4>3, <5>1 DEF MailboxKnown, OpenKnown
      <4> QED  BY <3>2, <4>2, <4>3
    <3> QED  BY <1>7, <3>1, <3>2
  <2> QED  BY <1>5, <2>1, <2>2, <2>3
<1>13. v3'.conv = v3.conv  OBVIOUS
<1> QED  BY <1>2, <1>8, <1>9, <1>11, <1>12, <1>13 DEF MailboxInv, MailboxKnown

LEMMA OpServedKeeps == ASSUME MailboxInv, NEW o \in Mailbox!Ops, Mailbox!OpServed(o) PROVE MailboxInv'
<1> DEFINE c == v5[o].conv
<1>1. /\ v1 \in [Convs -> Mailbox!Settings] /\ v5 \in [Mailbox!Ops -> LockAsks] /\ v5[o] \in LockAsks
      /\ v5[o].is \in Mailbox!Settings /\ (v7 => v3.conv # None)
  BY DEF MailboxInv, MailboxTyped, LockAsks
<1>2. c \in Convs  BY DEF MailboxInv, MailboxKnown, AnswersKnown, Mailbox!OpServed
<1>3. v1[c] \in Mailbox!Settings /\ v1[c].lock \in BOOLEAN /\ v1[c].n \in LockNumbers
      /\ v5[o].is.lock \in BOOLEAN /\ v1[c].locked \in BOOLEAN
  BY <1>1, <1>2 DEF Mailbox!Settings, LockNumbers
<1>4. PICK t \in LockNumbers : MailboxKnown(t)  BY DEF MailboxInv
<1>5. LastChange(t, v1) /\ v1[c].n <= t  BY <1>2, <1>4 DEF MailboxKnown, LastChange
<1> DEFINE keeps == v5[o].is.lock /\ v1[c].locked
<1>6. PICK lock \in BOOLEAN, locked \in BOOLEAN :
        /\ Mailbox!Changed(c, lock, locked)
        /\ o \in Mailbox!Locks => lock /\ locked
        /\ o = "unlock" => lock = v1[c].lock /\ ~locked
  <2>0. keeps \in BOOLEAN  BY <1>3
  <2>1. CASE o = "save" /\ Mailbox!Changed(c, v5[o].is.lock, keeps)
    <3> HIDE DEF keeps
    <3> QED  BY <1>3, <2>0, <2>1 DEF Mailbox!Locks
  <2>2. CASE o \in Mailbox!Locks /\ Mailbox!Changed(c, TRUE, TRUE)  BY <2>2 DEF Mailbox!Locks
  <2>3. CASE o = "unlock" /\ Mailbox!Changed(c, v1[c].lock, FALSE)  BY <1>3, <2>3 DEF Mailbox!Locks
  <2> QED  BY <2>1, <2>2, <2>3 DEF Mailbox!OpServed
<1> DEFINE n == t + 1
<1>7. /\ n \in LockNumbers /\ v1' \in [Convs -> Mailbox!Settings] /\ v1'[c] = [lock |-> lock, locked |-> locked, n |-> n]
      /\ t \in Nat
  BY <1>1, <1>2, <1>5, <1>6, ChangedIs
<1> HIDE DEF keeps
<1>8. v1'[c].n = n /\ v1'[c].lock = lock /\ v1'[c].locked = locked /\ v1'[c] \in Mailbox!Settings  BY <1>2, <1>7
<1>9. 0 < n /\ v1[c].n < n /\ 0 \in LockNumbers /\ n \in LockNumbers
  BY <1>3, <1>5, <1>7, MailboxBounds DEF LockNumbers
<1> HIDE DEF n
<1> DEFINE y == v1'[c]
           over == IF o = "unlock" THEN v1[c].n ELSE 0
           is == IF o = "save" THEN y ELSE [v5[o].is EXCEPT !.n = n]
           r == [v5[o] EXCEPT !.at = "served", !.over = over, !.is = is]
<1>10. over \in LockNumbers /\ over < n /\ (o = "unlock" => over = v1[c].n)  BY <1>3, <1>9
<1>11. is \in Mailbox!Settings /\ is.n = n /\ (o = "save" => is = y)
  BY <1>1, <1>8, <1>9 DEF Mailbox!Settings, LockNumbers
<1>12. UNCHANGED <<v2, v3, v4, v6, v7>> /\ IF v5[o].quiet THEN v5' = [v5 EXCEPT ![o] = Mailbox!NoOp] /\ v8' = (v8 \/ c = v3.conv)
                                                          ELSE v5' = [v5 EXCEPT ![o] = r] /\ v8' = v8
  BY <1>8 DEF Mailbox!OpServed
<1> HIDE DEF is, over
<1>13. r \in LockAsks /\ r.at = "served" /\ r.conv = c /\ r.is = is /\ r.over = over
  BY <1>1, <1>10, <1>11 DEF LockAsks
<1> HIDE DEF r, c
<1>14. CASE ~v5[o].quiet
  <2>1. v5' \in [Mailbox!Ops -> LockAsks] /\ v5'[o] = r /\ \A p \in Mailbox!Ops \ {o} : v5'[p] = v5[p]
    BY <1>12, <1>13, <1>14, OneAskSet DEF MailboxInv
  <2>2. MailboxTyped'  BY <1>7, <1>12, <1>14, <2>1 DEF MailboxInv, MailboxTyped
  <2>3. AnswerOf(o, v5'[o], c)
    BY <1>6, <1>8, <1>10, <1>11, <1>13, <2>1 DEF AnswerOf
  <2>4. LockFollows(v1', v3', v5', v8')  BY <1>13, <2>1 DEF LockFollows
  <2> QED  BY <1>1, <1>2, <1>6, <1>12, <2>1, <2>2, <2>3, <2>4, ChangeKeeps
<1>15. CASE v5[o].quiet
  <2> DEFINE z == Mailbox!NoOp
  <2>1. z \in LockAsks /\ z.at = "none" /\ v5' = [v5 EXCEPT ![o] = z] /\ v8' = (v8 \/ c = v3.conv)
    BY <1>12, <1>15, MailboxBounds
  <2> HIDE DEF z
  <2>2. v5' \in [Mailbox!Ops -> LockAsks] /\ v5'[o] = z /\ \A p \in Mailbox!Ops \ {o} : v5'[p] = v5[p]
    BY <2>1, OneAskSet DEF MailboxInv
  <2>3. v8' \in BOOLEAN /\ (~v8' => ~v8 /\ c # v3.conv)
    <3>1. v8 \in BOOLEAN  BY DEF MailboxInv, MailboxTyped
    <3> QED  BY <2>1, <3>1
  <2>4. MailboxTyped'  BY <1>7, <1>12, <2>2, <2>3 DEF MailboxInv, MailboxTyped
  <2>5. v5[o].at = "asked"  BY DEF Mailbox!OpServed
  <2>6. \A d \in Convs \ {c} : v1'[d] = v1[d]  BY <1>1, <1>2, <1>5, <1>6, ChangedIs
  <2>7. v3.conv # None => v3.conv \in Convs  BY DEF MailboxInv, MailboxTyped, LockOpens
  <2>8. LockFollows(v1', v3', v5', v8')
    BY <1>12, <2>2, <2>3, <2>5, <2>6, <2>7 DEF MailboxInv, LockFollows
  <2> QED  BY <1>1, <1>2, <1>6, <1>12, <2>1, <2>2, <2>4, <2>8, ChangeKeeps
<1> QED  BY <1>14, <1>15

\* An answer is taken: its request is over, and the conversation open by now gets settings.
LEMMA AnsweredIs ==
  ASSUME MailboxInv, NEW o \in Mailbox!Ops, Mailbox!Answered(o), FewerServed(v6')
  PROVE  /\ v5[o].at = "served" /\ v5' \in [Mailbox!Ops -> LockAsks] /\ v5'[o].at = "none"
         /\ \A p \in Mailbox!Ops \ {o} : v5'[p] = v5[p]
         /\ UNCHANGED <<v1, v2, v7>>
         /\ \A x \in Mailbox!Settings : WasServers(x, v1, v2', v6', v5') => WasServers(x, v1, v2, v6, v5)
         /\ v5[o].conv \in Convs /\ v5[o].is \in Mailbox!Settings
         /\ v5[o].over < v5[o].is.n /\ v5[o].is.n <= v1[v5[o].conv].n
         /\ \A c \in Convs : v5[o].is.n = v1[c].n => c = v5[o].conv
<1> DEFINE r == Mailbox!NoOp
<1>1. r \in LockAsks /\ r.at = "none"  BY MailboxBounds
<1>2. v5[o].at = "served" /\ v5' = [v5 EXCEPT ![o] = r] /\ UNCHANGED <<v1, v2, v7>>  BY DEF Mailbox!Answered
<1> HIDE DEF r
<1>3. v5' \in [Mailbox!Ops -> LockAsks] /\ v5'[o] = r /\ \A p \in Mailbox!Ops \ {o} : v5'[p] = v5[p]
  BY <1>1, <1>2, OneAskSet DEF MailboxInv
<1>4. \A p \in Mailbox!Ops : v5'[p].at = "served" => v5'[p] = v5[p]  BY <1>1, <1>3
<1>5. \A x \in Mailbox!Settings : WasServers(x, v1, v2', v6', v5') => WasServers(x, v1, v2, v6, v5)
  BY <1>2, <1>4, FewerKept
<1>6. v5[o].is \in Mailbox!Settings  BY DEF MailboxInv, MailboxTyped, LockAsks
<1> QED  BY <1>1, <1>2, <1>3, <1>5, <1>6 DEF MailboxInv, MailboxKnown, AnswersKnown

LEMMA AssignIs ==
  ASSUME MailboxInv, NEW x \in Mailbox!Settings, Mailbox!Assign(x)
  PROVE  /\ v3' \in LockOpens /\ v3'.conv = v3.conv /\ v3'.core = x /\ v3'.one = v3.one
         /\ v3'.page = (IF v3.one THEN x ELSE v3.page) /\ (v3'.one => v3'.page = v3'.core)
         /\ (v3.conv = None => v3.one)
<1> DEFINE p == IF v3.one THEN x ELSE v3.page
<1>1. v3 \in LockOpens /\ v3.page \in Mailbox!Settings  BY DEF MailboxInv, MailboxTyped, LockOpens
<1>2. p \in Mailbox!Settings /\ v3' = [v3 EXCEPT !.core = x, !.page = p]  BY <1>1 DEF Mailbox!Assign
<1>3. v3.conv = None => v3.one  BY DEF MailboxInv, MailboxKnown, OpenKnown
<1> HIDE DEF p
<1>4. v3' \in LockOpens /\ v3'.conv = v3.conv /\ v3'.core = x /\ v3'.one = v3.one /\ v3'.page = p
  BY <1>1, <1>2 DEF LockOpens
<1> QED  BY <1>3, <1>4 DEF p

LEMMA SettingsAre == \A x \in Mailbox!Settings : x = [lock |-> x.lock, locked |-> x.locked, n |-> x.n]
BY DEF Mailbox!Settings

\* The answer was the server's, whichever conversation is open by now.
LEMMA AnswerTaken ==
  ASSUME MailboxInv, NEW o \in Mailbox!Ops, Mailbox!Answered(o), FewerServed(v6'), v4' \in LockDialogs,
         NEW x \in Mailbox!Settings, WasServers(x, v1, v2, v6, v5), x.n = v5[o].is.n, Mailbox!Assign(x),
         v8' = Mailbox!Elsewhere(o)
  PROVE  MailboxInv'
<1>1. /\ v5' \in [Mailbox!Ops -> LockAsks] /\ v5'[o].at = "none" /\ \A p \in Mailbox!Ops \ {o} : v5'[p] = v5[p]
      /\ UNCHANGED <<v1, v2, v7>>
      /\ \A y \in Mailbox!Settings : WasServers(y, v1, v2', v6', v5') => WasServers(y, v1, v2, v6, v5)
  BY AnsweredIs
<1>2. /\ v3' \in LockOpens /\ v3'.conv = v3.conv /\ v3'.core = x /\ v3'.one = v3.one
      /\ v3'.page = (IF v3.one THEN x ELSE v3.page) /\ (v3'.one => v3'.page = v3'.core)
      /\ (v3.conv = None => v3.one)
  BY AssignIs
<1>3. v8' \in BOOLEAN /\ (~v8' => x.n = v1[v3.conv].n)  BY DEF Mailbox!Elsewhere
<1>4. MailboxTyped'  BY <1>1, <1>2, <1>3 DEF MailboxInv, MailboxTyped, FewerServed
<1>5. MailboxMoves  BY <1>1, <1>2 DEF MailboxMoves, ComesFrom
<1>6. v3 \in LockOpens /\ (v7 => v3.conv # None)  BY DEF MailboxInv, MailboxTyped
<1>7. LockFollows(v1, v3', v5', v8')
  <2>1. SUFFICES ASSUME ~v8', v3.conv # None PROVE x = v1[v3.conv]  BY <1>2 DEF LockFollows
  <2>2. v3.conv \in Convs  BY <1>6, <2>1 DEF LockOpens
  <2> QED  BY <1>3, <2>1, <2>2 DEF MailboxInv, MailboxKnown, KeptKnown
<1> QED  BY <1>1, <1>2, <1>4, <1>5, <1>6, <1>7, MovesKeep

LEMMA SaveRepliedKeeps == ASSUME MailboxInv, Mailbox!SaveReplied PROVE MailboxInv'
<1>1. /\ MailboxTyped /\ v4 \in SUBSET Mailbox!Dialogs /\ v6 \in LockLoadings
      /\ "save" \in Mailbox!Ops /\ v5["save"].is \in Mailbox!Settings
  BY DEF MailboxInv, MailboxTyped, LockDialogs, Mailbox!Ops, LockAsks
<1> DEFINE x == v5["save"].is
<1>2. /\ Mailbox!Answered("save") /\ Mailbox!Assign(x) /\ v8' = Mailbox!Elsewhere("save")
      /\ v4' = (v4 \ {"settings"}) \cup (IF x.locked THEN {"unlock"} ELSE {}) /\ v6' = [v6 EXCEPT !.due = TRUE]
  BY DEF Mailbox!SaveReplied, Mailbox!Refreshes
<1>4. v5["save"].at = "served"  BY <1>2 DEF Mailbox!Answered
<1>5. WasServers(x, v1, v2, v6, v5) /\ x \in Mailbox!Settings /\ x.n = v5["save"].is.n  BY <1>1, <1>4 DEF WasServers
<1> HIDE DEF x
<1>6. v4' \in LockDialogs  BY <1>1, <1>2 DEF LockDialogs, Mailbox!Dialogs
<1>7. v6' \in LockLoadings /\ v6'.lists = v6.lists  BY <1>1, <1>2 DEF LockLoadings
<1>8. FewerServed(v6')  BY <1>7 DEF FewerServed
<1> QED  BY <1>1, <1>2, <1>5, <1>6, <1>8, AnswerTaken

LEMMA LockRepliedKeeps == ASSUME MailboxInv, NEW o \in Mailbox!Locks, Mailbox!LockReplied(o) PROVE MailboxInv'
<1>1. /\ MailboxTyped /\ v4 \in SUBSET Mailbox!Dialogs /\ v6 \in LockLoadings
      /\ o \in Mailbox!Ops /\ v5[o].is \in Mailbox!Settings
  BY DEF MailboxInv, MailboxTyped, LockDialogs, Mailbox!Ops, LockAsks
<1> DEFINE x == [v5[o].is EXCEPT !.lock = TRUE, !.locked = TRUE]
<1>2. /\ Mailbox!Answered(o) /\ Mailbox!Assign(x) /\ v8' = Mailbox!Elsewhere(o)
      /\ v4' = v4 \cup {"unlock"} /\ v6' = v6
  BY DEF Mailbox!LockReplied, Mailbox!Shows
<1>4. v5[o].at = "served"  BY <1>2 DEF Mailbox!Answered
<1>5. x = [lock |-> TRUE, locked |-> TRUE, n |-> v5[o].is.n] /\ x \in Mailbox!Settings /\ x.n = v5[o].is.n
  <2> DEFINE y == v5[o].is
             n == y.n
  <2>1. y \in Mailbox!Settings /\ n \in LockNumbers  BY <1>1 DEF Mailbox!Settings, LockNumbers
  <2>2. x = [y EXCEPT !.lock = TRUE, !.locked = TRUE, !.n = n]  BY <2>1 DEF Mailbox!Settings
  <2> HIDE DEF x, n
  <2>3. x = [lock |-> TRUE, locked |-> TRUE, n |-> n] /\ x \in Mailbox!Settings /\ x.n = n
    <3> HIDE DEF y
    <3>1. x \in Mailbox!Settings /\ x.lock /\ x.locked /\ x.n = n /\ x.lock \in BOOLEAN /\ x.locked \in BOOLEAN
      BY <2>1, <2>2 DEF Mailbox!Settings, LockNumbers
    <3>2. x.lock = TRUE /\ x.locked = TRUE  BY <3>1, Zenon
    <3> QED  BY <3>1, <3>2, SettingsAre
  <2> QED  BY <2>3 DEF n
<1>6. WasServers(x, v1, v2, v6, v5)  BY <1>4, <1>5 DEF WasServers
<1> HIDE DEF x
<1>7. v4' \in LockDialogs  BY <1>1, <1>2 DEF LockDialogs, Mailbox!Dialogs
<1>8. FewerServed(v6')  BY <1>1, <1>2 DEF FewerServed
<1> QED  BY <1>1, <1>2, <1>5, <1>6, <1>7, <1>8, AnswerTaken

\* What the page knew, unlocked: it is the server's where it was what the server unlocked.
LEMMA UnlockRepliedKeeps == ASSUME MailboxInv, Mailbox!UnlockReplied PROVE MailboxInv'
<1> DEFINE op == v5["unlock"]
           mixed == op.conv = v3.conv /\ v3.core.n # op.over
           n == IF mixed THEN op.over ELSE op.is.n
           x == [v3.core EXCEPT !.locked = FALSE, !.n = n]
<1>1. /\ MailboxTyped /\ v4 \in SUBSET Mailbox!Dialogs /\ v6 \in LockLoadings /\ v3 \in LockOpens
      /\ "unlock" \in Mailbox!Ops /\ op \in LockAsks /\ v3.core \in Mailbox!Settings /\ v3.page \in Mailbox!Settings
      /\ op.over \in LockNumbers /\ op.is.n \in LockNumbers /\ v8 \in BOOLEAN /\ (v7 => v3.conv # None)
      /\ v1 \in [Convs -> Mailbox!Settings]
  BY DEF MailboxInv, MailboxTyped, LockDialogs, Mailbox!Ops, LockAsks, LockOpens, Mailbox!Settings, LockNumbers
<1>2. /\ Mailbox!Answered("unlock") /\ Mailbox!Assign(x) /\ v8' = (v8 \/ Mailbox!Elsewhere("unlock") \/ mixed)
      /\ v4' = v4 \ {"unlock"} /\ v6' = [v6 EXCEPT !.due = TRUE]
  BY DEF Mailbox!UnlockReplied, Mailbox!Refreshes, Mailbox!Closes
<1>3. n \in LockNumbers  BY <1>1
<1>4. ~v8' => ~Mailbox!Elsewhere("unlock") /\ ~mixed  BY <1>2
<1>5. v8' \in BOOLEAN
  <2> DEFINE e == Mailbox!Elsewhere("unlock")
  <2>1. e \in BOOLEAN /\ mixed \in BOOLEAN  BY DEF Mailbox!Elsewhere
  <2>2. v8' = (v8 \/ e \/ mixed)  BY <1>2
  <2> HIDE DEF e, mixed
  <2> QED  BY <1>1, <2>1, <2>2
<1>6. v4' \in LockDialogs  BY <1>1, <1>2 DEF LockDialogs
<1>7. v6' \in LockLoadings /\ v6'.lists = v6.lists  BY <1>1, <1>2 DEF LockLoadings
<1>8. FewerServed(v6')  BY <1>7 DEF FewerServed
<1>9. mixed <=> op.conv = v3.conv /\ v3.core.n # op.over  OBVIOUS
<1>10. (mixed => n = op.over) /\ (~mixed => n = op.is.n)  OBVIOUS
<1> HIDE DEF mixed, n
<1>11. x \in Mailbox!Settings /\ x.n = n /\ ~x.locked /\ x.lock = v3.core.lock
       /\ x = [lock |-> v3.core.lock, locked |-> FALSE, n |-> n]
  <2> DEFINE y == v3.core
             lock == y.lock
  <2>1. y \in Mailbox!Settings /\ lock \in BOOLEAN  BY <1>1 DEF Mailbox!Settings
  <2>2. x = [y EXCEPT !.lock = lock, !.locked = FALSE, !.n = n]  BY <2>1 DEF Mailbox!Settings
  <2> HIDE DEF x, lock
  <2>3. /\ x \in Mailbox!Settings /\ x.lock = lock /\ x.locked = FALSE /\ x.n = n
        /\ x = [lock |-> lock, locked |-> FALSE, n |-> n]
    <3> HIDE DEF y
    <3>1. x \in Mailbox!Settings /\ x.lock = lock /\ x.locked = FALSE /\ x.n = n
      BY <1>3, <2>1, <2>2 DEF Mailbox!Settings, LockNumbers
    <3> QED  BY <3>1, SettingsAre
  <2> QED  BY <2>3 DEF lock
<1> HIDE DEF x
<1>12. /\ v3' \in LockOpens /\ v3'.conv = v3.conv /\ v3'.core = x /\ v3'.one = v3.one
       /\ v3'.page = (IF v3.one THEN x ELSE v3.page) /\ (v3'.one => v3'.page = v3'.core)
       /\ (v3.conv = None => v3.one)
  BY <1>2, <1>11, AssignIs
<1>13. /\ op.at = "served" /\ v5' \in [Mailbox!Ops -> LockAsks] /\ v5'["unlock"].at = "none"
       /\ \A p \in Mailbox!Ops \ {"unlock"} : v5'[p] = v5[p]
       /\ UNCHANGED <<v1, v2, v7>>
       /\ \A y \in Mailbox!Settings : WasServers(y, v1, v2', v6', v5') => WasServers(y, v1, v2, v6, v5)
       /\ op.conv \in Convs /\ op.is \in Mailbox!Settings
       /\ op.over < op.is.n /\ op.is.n <= v1[op.conv].n
       /\ \A c \in Convs : op.is.n = v1[c].n => c = op.conv
  BY <1>1, <1>2, <1>8, AnsweredIs
<1>14. PICK t \in LockNumbers : MailboxKnown(t)  BY DEF MailboxInv
<1>15. t \in Nat /\ op.over \in Nat /\ op.is.n \in Nat /\ v1[op.conv].n \in Nat /\ v1[op.conv].n <= t
       /\ \A c \in Convs : v1[c].n \in Nat
  BY <1>1, <1>13, <1>14, MailboxBounds DEF MailboxKnown, LastChange, LockNumbers, Mailbox!Settings
<1>16. n <= t  BY <1>10, <1>13, <1>15
<1>17. ASSUME v3.conv # None, n = v1[v3.conv].n PROVE x = v1[v3.conv]
  <2>0. v3.conv \in Convs  BY <1>1, <1>17 DEF LockOpens
  <2>1. ~mixed  BY <1>9, <1>10, <1>13, <1>15, <1>17
  <2>2. n = op.is.n  BY <1>10, <2>1
  <2>3. v3.conv = op.conv  BY <1>13, <1>17, <2>0, <2>2
  <2>4. v3.core.n = op.over  BY <1>9, <2>1, <2>3
  <2>5. ~v1[op.conv].locked /\ v3.core.lock = v1[op.conv].lock
    BY <1>1, <1>13, <1>14, <1>17, <2>2, <2>3, <2>4 DEF MailboxKnown, UnlockKnown
  <2>6. v1[op.conv] \in Mailbox!Settings  BY <1>1, <1>13
  <2>7. v1[op.conv] = [lock |-> v3.core.lock, locked |-> FALSE, n |-> n]
    BY <1>17, <2>3, <2>5, <2>6 DEF Mailbox!Settings
  <2> QED  BY <1>11, <2>3, <2>7
<1>18. MailboxTyped'  BY <1>1, <1>5, <1>6, <1>7, <1>12, <1>13 DEF MailboxTyped
<1>19. LastChange(t, v1') /\ KeptKnown(t, v1', v2', v6', v5')
  BY <1>13, <1>14 DEF MailboxKnown, KeptKnown
<1>20. OpenKnown(t, v1', v3')
  <2>1. ASSUME v3.conv # None, NEW y \in {v3'.page, v3'.core}
        PROVE  y.n <= t /\ (y.n = v1[v3.conv].n => y = v1[v3.conv])
    <3>1. CASE y = x  BY <1>11, <1>16, <1>17, <2>1, <3>1
    <3>2. CASE y = v3.page  BY <1>14, <2>1, <3>2 DEF MailboxKnown, OpenKnown
    <3> QED  BY <1>12, <2>1, <3>1, <3>2
  <2> QED  BY <1>12, <1>13, <2>1 DEF OpenKnown
<1>21. AnswersKnown(v1', v5')  BY <1>13, <1>14 DEF MailboxKnown, AnswersKnown
<1>22. UnlockKnown(v1', v2', v6', v5', v3')  BY <1>13 DEF UnlockKnown
<1>23. LockFollows(v1', v3', v5', v8')
  <2>1. SUFFICES ASSUME ~v8', v3.conv # None PROVE x = v1[v3.conv]  BY <1>12, <1>13 DEF LockFollows
  <2>2. ~mixed /\ op.conv = v3.conv /\ op.is.n = v1[v3.conv].n  BY <1>4, <2>1 DEF Mailbox!Elsewhere
  <2> QED  BY <1>10, <1>17, <2>1, <2>2
<1>24. v7' => v3'.conv # None  BY <1>1, <1>12, <1>13
<1> QED  BY <1>14, <1>18, <1>19, <1>20, <1>21, <1>22, <1>23, <1>24 DEF MailboxInv, MailboxKnown

LEMMA MailboxStepKeeps == ASSUME MailboxInv, Mailbox!Next \/ UNCHANGED <<v1, v2, v3, v4, v5, v6, v7, v8>> PROVE MailboxInv'
<1>1. CASE UNCHANGED <<v1, v2, v3, v4, v5, v6, v7, v8>>
  <2>1. FewerServed(v6') /\ v4' \in LockDialogs /\ v7' \in BOOLEAN /\ (v7' => v3.conv # None)
    BY <1>1 DEF MailboxInv, MailboxTyped, FewerServed
  <2> QED  BY <1>1, <2>1, DialogStepKeeps
<1>2. CASE Mailbox!Next
  <2>1. ASSUME NEW c \in Convs, Mailbox!Selected(c) PROVE MailboxInv'  BY <2>1, SelectedKeeps
  <2>2. ASSUME NEW l \in Mailbox!Loads, Mailbox!ListServed(l) \/ Mailbox!ListReplied(l) PROVE MailboxInv'
    BY <2>2, ListsKeep
  <2>3. ASSUME NEW o \in Mailbox!Ops, Mailbox!OpServed(o) \/ Mailbox!OpFailed(o) PROVE MailboxInv'
    BY <2>3, OpServedKeeps, OpFailedKeeps
  <2>4. CASE \/ Mailbox!ListWanted \/ Mailbox!RefreshDue \/ Mailbox!LoadFailed \/ Mailbox!OpenSettings
             \/ Mailbox!UnlockClicked \/ Mailbox!CallBegins \/ Mailbox!Hidden \/ Mailbox!Shown
             \/ \E d \in Mailbox!Dialogs : Mailbox!DialogClosed(d)
    BY <2>4, DialogsAndListsKeep
  <2>5. CASE Mailbox!EditSaved \/ Mailbox!MessageDeleted \/ Mailbox!ReactionToggled \/ Mailbox!PeerBlockToggled
    <3>1. Mailbox!Refreshed
      BY <2>5 DEF Mailbox!EditSaved, Mailbox!MessageDeleted, Mailbox!ReactionToggled, Mailbox!PeerBlockToggled
    <3> QED  BY <3>1, DialogsAndListsKeep
  <2>6. CASE \/ Mailbox!SaveClicked \/ Mailbox!UnlockSubmitted \/ Mailbox!LockClicked
             \/ Mailbox!AutoLockDue \/ Mailbox!PageHides
    BY <2>6, LockClicksKeep
  <2>7. CASE Mailbox!MessagesReplied  BY <2>7, MessagesRepliedKeeps
  <2>8. CASE Mailbox!ConversationActionDone  BY <2>8, ConversationActionKeeps
  <2>9. CASE Mailbox!SaveReplied \/ Mailbox!UnlockReplied
    BY <2>9, SaveRepliedKeeps, UnlockRepliedKeeps
  <2>10. ASSUME NEW o \in Mailbox!Locks, Mailbox!LockReplied(o) PROVE MailboxInv'  BY <2>10, LockRepliedKeeps
  <2> QED  BY <1>2, <2>1, <2>2, <2>3, <2>4, <2>5, <2>6, <2>7, <2>8, <2>9, <2>10 DEF Mailbox!Next
<1> QED  BY <1>1, <1>2

LEMMA MailboxIs == ASSUME MailboxInv PROVE Mailbox!TypeOK /\ Mailbox!LockIsTold
<1>1. Mailbox!TypeOK
  BY DEF MailboxInv, MailboxTyped, Mailbox!TypeOK, LockOpens, LockDialogs, LockAsks, LockLists, LockLoadings,
         LockNumbers
<1>2. (\A o \in Mailbox!Ops : v5[o] = Mailbox!NoOp) => \A o \in Mailbox!Ops : v5[o].at # "served"
  BY MailboxBounds
<1> QED  BY <1>1, <1>2 DEF MailboxInv, LockFollows, Mailbox!LockIsTold

MailboxPart == which = "mailbox" => MailboxInv

LEMMA MailboxStart == Init => MailboxPart
  BY PagesConstants, MailboxInitEstablishes DEF Init, MailboxPart

LEMMA MailboxStep == MailboxPart /\ [Next]_vars => MailboxPart'
<1> SUFFICES ASSUME MailboxPart, [Next]_vars PROVE MailboxPart'
  OBVIOUS
<1>1. CASE which = "mailbox"
  <2>1. Mailbox!Next \/ UNCHANGED <<v1, v2, v3, v4, v5, v6, v7, v8>>
    BY <1>1 DEF Next, vars, Step, Mailbox!vars
  <2>2. which' = "mailbox"  BY <1>1 DEF Next, vars, Step
  <2> QED  BY <1>1, <2>1, <2>2, PagesConstants, MailboxStepKeeps DEF MailboxPart
<1>2. CASE which # "mailbox"  BY <1>2 DEF Next, vars, Step, MailboxPart
<1> QED  BY <1>1, <1>2

-----------------------------------------------------------------------------
(* What the heartbeats have told the server. *)

\* n heartbeats were sent, the last of them by the page as it is now, and the server
\* holds what one of them said: the last one's, when it came and none was missed.
HeardBy(n, p, bs, s, late) ==
  /\ \A b \in Poll!Beats : bs[b].at # "none" <=> b <= n
  /\ ~p.me => n = 0
  /\ p.hidden /\ n > 0 => ~bs[n].visible
  /\ s.beat <= n /\ (s.beat = 0 => ~s.visible) /\ (s.beat > 0 => s.visible = bs[s.beat].visible)
  /\ ~late /\ n > 0 /\ bs[n].at = "over" => s.beat = n

HeardInv == PollInv /\ \E n \in 0 .. PollBeats : HeardBy(n, v1, v4, v5, v6)

LEMMA SentIs ==
  ASSUME NEW n \in 0 .. PollBeats, PollBeats \in Nat, \A b \in Poll!Beats : v4[b].at # "none" <=> b <= n
  PROVE  Poll!Sent = n
<1>1. {b \in Poll!Beats : v4[b].at # "none"} = 1 .. n  BY DEF Poll!Beats
<1>2. IsFiniteSet(1 .. n) /\ Cardinality(1 .. n) = n  BY FS_Interval
<1>3. Poll!Cardinality(1 .. n) = Cardinality(1 .. n)  BY <1>2 DEF Poll!Cardinality, Cardinality
<1> QED  BY <1>1, <1>2, <1>3 DEF Poll!Sent

LEMMA HeardInitEstablishes == ASSUME Poll!Init PROVE HeardInv
<1>0. PollBeats \in Nat  BY PagesConstants DEF Poll!PollAssumption
<1>1. /\ ~v1.me /\ v5.beat = 0 /\ ~v5.visible
      /\ \A b \in Poll!Beats : v4[b].at = "none" /\ b > 0
  BY <1>0 DEF Poll!Init, Poll!NoBeat, Poll!Beats
<1>2. HeardBy(0, v1, v4, v5, v6)  BY <1>0, <1>1 DEF HeardBy, Poll!Beats
<1> QED  BY <1>0, <1>2, PagesConstants, PollInitEstablishes DEF HeardInv

\* Steps that send nothing.
LEMMA NothingSent ==
  ASSUME HeardInv, PollInv', UNCHANGED <<v4, v5, v6>>, v1.me => v1'.me, v1'.hidden => v1.hidden \/ ~v1.me
  PROVE  HeardInv'
<1>1. PICK n \in 0 .. PollBeats : HeardBy(n, v1, v4, v5, v6)  BY DEF HeardInv
<1>2. HeardBy(n, v1', v4', v5', v6')  BY <1>1 DEF HeardBy
<1> QED  BY <1>1, <1>2 DEF HeardInv

\* The page says whether it is visible.
LEMMA BeatSent ==
  ASSUME HeardInv, PollInv', UNCHANGED <<v5, v6>>, NEW visible \in BOOLEAN, Poll!Sent < PollBeats,
         v4' = [v4 EXCEPT ![Poll!Sent + 1] = [at |-> "sent", visible |-> visible]],
         v1'.me, v1'.hidden => ~visible
  PROVE  HeardInv'
<1>0. PollBeats \in Nat  BY PagesConstants DEF Poll!PollAssumption
<1>1. PICK n \in 0 .. PollBeats : HeardBy(n, v1, v4, v5, v6)  BY DEF HeardInv
<1>2. Poll!Sent = n  BY <1>0, <1>1, SentIs DEF HeardBy
<1> DEFINE m == n + 1
           r == [at |-> "sent", visible |-> visible]
<1>3. m \in 0 .. PollBeats /\ m \in Poll!Beats /\ n < m /\ m > 0  BY <1>0, <1>2 DEF Poll!Beats
<1>4. v4' = [v4 EXCEPT ![m] = r]  BY <1>2
<1>5. r.at = "sent" /\ r.visible = visible  OBVIOUS
<1>6. \A b \in Poll!Beats : b <= m <=> b = m \/ b <= n  BY <1>0 DEF Poll!Beats
<1> HIDE DEF m, r
<1>7. v4 \in [Poll!Beats -> BeatStates]  BY DEF HeardInv, PollInv, PollTyped
<1>8. v4'[m] = r /\ \A b \in Poll!Beats \ {m} : v4'[b] = v4[b]  BY <1>3, <1>4, <1>7
<1>9. v5.beat \in 0 .. PollBeats  BY DEF HeardInv, PollInv, PollTyped, Heards
<1>10. v5.beat > 0 => v5.beat \in Poll!Beats \ {m}  BY <1>0, <1>1, <1>3, <1>9 DEF HeardBy, Poll!Beats
<1>11. v5.beat <= m  BY <1>1, <1>3, <1>9 DEF HeardBy
<1>12. HeardBy(m, v1', v4', v5', v6')
  BY <1>1, <1>3, <1>5, <1>6, <1>8, <1>10, <1>11 DEF HeardBy
<1> QED  BY <1>3, <1>12 DEF HeardInv

LEMMA PageBeats ==
  ASSUME HeardInv, PollInv', UNCHANGED <<v5, v6>>, NEW visible \in BOOLEAN, Poll!Beat(visible),
         v1.me => v1'.me, v1'.hidden => ~visible
  PROVE  HeardInv'
<1>1. CASE v1.me
  <2>1. Poll!Sent < PollBeats /\ v4' = [v4 EXCEPT ![Poll!Sent + 1] = [at |-> "sent", visible |-> visible]]
    BY <1>1 DEF Poll!Beat
  <2> QED  BY <1>1, <2>1, BeatSent
<1>2. CASE ~v1.me
  <2>1. v4' = v4  BY <1>2 DEF Poll!Beat
  <2> QED  BY <1>2, <2>1, NothingSent
<1> QED  BY <1>1, <1>2

\* A heartbeat arrives, or is lost.
LEMMA BeatArrives ==
  ASSUME HeardInv, PollInv', NEW b \in Poll!Beats, Poll!BeatServed(b) \/ Poll!BeatFailed(b)
  PROVE  HeardInv'
<1>0. PollBeats \in Nat  BY PagesConstants DEF Poll!PollAssumption
<1>1. PICK n \in 0 .. PollBeats : HeardBy(n, v1, v4, v5, v6)  BY DEF HeardInv
<1>2. Poll!Sent = n  BY <1>0, <1>1, SentIs DEF HeardBy
<1>3. v4 \in [Poll!Beats -> BeatStates] /\ v5 \in Heards /\ v6 \in BOOLEAN  BY DEF HeardInv, PollInv, PollTyped
<1> DEFINE r == [v4[b] EXCEPT !.at = "over"]
<1>4. v4[b].at = "sent" /\ v4' = [v4 EXCEPT ![b] = r] /\ v1' = v1  BY DEF Poll!BeatServed, Poll!BeatFailed
<1>5. r.at = "over" /\ r.visible = v4[b].visible  BY <1>3 DEF BeatStates
<1> HIDE DEF r
<1>6. v4'[b] = r /\ \A c \in Poll!Beats \ {b} : v4'[c] = v4[c]  BY <1>3, <1>4
<1>7. \A c \in Poll!Beats : v4'[c].visible = v4[c].visible /\ (v4'[c].at # "none" <=> v4[c].at # "none")
  BY <1>4, <1>5, <1>6
<1>8. b <= n /\ b \in Nat /\ b > 0  BY <1>0, <1>1, <1>4 DEF HeardBy, Poll!Beats
<1>9. n > 0 => n \in Poll!Beats  BY <1>0 DEF Poll!Beats
<1>10. CASE Poll!BeatServed(b)
  <2>1. v5' = [visible |-> v4[b].visible, beat |-> b] /\ v6' = (IF b = n THEN FALSE ELSE v6 \/ b < v5.beat)
    BY <1>2, <1>10 DEF Poll!BeatServed
  <2>2. v5'.visible = v4[b].visible /\ v5'.beat = b  BY <2>1
  <2>3. ~v6' /\ n > 0 /\ v4'[n].at = "over" => b = n
    <3> SUFFICES ASSUME ~v6', n > 0, v4'[n].at = "over", b # n PROVE FALSE  OBVIOUS
    <3>1. ~v6 /\ ~(b < v5.beat)  BY <2>1
    <3>2. v4[n].at = "over"  BY <1>6, <1>9
    <3>3. v5.beat = n  BY <1>1, <3>1, <3>2 DEF HeardBy
    <3> QED  BY <1>8, <3>1, <3>3
  <2>4. HeardBy(n, v1', v4', v5', v6')  BY <1>1, <1>4, <1>7, <1>8, <1>9, <2>2, <2>3 DEF HeardBy
  <2> QED  BY <2>4 DEF HeardInv
<1>11. CASE Poll!BeatFailed(b)
  <2>1. v6' = TRUE /\ v5' = v5  BY <1>11 DEF Poll!BeatFailed
  <2>2. v5.beat > 0 => v5.beat \in Poll!Beats  BY <1>0, <1>3 DEF Heards, Poll!Beats
  <2>3. HeardBy(n, v1', v4', v5', v6')  BY <1>1, <1>4, <1>7, <1>9, <2>1, <2>2 DEF HeardBy
  <2> QED  BY <2>3 DEF HeardInv
<1> QED  BY <1>10, <1>11

LEMMA HeardStepKeeps == ASSUME HeardInv, [Poll!Next]_Poll!vars PROVE HeardInv'
<1>0. PollInv'  BY PagesConstants, PollStepKeeps DEF HeardInv
<1>1. v1 \in PollPages  BY DEF HeardInv, PollInv, PollTyped
<1>2. FALSE \in BOOLEAN /\ (~v1.hidden) \in BOOLEAN  OBVIOUS
<1>3. CASE UNCHANGED Poll!vars
  BY <1>0, <1>3, NothingSent DEF Poll!vars
<1>4. CASE Poll!Hides \/ Poll!Leaves
  <2>1. UNCHANGED <<v5, v6>> /\ Poll!Beat(FALSE)  BY <1>4 DEF Poll!Hides, Poll!Leaves
  <2>2. v1'.me = v1.me  BY <1>1, <1>4 DEF Poll!Hides, Poll!Leaves, Poll!Turn, PollPages
  <2> QED  BY <1>0, <1>2, <2>1, <2>2, PageBeats
<1>5. CASE Poll!Shows \/ Poll!Returns
  <2>1. UNCHANGED <<v4, v5, v6>>  BY <1>5 DEF Poll!Shows, Poll!Returns
  <2>2. v1'.me = v1.me /\ ~v1'.hidden  BY <1>1, <1>5 DEF Poll!Shows, Poll!Returns, Poll!Turn, PollPages
  <2> QED  BY <1>0, <2>1, <2>2, NothingSent
<1>6. CASE \/ Poll!PollDue \/ Poll!PanelChosen \/ Poll!OtherPanelChosen \/ \E due \in BOOLEAN : Poll!PollCalls(due)
           \/ \E r \in Poll!Refreshes : \/ Poll!RefreshFails(r) \/ Poll!ListsLoaded(r)
                                        \/ Poll!IntentCarriedOut(r) \/ Poll!RefreshOver(r)
  <2>1. UNCHANGED <<v4, v5, v6>>
    BY <1>6 DEF Poll!PollDue, Poll!PanelChosen, Poll!OtherPanelChosen, Poll!PollCalls, Poll!RefreshFails,
                Poll!ListsLoaded, Poll!IntentCarriedOut, Poll!RefreshOver
  <2>2. v1'.me = v1.me /\ v1'.hidden = v1.hidden
    BY <1>1, <1>6 DEF Poll!PollDue, Poll!PanelChosen, Poll!OtherPanelChosen, Poll!PollCalls, Poll!RefreshFails,
                      Poll!ListsLoaded, Poll!IntentCarriedOut, Poll!RefreshOver, PollPages
  <2> QED  BY <1>0, <2>1, <2>2, NothingSent
<1>7. ASSUME NEW ok \in BOOLEAN, NEW due \in BOOLEAN, Poll!PollSummary(ok, due) PROVE HeardInv'
  <2> DEFINE m == v1.me \/ ok
  <2>1. m \in BOOLEAN /\ (v1.me => m) /\ v1' = [v1 EXCEPT !.me = m]  BY <1>1, <1>7 DEF Poll!PollSummary, PollPages
  <2> HIDE DEF m
  <2>2. v1'.hidden = v1.hidden /\ (v1.me => v1'.me)  BY <1>1, <2>1 DEF PollPages
  <2>3. UNCHANGED <<v5, v6>> /\ (v4' = v4 \/ Poll!Beat(~v1.hidden))  BY <1>7 DEF Poll!PollSummary
  <2> QED  BY <1>0, <1>2, <2>2, <2>3, NothingSent, PageBeats
<1>8. ASSUME NEW r \in Poll!Refreshes, Poll!RefreshBeats(r) PROVE HeardInv'
  <2>1. v1' = [v1 EXCEPT !.me = TRUE] /\ UNCHANGED <<v5, v6>>  BY <1>8 DEF Poll!RefreshBeats
  <2>2. v1'.me /\ v1'.hidden = v1.hidden  BY <1>1, <2>1 DEF PollPages
  <2>3. \/ v4' = v4 \/ Poll!Beat(~v1.hidden)
        \/ Poll!Sent < PollBeats /\ v4' = [v4 EXCEPT ![Poll!Sent + 1] = [at |-> "sent", visible |-> ~v1.hidden]]
    BY <1>8 DEF Poll!RefreshBeats
  <2> QED  BY <1>0, <1>2, <2>1, <2>2, <2>3, NothingSent, PageBeats, BeatSent
<1>9. ASSUME NEW b \in Poll!Beats, Poll!BeatServed(b) \/ Poll!BeatFailed(b) PROVE HeardInv'
  BY <1>0, <1>9, BeatArrives
<1> QED  BY <1>3, <1>4, <1>5, <1>6, <1>7, <1>8, <1>9 DEF Poll!Next

LEMMA HeardIs == HeardInv => Poll!HiddenIsTold
<1> SUFFICES ASSUME HeardInv, v5.visible, v1.hidden, \A b \in Poll!Beats : v4[b].at # "sent", ~v6 PROVE FALSE
  BY DEF Poll!HiddenIsTold
<1>0. PollBeats \in Nat  BY PagesConstants DEF Poll!PollAssumption
<1>1. PICK n \in 0 .. PollBeats : HeardBy(n, v1, v4, v5, v6)  BY DEF HeardInv
<1>2. v5.beat \in 0 .. PollBeats /\ v4 \in [Poll!Beats -> BeatStates]  BY DEF HeardInv, PollInv, PollTyped, Heards
<1>3. v5.beat > 0 /\ n > 0 /\ n \in Poll!Beats  BY <1>0, <1>1, <1>2 DEF HeardBy, Poll!Beats
<1>4. v4[n].at \in {"none", "sent", "over"} /\ v4[n].at # "none"  BY <1>0, <1>1, <1>2, <1>3 DEF HeardBy, BeatStates
<1> QED  BY <1>1, <1>3, <1>4 DEF HeardBy

HeardPart == which = "poll" => HeardInv

LEMMA HeardStart == Init => HeardPart
  BY PagesConstants, HeardInitEstablishes DEF Init, HeardPart

LEMMA HeardStep == HeardPart /\ [Next]_vars => HeardPart'
<1> SUFFICES ASSUME HeardPart, [Next]_vars PROVE HeardPart'
  OBVIOUS
<1>1. CASE which = "poll"
  <2>1. [Poll!Next]_Poll!vars  BY <1>1 DEF Next, vars, Step, Poll!vars
  <2>2. which' = "poll"  BY <1>1 DEF Next, vars, Step
  <2> QED  BY <1>1, <2>1, <2>2, PagesConstants, HeardStepKeeps DEF HeardPart
<1>2. CASE which # "poll"  BY <1>2 DEF Next, vars, Step, HeardPart
<1> QED  BY <1>1, <1>2

-----------------------------------------------------------------------------
(* The least and the greatest of a set of numbers. *)

LEMMA LeastNumber ==
  ASSUME NEW S, S \subseteq Nat, S # {}
  PROVE  \E x \in S : \A y \in S : x <= y
<1>1. PICK x \in S : \A y \in S : <<y, x>> \notin OpToRel(<, Nat)
  BY NatLessThanWellFounded, WFMin, Zenon
<1>2. \A y \in S : ~(y < x)  BY <1>1, Zenon DEF OpToRel
<1>3. ASSUME NEW y \in S PROVE x <= y  BY <1>2
<1> QED  BY <1>3

LEMMA GreatestNumber ==
  ASSUME NEW M \in Nat, NEW S, S \subseteq 0 .. M, S # {}
  PROVE  \E x \in S : \A y \in S : y <= x
<1> DEFINE T == {M - y : y \in S}
<1>1. T \subseteq Nat /\ T # {}
  <2>1. \A y \in S : M - y \in Nat  OBVIOUS
  <2>2. \E y \in S : M - y \in T  OBVIOUS
  <2> QED  BY <2>1, <2>2, Zenon
<1>2. PICK z \in T : \A y \in T : z <= y
  <2> HIDE DEF T
  <2> QED  BY <1>1, LeastNumber
<1>3. PICK x \in S : z = M - x  OBVIOUS
<1>4. ASSUME NEW y \in S PROVE y <= x
  <2>1. z <= M - y  BY <1>2
  <2> HIDE DEF T
  <2> QED  BY <1>3, <2>1
<1> QED  BY <1>4


-----------------------------------------------------------------------------
(* The console of security events. *)

ConsoleEvents == SecurityEvents \cup {0}
ConsoleTimes == 0 .. SecurityChanges
ConsoleKnown == [cursor : ConsoleEvents, since : ConsoleTimes]
ConsolePolls == [at : {"none", "asked", "served"}, cursor : ConsoleEvents, since : ConsoleTimes, time : ConsoleTimes]
ConsolePages == [hidden : BOOLEAN, timer : BOOLEAN, stopped : BOOLEAN, filtered : BOOLEAN, from : ConsoleTimes]

SecurityTyped ==
  /\ v1 \in [1 .. SecurityChanges -> ConsoleEvents] /\ v2 \in [SecurityEvents -> ConsoleTimes] /\ v3 \in ConsoleKnown
  /\ v4 \in [Security!Polls -> ConsolePolls] /\ v5 \in ConsolePages /\ v6 \in BOOLEAN

\* The changes so far are the first n, and no poll knows of a later one.
FilledTo(n, l, k, ps, excused) ==
  /\ n \in ConsoleTimes /\ \A t \in 1 .. SecurityChanges : l[t] # 0 <=> t <= n
  /\ \A p \in Security!Polls : ps[p].time <= n
  /\ ~excused => k.since <= n /\ \A p \in Security!Polls : ps[p].since <= n

TableFull(rs) == Cardinality({e \in SecurityEvents : rs[e] # 0}) >= SecurityRows

\* A row is at least as new as the event's last change up to a time; or there is none, and the event
\* has not changed since the page was rendered or the table is full.
RowsReach(rs, l, from, time) ==
  \A e \in SecurityEvents : \A t \in 1 .. SecurityChanges :
    t <= time /\ l[t] = e => t <= rs[e] \/ (rs[e] = 0 /\ (t <= from \/ TableFull(rs)))

\* The rows are as new as what the next poll and the polls under way ask from.
RowsFollow(rs, l, k, ps, pg, excused) ==
  ~pg.filtered /\ ~excused =>
    /\ RowsReach(rs, l, pg.from, k.since)
    /\ \A p \in Security!Polls : ps[p].at # "none" => RowsReach(rs, l, pg.from, ps[p].since)

PollComes(ps, pg) == ~pg.stopped => pg.timer \/ \E p \in Security!Polls : ps[p].at # "none"

SecurityInv ==
  /\ SecurityTyped /\ \E n \in ConsoleTimes : FilledTo(n, v1, v3, v4, v6)
  /\ RowsFollow(v2, v1, v3, v4, v5, v6) /\ PollComes(v4, v5)

LEMMA SecurityBounds ==
  /\ SecurityChanges \in Nat /\ SecurityPolls \in Nat /\ SecurityEvents \subseteq Nat /\ 0 \notin SecurityEvents
  /\ IsFiniteSet(SecurityEvents) /\ 0 \in ConsoleTimes /\ SecurityRows \in Nat
  /\ Security!NoPoll \in ConsolePolls /\ Security!NoPoll.at = "none" /\ Security!NoPoll.since = 0
  /\ Security!NoPoll.time = 0
<1>1. /\ SecurityChanges \in Nat /\ SecurityPolls \in Nat /\ SecurityEvents \subseteq Nat /\ 0 \notin SecurityEvents
      /\ SecurityRows \in Nat
  BY PagesConstants DEF Security!ConsoleAssumption
<1>2. IsFiniteSet(SecurityEvents)
  <2>1. Security!IsFiniteSet(SecurityEvents)  BY PagesConstants DEF Security!ConsoleAssumption
  <2> QED  BY <2>1 DEF Security!IsFiniteSet, IsFiniteSet
<1>3. 0 \in ConsoleTimes  BY <1>1 DEF ConsoleTimes
<1>4. /\ Security!NoPoll \in ConsolePolls /\ Security!NoPoll.at = "none" /\ Security!NoPoll.since = 0
      /\ Security!NoPoll.time = 0
  BY <1>3 DEF Security!NoPoll, ConsolePolls, ConsoleEvents
<1> QED  BY <1>1, <1>2, <1>3, <1>4

\* A finite set of numbers has a bound.
LEMMA FiniteHasBound ==
  ASSUME NEW S, S \subseteq Nat, IsFiniteSet(S)
  PROVE  \E m \in Nat : \A x \in S : x <= m
<1> DEFINE B == {T \in SUBSET S : \A m \in Nat : \E x \in T : ~(x <= m)}
<1> SUFFICES ASSUME S \in B PROVE FALSE  OBVIOUS
<1>1. B \subseteq FiniteSubsetsOf(S) /\ B # {}  BY FS_Subset DEF FiniteSubsetsOf
<1>2. PICK T \in B : \A U \in B : <<U, T>> \notin StrictSubsetOrdering(S)
  <2> HIDE DEF B
  <2> QED  BY <1>1, FS_StrictSubsetOrderingWellFounded, WFMin, Zenon
<1>3. T \subseteq Nat /\ T \subseteq S /\ \A m \in Nat : \E x \in T : ~(x <= m)  OBVIOUS
<1>4. PICK x \in T : TRUE  BY <1>3
<1>5. T \ {x} \notin B
  <2>1. T \ {x} \in SUBSET S /\ T \ {x} # T  BY <1>3
  <2> HIDE DEF B
  <2> QED  BY <1>2, <1>3, <2>1 DEF StrictSubsetOrdering
<1>6. PICK m \in Nat : \A y \in T \ {x} : y <= m  BY <1>3, <1>5
<1> DEFINE k == x + m
<1>7. k \in Nat /\ \A y \in T : y <= k  BY <1>3, <1>6
<1> QED  BY <1>3, <1>7

LEMMA NewestIs ==
  ASSUME NEW M \in Nat, NEW S, S \subseteq 0 .. M
  PROVE  /\ S = {} => Security!Newest(S) = 0
         /\ S # {} => Security!Newest(S) \in S /\ \A y \in S : y <= Security!Newest(S)
<1>1. ASSUME S # {} PROVE Security!Newest(S) \in S /\ \A y \in S : y <= Security!Newest(S)
  <2>1. \E x \in S : \A y \in S : y <= x  BY <1>1, GreatestNumber
  <2>2. Security!Newest(S) = CHOOSE x \in S : \A y \in S : y <= x  BY <1>1 DEF Security!Newest
  <2> QED  BY <2>1, <2>2, Zenon
<1> QED  BY <1>1 DEF Security!Newest

\* The last change of an event up to a time.
LastIn(l, e, time) == Security!Newest({t \in 1 .. time : l[t] = e})

LEMMA LastIs ==
  ASSUME NEW l, NEW e, NEW time \in Nat
  PROVE  /\ LastIn(l, e, time) \in 0 .. time
         /\ LastIn(l, e, time) # 0 => l[LastIn(l, e, time)] = e
         /\ \A t \in 1 .. time : l[t] = e => t <= LastIn(l, e, time)
<1> DEFINE S == {t \in 1 .. time : l[t] = e}
<1>1. S \subseteq 0 .. time  OBVIOUS
<1>2. LastIn(l, e, time) = Security!Newest(S)  BY DEF LastIn
<1>3. \A t \in S : t \in 1 .. time /\ l[t] = e  OBVIOUS
<1>4. \A t \in 1 .. time : l[t] = e => t \in S  OBVIOUS
<1> DEFINE x == LastIn(l, e, time)
<1> HIDE DEF S
<1>5. (S = {} => x = 0) /\ (S # {} => x \in S /\ \A y \in S : y <= x)  BY <1>1, <1>2, NewestIs
<1> HIDE DEF x
<1>6. x \in 0 .. time
  <2>1. CASE S = {}  BY <1>5, <2>1
  <2>2. CASE S # {}  BY <1>1, <1>5, <2>2
  <2> QED  BY <2>1, <2>2
<1>7. x # 0 => l[x] = e  BY <1>3, <1>5
<1>8. \A t \in 1 .. time : l[t] = e => t <= x  BY <1>4, <1>5
<1> QED  BY <1>6, <1>7, <1>8 DEF x

LEMMA NowIs ==
  ASSUME NEW n, FilledTo(n, v1, v3, v4, v6)
  PROVE  Security!Now = n
<1>1. SecurityChanges \in Nat /\ n \in 0 .. SecurityChanges  BY SecurityBounds DEF FilledTo, ConsoleTimes
<1>2. {t \in 1 .. SecurityChanges : v1[t] # 0} = 1 .. n  BY <1>1 DEF FilledTo
<1>3. IsFiniteSet(1 .. n) /\ Cardinality(1 .. n) = n  BY <1>1, FS_Interval
<1>4. Security!Cardinality(1 .. n) = Cardinality(1 .. n)  BY <1>3 DEF Security!Cardinality, Cardinality
<1> QED  BY <1>2, <1>3, <1>4 DEF Security!Now

\* The newest of some events is one of them, or none.
LEMMA NewestEvent == ASSUME NEW S, S \subseteq ConsoleEvents PROVE Security!Newest(S) \in ConsoleEvents
<1>1. PICK m \in Nat : \A x \in SecurityEvents : x <= m  BY SecurityBounds, FiniteHasBound
<1>2. S \subseteq 0 .. m  BY <1>1, SecurityBounds DEF ConsoleEvents
<1>3. Security!Newest(S) = 0 \/ Security!Newest(S) \in S  BY <1>1, <1>2, NewestIs
<1> QED  BY <1>3 DEF ConsoleEvents

LEMMA SecurityInitEstablishes == ASSUME Security!Init PROVE SecurityInv
<1>1. PICK n \in ConsoleTimes, l \in [1 .. SecurityChanges -> SecurityEvents], with \in SUBSET SecurityEvents,
           filtered \in BOOLEAN, since \in ConsoleTimes :
        /\ v1 = [t \in 1 .. SecurityChanges |-> IF t <= n THEN l[t] ELSE 0]
        /\ v2 = [e \in SecurityEvents |-> IF e \in with THEN Security!Newest({t \in 1 .. n : l[t] = e}) ELSE 0]
        /\ v3 = [cursor |-> Security!Newest({l[t] : t \in 1 .. n}), since |-> since]
        /\ v5 = [hidden |-> FALSE, timer |-> TRUE, stopped |-> FALSE, filtered |-> filtered, from |-> n]
        /\ v6 = (since # n)
  BY DEF Security!Init, Security!Times, ConsoleTimes
<1>2. v4 = [p \in Security!Polls |-> Security!NoPoll]  BY DEF Security!Init
<1>3. n \in 0 .. SecurityChanges /\ n \in Nat /\ SecurityChanges \in Nat  BY SecurityBounds DEF ConsoleTimes
<1>4. \A t \in 1 .. SecurityChanges : (v1[t] = IF t <= n THEN l[t] ELSE 0) /\ l[t] \in SecurityEvents  BY <1>1
<1>5. v1 \in [1 .. SecurityChanges -> ConsoleEvents]  BY <1>1 DEF ConsoleEvents
<1>6. \A t \in 1 .. SecurityChanges : v1[t] # 0 <=> t <= n  BY <1>3, <1>4, SecurityBounds
<1>7. \A e \in SecurityEvents : v2[e] = IF e \in with THEN LastIn(l, e, n) ELSE 0  BY <1>1 DEF LastIn
<1>8. v2 \in [SecurityEvents -> ConsoleTimes]
  <2>1. \A e \in SecurityEvents : LastIn(l, e, n) \in 0 .. n  BY <1>3, LastIs
  <2>2. v2 = [e \in SecurityEvents |-> IF e \in with THEN LastIn(l, e, n) ELSE 0]  BY <1>1 DEF LastIn
  <2> QED  BY <1>3, <2>1, <2>2 DEF ConsoleTimes
<1>9. v3 \in ConsoleKnown /\ v3.since = since
  <2>1. {l[t] : t \in 1 .. n} \subseteq ConsoleEvents  BY <1>3, <1>4 DEF ConsoleEvents
  <2>2. Security!Newest({l[t] : t \in 1 .. n}) \in ConsoleEvents  BY <2>1, NewestEvent
  <2> QED  BY <1>1, <2>2 DEF ConsoleKnown
<1>10. v4 \in [Security!Polls -> ConsolePolls] /\ \A p \in Security!Polls : v4[p] = Security!NoPoll
  BY <1>2, SecurityBounds
<1>11. v5 \in ConsolePages /\ v5.timer /\ v5.from = n  BY <1>1 DEF ConsolePages
<1>12. v6 \in BOOLEAN /\ (~v6 => since = n)  BY <1>1
<1>13. FilledTo(n, v1, v3, v4, v6)  BY <1>3, <1>6, <1>9, <1>10, <1>12, SecurityBounds DEF FilledTo
<1>14. RowsFollow(v2, v1, v3, v4, v5, v6)
  <2>1. ASSUME NEW e \in SecurityEvents, NEW t \in 1 .. SecurityChanges, t <= n, v1[t] = e
        PROVE  t <= v2[e] \/ (v2[e] = 0 /\ t <= v5.from)
    <3>1. t \in 1 .. n /\ l[t] = e  BY <1>3, <1>4, <2>1
    <3>2. t <= LastIn(l, e, n)  BY <1>3, <3>1, LastIs
    <3> QED  BY <1>7, <1>11, <2>1, <3>2
  <2> QED  BY <1>9, <1>10, <1>12, <2>1, SecurityBounds DEF RowsFollow, RowsReach
<1> QED  BY <1>5, <1>8, <1>9, <1>10, <1>11, <1>12, <1>13, <1>14 DEF SecurityInv, SecurityTyped, PollComes

\* Nothing but the page's timer changes.
LEMMA ConsoleStays ==
  ASSUME SecurityInv, UNCHANGED <<v1, v2, v3, v4, v6>>, v5' \in ConsolePages,
         v5'.filtered = v5.filtered, v5'.from = v5.from,
         v5'.stopped \/ v5'.timer \/ (v5'.stopped = v5.stopped /\ v5'.timer = v5.timer)
  PROVE  SecurityInv'
<1>1. SecurityTyped'  BY DEF SecurityInv, SecurityTyped
<1>2. \E n \in ConsoleTimes : FilledTo(n, v1', v3', v4', v6')  BY DEF SecurityInv
<1>3. RowsFollow(v2', v1', v3', v4', v5', v6')  BY DEF SecurityInv, RowsFollow
<1>4. PollComes(v4', v5')  BY DEF SecurityInv, PollComes
<1> QED  BY <1>1, <1>2, <1>3, <1>4 DEF SecurityInv

LEMMA PageStepsKeep ==
  ASSUME SecurityInv, Security!Hidden \/ Security!Visible \/ Security!Unloading
  PROVE  SecurityInv'
<1>1. v5 \in ConsolePages /\ v5.stopped \in BOOLEAN  BY DEF SecurityInv, SecurityTyped, ConsolePages
<1>2. CASE Security!Hidden
  <2>1. v5' = [v5 EXCEPT !.hidden = TRUE] /\ UNCHANGED <<v1, v2, v3, v4, v6>>  BY <1>2 DEF Security!Hidden
  <2>2. /\ v5' \in ConsolePages /\ v5'.stopped = v5.stopped /\ v5'.timer = v5.timer
        /\ v5'.filtered = v5.filtered /\ v5'.from = v5.from
    BY <1>1, <2>1 DEF ConsolePages
  <2> QED  BY <2>1, <2>2, ConsoleStays
<1>3. CASE Security!Visible
  <2> DEFINE b == ~v5.stopped
  <2>1. v5' = [v5 EXCEPT !.hidden = FALSE, !.timer = b] /\ b \in BOOLEAN /\ UNCHANGED <<v1, v2, v3, v4, v6>>
    BY <1>1, <1>3 DEF Security!Visible
  <2>2. v5.stopped \/ b  OBVIOUS
  <2> HIDE DEF b
  <2>3. /\ v5' \in ConsolePages /\ v5'.stopped = v5.stopped /\ v5'.timer = b
        /\ v5'.filtered = v5.filtered /\ v5'.from = v5.from
    BY <1>1, <2>1 DEF ConsolePages
  <2> QED  BY <2>1, <2>2, <2>3, ConsoleStays
<1>4. CASE Security!Unloading
  <2>1. v5' = [v5 EXCEPT !.stopped = TRUE, !.timer = FALSE] /\ UNCHANGED <<v1, v2, v3, v4, v6>>
    BY <1>4 DEF Security!Unloading
  <2>2. v5' \in ConsolePages /\ v5'.stopped /\ v5'.filtered = v5.filtered /\ v5'.from = v5.from
    BY <1>1, <2>1 DEF ConsolePages
  <2> QED  BY <2>1, <2>2, ConsoleStays
<1> QED  BY <1>2, <1>3, <1>4

LEMMA RecordedKeeps == ASSUME SecurityInv, Security!Recorded PROVE SecurityInv'
<1>1. PICK n \in ConsoleTimes : FilledTo(n, v1, v3, v4, v6)  BY DEF SecurityInv
<1>2. Security!Now = n  BY <1>1, NowIs
<1> DEFINE m == n + 1
<1>3. PICK e \in SecurityEvents : v1' = [v1 EXCEPT ![m] = e]  BY <1>2 DEF Security!Recorded
<1>4. UNCHANGED <<v2, v3, v4, v5, v6>> /\ n < SecurityChanges  BY <1>2 DEF Security!Recorded
<1>5. m \in 1 .. SecurityChanges /\ n \in Nat /\ m = n + 1 /\ SecurityChanges \in Nat
  BY <1>4, SecurityBounds DEF ConsoleTimes
<1>6. v1 \in [1 .. SecurityChanges -> ConsoleEvents] /\ v3.since \in ConsoleTimes
      /\ \A p \in Security!Polls : v4[p].since \in ConsoleTimes /\ v4[p].time \in ConsoleTimes
  BY DEF SecurityInv, SecurityTyped, ConsoleKnown, ConsolePolls
<1> HIDE DEF m
<1>7. e \in ConsoleEvents /\ e # 0  BY SecurityBounds DEF ConsoleEvents
<1>8. /\ v1' \in [1 .. SecurityChanges -> ConsoleEvents] /\ v1'[m] = e
      /\ \A t \in (1 .. SecurityChanges) \ {m} : v1'[t] = v1[t]
  BY <1>3, <1>5, <1>6, <1>7
<1>9. SecurityTyped'  BY <1>4, <1>8 DEF SecurityInv, SecurityTyped
<1>10. /\ \A p \in Security!Polls : v4[p].time <= n
       /\ ~v6 => v3.since <= n /\ \A p \in Security!Polls : v4[p].since <= n
  BY <1>1 DEF FilledTo
<1>11. FilledTo(m, v1', v3', v4', v6')
  <2>1. \A t \in 1 .. SecurityChanges : v1'[t] # 0 <=> t <= m  BY <1>1, <1>5, <1>7, <1>8 DEF FilledTo
  <2>2. ~v6 => v3.since <= m /\ \A p \in Security!Polls : v4[p].since <= m  BY <1>5, <1>6, <1>10 DEF ConsoleTimes
  <2>3. \A p \in Security!Polls : v4[p].time <= m  BY <1>5, <1>6, <1>10 DEF ConsoleTimes
  <2>4. m \in ConsoleTimes  BY <1>5 DEF ConsoleTimes
  <2> QED  BY <1>4, <2>1, <2>2, <2>3, <2>4 DEF FilledTo
<1>12. ASSUME NEW time \in ConsoleTimes, time <= n, RowsReach(v2, v1, v5.from, time) PROVE RowsReach(v2, v1', v5.from, time)
  <2>1. \A t \in 1 .. SecurityChanges : t <= time => t # m  BY <1>5, <1>12 DEF ConsoleTimes
  <2> QED  BY <1>8, <1>12, <2>1 DEF RowsReach
<1>13. RowsFollow(v2', v1', v3', v4', v5', v6')
  <2>1. RowsFollow(v2, v1, v3, v4, v5, v6)  BY DEF SecurityInv
  <2> QED  BY <1>4, <1>6, <1>10, <1>12, <2>1 DEF RowsFollow
<1>14. PollComes(v4', v5')  BY <1>4 DEF SecurityInv
<1>15. m \in ConsoleTimes  BY <1>11 DEF FilledTo
<1> QED  BY <1>9, <1>11, <1>13, <1>14, <1>15 DEF SecurityInv

\* One poll changes.
LEMMA OnePollSet ==
  ASSUME SecurityTyped, NEW p \in Security!Polls, NEW r \in ConsolePolls, v4' = [v4 EXCEPT ![p] = r]
  PROVE  v4' \in [Security!Polls -> ConsolePolls] /\ v4'[p] = r /\ \A q \in Security!Polls \ {p} : v4'[q] = v4[q]
BY DEF SecurityTyped

LEMMA PollDueKeeps == ASSUME SecurityInv, NEW p \in Security!Polls, Security!PollDue(p) PROVE SecurityInv'
<1> DEFINE r == [at |-> "asked", cursor |-> v3.cursor, since |-> v3.since, time |-> 0]
<1>1. v4' = [v4 EXCEPT ![p] = r] /\ v5' = [v5 EXCEPT !.timer = FALSE] /\ UNCHANGED <<v1, v2, v3, v6>>
  BY DEF Security!PollDue
<1>2. v3 \in ConsoleKnown /\ v5 \in ConsolePages /\ SecurityTyped  BY DEF SecurityInv, SecurityTyped
<1>3. r \in ConsolePolls /\ r.at = "asked" /\ r.since = v3.since /\ r.time = 0
  BY <1>2, SecurityBounds DEF ConsolePolls, ConsoleKnown
<1> HIDE DEF r
<1>4. v4' \in [Security!Polls -> ConsolePolls] /\ v4'[p] = r /\ \A q \in Security!Polls \ {p} : v4'[q] = v4[q]
  BY <1>1, <1>2, <1>3, OnePollSet
<1>5. v5' \in ConsolePages  BY <1>1, <1>2 DEF ConsolePages
<1>6. SecurityTyped'  BY <1>1, <1>2, <1>4, <1>5 DEF SecurityTyped
<1>7. PICK n \in ConsoleTimes : FilledTo(n, v1, v3, v4, v6)  BY DEF SecurityInv
<1>8. 0 <= n  BY SecurityBounds DEF ConsoleTimes
<1>9. FilledTo(n, v1', v3', v4', v6')  BY <1>1, <1>3, <1>4, <1>7, <1>8 DEF FilledTo
<1>10. v5'.filtered = v5.filtered /\ v5'.from = v5.from  BY <1>1, <1>2 DEF ConsolePages
<1>11. RowsFollow(v2', v1', v3', v4', v5', v6')  BY <1>1, <1>3, <1>4, <1>10 DEF SecurityInv, RowsFollow
<1>12. PollComes(v4', v5')  BY <1>3, <1>4 DEF PollComes
<1> QED  BY <1>6, <1>9, <1>11, <1>12 DEF SecurityInv

LEMMA PollServedKeeps == ASSUME SecurityInv, NEW p \in Security!Polls, Security!PollServed(p) PROVE SecurityInv'
<1>1. PICK n \in ConsoleTimes : FilledTo(n, v1, v3, v4, v6)  BY DEF SecurityInv
<1> DEFINE r == [v4[p] EXCEPT !.at = "served", !.time = n]
<1>2. v4' = [v4 EXCEPT ![p] = r] /\ UNCHANGED <<v1, v2, v3, v5, v6>>
  BY <1>1, NowIs DEF Security!PollServed
<1>3. v4[p] \in ConsolePolls /\ SecurityTyped  BY DEF SecurityInv, SecurityTyped
<1>4. r \in ConsolePolls /\ r.at = "served" /\ r.since = v4[p].since /\ r.time = n  BY <1>3 DEF ConsolePolls
<1> HIDE DEF r
<1>5. v4' \in [Security!Polls -> ConsolePolls] /\ v4'[p] = r /\ \A q \in Security!Polls \ {p} : v4'[q] = v4[q]
  BY <1>2, <1>3, <1>4, OnePollSet
<1>6. SecurityTyped'  BY <1>2, <1>3, <1>5 DEF SecurityTyped
<1>7. n <= n  BY SecurityBounds DEF ConsoleTimes
<1>8. FilledTo(n, v1', v3', v4', v6')  BY <1>1, <1>2, <1>4, <1>5, <1>7 DEF FilledTo
<1>9. v4[p].at # "none"  BY DEF Security!PollServed
<1>10. RowsFollow(v2', v1', v3', v4', v5', v6')  BY <1>2, <1>4, <1>5, <1>9 DEF SecurityInv, RowsFollow
<1>11. PollComes(v4', v5')  BY <1>2, <1>4, <1>5 DEF SecurityInv, PollComes
<1> QED  BY <1>6, <1>8, <1>10, <1>11 DEF SecurityInv

\* A poll is over: the next one is due, unless the page is left.
LEMMA PollOver ==
  ASSUME SecurityTyped, NEW p \in Security!Polls, v4' = [v4 EXCEPT ![p] = Security!NoPoll],
         v5' = [v5 EXCEPT !.timer = ~v5.stopped]
  PROVE  /\ v4' \in [Security!Polls -> ConsolePolls] /\ v4'[p].at = "none" /\ v4'[p].since = 0 /\ v4'[p].time = 0
         /\ \A q \in Security!Polls \ {p} : v4'[q] = v4[q]
         /\ v5' \in ConsolePages /\ PollComes(v4', v5') /\ v5'.filtered = v5.filtered /\ v5'.from = v5.from
<1> DEFINE r == Security!NoPoll
           b == ~v5.stopped
<1>1. r \in ConsolePolls /\ r.at = "none" /\ r.since = 0 /\ r.time = 0  BY SecurityBounds
<1>2. v5 \in ConsolePages /\ b \in BOOLEAN /\ (v5.stopped \/ b)  BY DEF SecurityTyped, ConsolePages
<1>3. v4' = [v4 EXCEPT ![p] = r] /\ v5' = [v5 EXCEPT !.timer = b]  OBVIOUS
<1> HIDE DEF r, b
<1>4. v4' \in [Security!Polls -> ConsolePolls] /\ v4'[p] = r /\ \A q \in Security!Polls \ {p} : v4'[q] = v4[q]
  BY <1>1, <1>3, OnePollSet
<1>5. /\ v5' \in ConsolePages /\ v5'.stopped = v5.stopped /\ v5'.timer = b
      /\ v5'.filtered = v5.filtered /\ v5'.from = v5.from
  BY <1>2, <1>3 DEF ConsolePages
<1> QED  BY <1>1, <1>2, <1>4, <1>5 DEF PollComes

LEMMA PollFailedKeeps == ASSUME SecurityInv, NEW p \in Security!Polls, Security!PollFailed(p) PROVE SecurityInv'
<1>1. /\ v4' = [v4 EXCEPT ![p] = Security!NoPoll] /\ v5' = [v5 EXCEPT !.timer = ~v5.stopped]
      /\ UNCHANGED <<v1, v2, v3, v6>> /\ SecurityTyped
  BY DEF Security!PollFailed, SecurityInv
<1>2. /\ v4' \in [Security!Polls -> ConsolePolls] /\ v4'[p].at = "none" /\ v4'[p].since = 0 /\ v4'[p].time = 0
      /\ \A q \in Security!Polls \ {p} : v4'[q] = v4[q]
      /\ v5' \in ConsolePages /\ PollComes(v4', v5') /\ v5'.filtered = v5.filtered /\ v5'.from = v5.from
  BY <1>1, PollOver
<1>3. SecurityTyped'  BY <1>1, <1>2 DEF SecurityTyped
<1>4. PICK n \in ConsoleTimes : FilledTo(n, v1, v3, v4, v6)  BY DEF SecurityInv
<1>5. 0 <= n  BY SecurityBounds DEF ConsoleTimes
<1>6. FilledTo(n, v1', v3', v4', v6')  BY <1>1, <1>2, <1>4, <1>5 DEF FilledTo
<1>7. RowsFollow(v2', v1', v3', v4', v5', v6')  BY <1>1, <1>2 DEF SecurityInv, RowsFollow
<1> QED  BY <1>2, <1>3, <1>6, <1>7 DEF SecurityInv

\* A full table stays full.
LEMMA TableStaysFull ==
  ASSUME SecurityTyped, NEW held \in SUBSET SecurityEvents, NEW kept \in Security!Tables(held)
  PROVE  /\ kept \subseteq SecurityEvents
         /\ \A e \in SecurityEvents : (v2[e] # 0 \/ e \in held) /\ e \notin kept => Cardinality(kept) = SecurityRows
         /\ TableFull(v2) => Cardinality(kept) >= SecurityRows
         /\ \A e \in kept : v2[e] # 0 \/ e \in held
<1> DEFINE shown == {e \in SecurityEvents : v2[e] # 0}
           all == shown \cup held
<1>1. /\ kept \subseteq all
      /\ kept = all \/ Security!Cardinality(kept) = SecurityRows
  BY DEF Security!Tables, Security!Shown
<1>2. IsFiniteSet(shown) /\ IsFiniteSet(all) /\ IsFiniteSet(kept)
  <2>1. IsFiniteSet(SecurityEvents) /\ shown \subseteq SecurityEvents /\ all \subseteq SecurityEvents  BY SecurityBounds
  <2> QED  BY <1>1, <2>1, FS_Subset
<1>3. Security!Cardinality(kept) = Cardinality(kept)  BY <1>2 DEF Security!Cardinality, Cardinality
<1>4. Cardinality(shown) <= Cardinality(all) /\ Cardinality(all) \in Nat /\ Cardinality(shown) \in Nat
      /\ Cardinality(kept) \in Nat
  BY <1>2, FS_Subset, FS_CardinalityType
<1>5. TableFull(v2) => Cardinality(kept) >= SecurityRows
  BY <1>1, <1>3, <1>4, SecurityBounds DEF TableFull
<1> QED  BY <1>1, <1>3, <1>5

\* What an answer leaves as it is, the rows showed already.
LEMMA AnswerReaches ==
  ASSUME SecurityTyped, NEW poll \in ConsolePolls, NEW from \in ConsoleTimes, RowsReach(v2, v1, from, poll.since),
         NEW kept \in Security!Tables(Security!Held(poll)),
         v2' = [e \in SecurityEvents |->
                  IF e \notin kept THEN 0 ELSE IF e \in Security!Held(poll) THEN LastIn(v1, e, poll.time) ELSE v2[e]]
  PROVE  RowsReach(v2', v1, from, poll.time)
<1> DEFINE held == Security!Held(poll)
           time == poll.time
           since == poll.since
<1>1. /\ time \in ConsoleTimes /\ since \in ConsoleTimes /\ v1 \in [1 .. SecurityChanges -> ConsoleEvents]
      /\ v2 \in [SecurityEvents -> ConsoleTimes]
  BY DEF SecurityTyped, ConsolePolls
<1>2. held \subseteq SecurityEvents
      /\ \A e \in SecurityEvents : e \in held <=> LastIn(v1, e, time) > (IF e > poll.cursor THEN 0 ELSE since)
  BY DEF Security!Held, Security!Last, LastIn
<1>3. /\ kept \subseteq SecurityEvents
      /\ \A e \in SecurityEvents : (v2[e] # 0 \/ e \in held) /\ e \notin kept => Cardinality(kept) = SecurityRows
      /\ TableFull(v2) => Cardinality(kept) >= SecurityRows
      /\ \A e \in kept : v2[e] # 0 \/ e \in held
  BY <1>2, TableStaysFull
<1>4. /\ \A e \in SecurityEvents : v2'[e] = IF e \notin kept THEN 0 ELSE IF e \in held THEN LastIn(v1, e, time) ELSE v2[e]
      /\ RowsReach(v2, v1, from, since)
  OBVIOUS
<1> HIDE DEF held, time, since
<1>5. time \in Nat /\ since \in Nat /\ SecurityChanges \in Nat /\ time <= SecurityChanges
  BY <1>1, SecurityBounds DEF ConsoleTimes
<1>6. {e \in SecurityEvents : v2'[e] # 0} = kept
  <2>1. ASSUME NEW e \in SecurityEvents, e \in held PROVE LastIn(v1, e, time) # 0
    <3>1. LastIn(v1, e, time) \in 0 .. time  BY <1>5, LastIs
    <3>2. LastIn(v1, e, time) > 0 \/ LastIn(v1, e, time) > since  BY <1>2, <2>1
    <3> QED  BY <1>5, <3>1, <3>2
  <2>2. ASSUME NEW e \in SecurityEvents PROVE v2'[e] # 0 <=> e \in kept  BY <1>3, <1>4, <2>1
  <2> QED  BY <1>3, <2>2
<1>7. Cardinality(kept) >= SecurityRows => TableFull(v2')  BY <1>6 DEF TableFull
<1>8. SUFFICES ASSUME NEW e \in SecurityEvents, NEW t \in 1 .. SecurityChanges, t <= time, v1[t] = e
               PROVE  t <= v2'[e] \/ (v2'[e] = 0 /\ (t <= from \/ TableFull(v2')))
  BY DEF RowsReach, time
<1> DEFINE x == LastIn(v1, e, time)
<1>9. x \in 0 .. time /\ (x # 0 => v1[x] = e) /\ \A u \in 1 .. time : v1[u] = e => u <= x
  BY <1>5, LastIs
<1>10. v2'[e] = IF e \notin kept THEN 0 ELSE IF e \in held THEN x ELSE v2[e]  BY <1>4
<1>11. e \in held <=> x > (IF e > poll.cursor THEN 0 ELSE since)  BY <1>2
<1> HIDE DEF x
<1>12. t \in 1 .. time /\ t <= x /\ x > 0  BY <1>5, <1>8, <1>9
<1>13. CASE e \in held /\ e \in kept  BY <1>10, <1>12, <1>13
<1>14. CASE e \in held /\ e \notin kept
  <2>1. Cardinality(kept) >= SecurityRows  BY <1>3, <1>14, SecurityBounds
  <2> QED  BY <1>7, <1>10, <1>14, <2>1
<1>15. CASE e \notin held
  <2>1. ~(x > since)
    <3>1. ~(x > (IF e > poll.cursor THEN 0 ELSE since))  BY <1>11, <1>15
    <3> QED  BY <1>12, <3>1
  <2>2. t <= since  BY <1>5, <1>9, <1>12, <2>1
  <2>3. t <= v2[e] \/ (v2[e] = 0 /\ (t <= from \/ TableFull(v2)))  BY <1>4, <1>8, <2>2 DEF RowsReach
  <2>4. CASE e \in kept
    <3>1. v2'[e] = v2[e] /\ v2[e] # 0  BY <1>3, <1>10, <1>15, <2>4
    <3> QED  BY <2>3, <3>1
  <2>5. CASE e \notin kept
    <3>1. v2'[e] = 0  BY <1>10, <2>5
    <3>2. v2[e] # 0 \/ t <= from \/ TableFull(v2)  BY <2>3
    <3>3. v2[e] # 0 => Cardinality(kept) >= SecurityRows  BY <1>3, <2>5, SecurityBounds
    <3> QED  BY <1>3, <1>7, <3>1, <3>2, <3>3
  <2> QED  BY <2>4, <2>5
<1> QED  BY <1>13, <1>14, <1>15

LEMMA PollRepliedKeeps == ASSUME SecurityInv, NEW p \in Security!Polls, Security!PollReplied(p) PROVE SecurityInv'
<1> DEFINE poll == v4[p]
           late == \E q \in Security!Polls : v4[q].at # "none" /\ v4[q].since > poll.time
<1>1. PICK held \in Security!Answers(poll), answered \in ConsoleTimes :
        /\ IF v5.filtered THEN v2' = v2
           ELSE \E kept \in Security!Tables(held) :
                  v2' = [e \in SecurityEvents |->
                           IF e \notin kept THEN 0 ELSE IF e \in held THEN LastIn(v1, e, poll.time) ELSE v2[e]]
        /\ v3' = [cursor |-> Security!Newest({v3.cursor} \cup held), since |-> answered]
        /\ v6' = (v6 \/ held # Security!Held(poll) \/ answered # poll.time \/ late)
  BY DEF Security!PollReplied, Security!Since, Security!Last, Security!Times, ConsoleTimes, LastIn
<1>2. /\ poll.at = "served" /\ v4' = [v4 EXCEPT ![p] = Security!NoPoll]
      /\ v5' = [v5 EXCEPT !.timer = ~v5.stopped] /\ v1' = v1 /\ SecurityTyped
  BY DEF Security!PollReplied, SecurityInv
<1>3. /\ v2 \in [SecurityEvents -> ConsoleTimes] /\ v3.cursor \in ConsoleEvents /\ poll \in ConsolePolls
      /\ poll.time \in ConsoleTimes /\ v6 \in BOOLEAN /\ v5.from \in ConsoleTimes /\ v5.filtered \in BOOLEAN
      /\ \A q \in Security!Polls : v4[q].since \in ConsoleTimes
  BY DEF SecurityInv, SecurityTyped, ConsoleKnown, ConsolePolls, ConsolePages
<1>4. /\ v4' \in [Security!Polls -> ConsolePolls] /\ v4'[p].at = "none" /\ v4'[p].since = 0 /\ v4'[p].time = 0
      /\ \A q \in Security!Polls \ {p} : v4'[q] = v4[q]
      /\ v5' \in ConsolePages /\ PollComes(v4', v5') /\ v5'.filtered = v5.filtered /\ v5'.from = v5.from
  BY <1>2, PollOver
<1>5. held \subseteq SecurityEvents  BY DEF Security!Answers, Security!Held
<1>6. Security!Newest({v3.cursor} \cup held) \in ConsoleEvents
  <2>1. {v3.cursor} \cup held \subseteq ConsoleEvents  BY <1>3, <1>5 DEF ConsoleEvents
  <2> QED  BY <2>1, NewestEvent
<1>7. /\ late \in BOOLEAN /\ v6' \in BOOLEAN
      /\ ~v6' => /\ ~v6 /\ held = Security!Held(poll) /\ answered = poll.time
                 /\ \A q \in Security!Polls : v4[q].at # "none" => ~(v4[q].since > poll.time)
  BY <1>1, <1>3
<1>8. v3' \in ConsoleKnown /\ v3'.since = answered  BY <1>1, <1>6 DEF ConsoleKnown
<1>9. PICK n \in ConsoleTimes : FilledTo(n, v1, v3, v4, v6)  BY DEF SecurityInv
<1>10. poll.time <= n /\ 0 <= n  BY <1>9, SecurityBounds DEF FilledTo, ConsoleTimes
<1>11. FilledTo(n, v1', v3', v4', v6')  BY <1>2, <1>4, <1>7, <1>8, <1>9, <1>10 DEF FilledTo
<1> HIDE DEF late
<1>12. v2' \in [SecurityEvents -> ConsoleTimes]
  <2>1. poll.time \in Nat /\ poll.time <= SecurityChanges /\ SecurityChanges \in Nat  BY <1>3, SecurityBounds DEF ConsoleTimes
  <2>2. \A e \in SecurityEvents : LastIn(v1, e, poll.time) \in 0 .. poll.time  BY <1>2, <2>1, LastIs DEF SecurityTyped
  <2>3. \A e \in SecurityEvents : LastIn(v1, e, poll.time) \in ConsoleTimes  BY <2>1, <2>2 DEF ConsoleTimes
  <2> QED  BY <1>1, <1>3, <2>3, SecurityBounds
<1>13. SecurityTyped'  BY <1>2, <1>4, <1>7, <1>8, <1>12 DEF SecurityTyped
<1>14. ASSUME ~v6', ~v5.filtered PROVE RowsReach(v2', v1, v5.from, poll.time)
  <2>1. RowsReach(v2, v1, v5.from, poll.since)
    <3>1. v4[p].at # "none"  BY <1>2
    <3> QED  BY <1>7, <1>14, <3>1 DEF SecurityInv, RowsFollow
  <2> HIDE DEF poll
  <2> QED  BY <1>1, <1>2, <1>3, <1>7, <1>14, <2>1, AnswerReaches
<1>15. RowsFollow(v2', v1', v3', v4', v5', v6')
  <2>1. SUFFICES ASSUME ~v6', ~v5.filtered, NEW q \in Security!Polls, v4'[q].at # "none"
                 PROVE  RowsReach(v2', v1, v5.from, v4'[q].since)
    BY <1>2, <1>4, <1>7, <1>8, <1>14 DEF RowsFollow
  <2>2. q # p /\ v4'[q] = v4[q]  BY <1>4, <2>1
  <2>3. v4[q].since \in Nat /\ poll.time \in Nat /\ ~(v4[q].since > poll.time)
    BY <1>3, <1>7, <2>1, <2>2, SecurityBounds DEF ConsoleTimes
  <2>4. \A t \in 1 .. SecurityChanges : t <= v4[q].since => t <= poll.time  BY <2>3, SecurityBounds
  <2> QED  BY <1>14, <2>1, <2>2, <2>4 DEF RowsReach
<1> QED  BY <1>4, <1>11, <1>13, <1>15 DEF SecurityInv

LEMMA SecurityStepKeeps == ASSUME SecurityInv, Security!Next \/ UNCHANGED <<v1, v2, v3, v4, v5, v6>> PROVE SecurityInv'
<1>1. CASE UNCHANGED <<v1, v2, v3, v4, v5, v6>>
  BY <1>1, ConsoleStays DEF SecurityInv, SecurityTyped
<1>2. CASE Security!Next
  <2>1. ASSUME NEW p \in Security!Polls,
               Security!PollDue(p) \/ Security!PollServed(p) \/ Security!PollReplied(p) \/ Security!PollFailed(p)
        PROVE  SecurityInv'
    BY <2>1, PollDueKeeps, PollServedKeeps, PollRepliedKeeps, PollFailedKeeps
  <2> QED  BY <1>2, <2>1, RecordedKeeps, PageStepsKeep DEF Security!Next
<1> QED  BY <1>1, <1>2

LEMMA SecurityIs == ASSUME SecurityInv PROVE Security!TypeOK /\ Security!ConsoleFollows
<1>1. Security!TypeOK
  BY DEF SecurityInv, SecurityTyped, Security!TypeOK, ConsoleEvents, ConsoleTimes, ConsoleKnown, ConsolePolls,
         ConsolePages, Security!Times
<1>2. v3.since \in ConsoleTimes /\ SecurityChanges \in Nat  BY SecurityBounds DEF SecurityInv, SecurityTyped, ConsoleKnown
<1>3. ASSUME ~v6, ~v5.filtered, NEW e \in SecurityEvents
      PROVE  \/ v2[e] >= Security!Last(e, v3.since)
             \/ v2[e] = 0 /\ (Security!Last(e, v3.since) <= v5.from \/ Security!Cardinality(Security!Shown) >= SecurityRows)
  <2> DEFINE x == LastIn(v1, e, v3.since)
  <2>1. x \in 0 .. v3.since /\ (x # 0 => v1[x] = e)  BY <1>2, LastIs DEF ConsoleTimes, SecurityInv, SecurityTyped
  <2>2. v2[e] \in Nat /\ RowsReach(v2, v1, v5.from, v3.since)
    BY <1>3, SecurityBounds DEF SecurityInv, SecurityTyped, ConsoleTimes, RowsFollow
  <2>3. Security!Last(e, v3.since) = x  BY DEF Security!Last, LastIn
  <2> HIDE DEF x
  <2>4. x # 0 => x \in 1 .. SecurityChanges /\ x <= v3.since /\ v1[x] = e  BY <1>2, <2>1 DEF ConsoleTimes
  <2>5. x # 0 => x <= v2[e] \/ (v2[e] = 0 /\ (x <= v5.from \/ TableFull(v2)))
    <3>1. \A t \in 1 .. SecurityChanges :
            t <= v3.since /\ v1[t] = e => t <= v2[e] \/ (v2[e] = 0 /\ (t <= v5.from \/ TableFull(v2)))
      BY <2>2 DEF RowsReach
    <3> QED  BY <2>4, <3>1
  <2>6. x \in Nat  BY <1>2, <2>1 DEF ConsoleTimes
  <2>7. Security!Cardinality(Security!Shown) = Cardinality({u \in SecurityEvents : v2[u] # 0})
    <3>1. IsFiniteSet({u \in SecurityEvents : v2[u] # 0})  BY SecurityBounds, FS_Subset
    <3> QED  BY <3>1 DEF Security!Shown, Security!Cardinality, Cardinality
  <2> QED  BY <2>2, <2>3, <2>5, <2>6, <2>7 DEF TableFull
<1>4. ASSUME NEW p \in Security!Polls, v4[p].at # "none" PROVE v4[p] # Security!NoPoll  BY <1>4, SecurityBounds
<1> QED  BY <1>1, <1>3, <1>4 DEF Security!ConsoleFollows, SecurityInv, PollComes

SecurityPart == which = "security" => SecurityInv

LEMMA SecurityStart == Init => SecurityPart
  BY PagesConstants, SecurityInitEstablishes DEF Init, SecurityPart

LEMMA SecurityStep == SecurityPart /\ [Next]_vars => SecurityPart'
<1> SUFFICES ASSUME SecurityPart, [Next]_vars PROVE SecurityPart'
  OBVIOUS
<1>1. CASE which = "security"
  <2>1. Security!Next \/ UNCHANGED <<v1, v2, v3, v4, v5, v6>>
    BY <1>1 DEF Next, vars, Step, Security!vars
  <2>2. which' = "security"  BY <1>1 DEF Next, vars, Step
  <2> QED  BY <1>1, <2>1, <2>2, PagesConstants, SecurityStepKeeps DEF SecurityPart
<1>2. CASE which # "security"  BY <1>2 DEF Next, vars, Step, SecurityPart
<1> QED  BY <1>1, <1>2

-----------------------------------------------------------------------------
(* The theorems. *)

\* However starts, stops, previews and their promises overlap
\* (incoming_call_ringtone.js: start, arm, scheduleNextCycle, stop), what sounds is of
\* the call that rings now, and that call is being started or has its deadline.
THEOREM RingOfTheCall == Spec => [](which = "ringtone" => Ringtone!RingIsOfTheCall)
<1>1. RingtonePart => (which = "ringtone" => Ringtone!RingIsOfTheCall)
  BY DEF RingtonePart, RingtoneInv, RingInv, Own, Sounding, Followed, Ringtone!Current, Ringtone!RingIsOfTheCall
<1> QED  BY <1>1, RingtoneStart, RingtoneStep, PTL DEF Spec

\* The assistant page's own calls (assistant.js): what was cleaned up is never shown, rung or
\* active again and a microphone is a call's that goes on or of a setup under way; no answer
\* is applied to a restarted offer it does not answer; what rings is the call that rings now;
\* and the call of a link is placed once, whatever polls, setups and answers overlap.
THEOREM CallsStayOver == Spec => []NoStaleCall
<1> DEFINE All == LegacyPart /\ NegotiationPart /\ RingtonePart /\ PollPart
<1>1. Init => All
  BY LegacyStart, NegotiationStart, RingtoneStart, PollStart
<1>2. All /\ [Next]_vars => All'
  BY LegacyStep, NegotiationStep, RingtoneStep, PollStep
<1>3. All => NoStaleCall
  <2> SUFFICES ASSUME All PROVE NoStaleCall  OBVIOUS
  <2>1. which = "legacy" => Legacy!NoCallReturns /\ Legacy!MicrophoneAccounted  BY LegacyIs DEF LegacyPart
  <2>2. which = "negotiation" => Negotiation!AnswerMatchesOffer  BY NegotiationIs DEF NegotiationPart
  <2>3. which = "ringtone" => Ringtone!RingIsOfTheCall
    BY DEF RingtonePart, RingtoneInv, RingInv, Own, Sounding, Followed, Ringtone!Current, Ringtone!RingIsOfTheCall
  <2>4. which = "poll" => Poll!IntentsOnce  BY PollIs DEF PollPart
  <2> QED  BY <2>1, <2>2, <2>3, <2>4 DEF NoStaleCall
<1> QED
  <2> HIDE DEF All
  <2> QED  BY <1>1, <1>2, <1>3, PTL DEF Spec
=============================================================================
