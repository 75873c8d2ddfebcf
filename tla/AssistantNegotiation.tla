--------------------------- MODULE AssistantNegotiation ---------------------------
(***************************************************************************)
(* The negotiation of an accepted call of the assistant page (assistant.js): *)
(* the caller's ICE restarts, the callee's answers, and the candidates both *)
(* send, all through the record of the call that each side reads back.      *)
(* One call with its two pages; a description is its number at the server.  *)
(***************************************************************************)
EXTENDS Naturals

CONSTANT MaxOffers   \* bound on the offers of the call
NegotiationAssumption == MaxOffers \in Nat \ {0}

VARIABLES
  server,  \* external: offer_seq, answer_seq, and the sides whose candidates it has
  caller,  \* signalingState, its offer's number (0: not taken yet), remoteAnswerSeq, recovery
  callee,  \* remoteOfferSeq, the answer under way
  read,    \* what a refresh of each side has read of the record
  ice      \* remoteIce and pendingRemoteIce of each side

vars == <<server, caller, callee, read, ice>>
Sides == {"caller", "callee"}
NoRead == [offer |-> 0, answer |-> 0, ice |-> FALSE]

\* The first offer made the call and was answered: both are described.
Init ==
  /\ server = [offer |-> 1, answer |-> 1, ice |-> {}]
  /\ caller = [sig |-> "have-local-offer", mine |-> 1, answer |-> 0, applied |-> 0, recovery |-> "none"]
  /\ callee = [offer |-> 1, at |-> "none"]
  /\ read = [s \in Sides |-> NoRead]
  /\ ice = [s \in Sides |-> "none"]

-----------------------------------------------------------------------------
(* The caller: recoverIceConnection and publishIceRestart *)

\* The credentials or the connection call for a recovery; one at a time.
Recover ==
  /\ caller.recovery = "none"
  /\ caller' = [caller EXCEPT !.recovery = "servers"]
  /\ UNCHANGED <<server, callee, read, ice>>

\* With the new servers, a stable caller makes a new offer and sets it at once.
ServersReplied(ok) ==
  /\ caller.recovery = "servers"
  /\ caller' = IF ok /\ caller.sig = "stable" /\ server.offer < MaxOffers
               THEN [caller EXCEPT !.recovery = "offer", !.sig = "have-local-offer", !.mine = 0]
               ELSE [caller EXCEPT !.recovery = "none"]
  /\ UNCHANGED <<server, callee, read, ice>>

OfferServed ==
  /\ caller.recovery = "offer" /\ caller.mine = 0
  /\ server' = [server EXCEPT !.offer = @ + 1]
  /\ caller' = [caller EXCEPT !.mine = server.offer + 1]
  /\ UNCHANGED <<callee, read, ice>>

\* The reply, or the failure, of the offer's request ends the recovery.
OfferReplied ==
  /\ caller.recovery = "offer"
  /\ caller' = [caller EXCEPT !.recovery = "none"]
  /\ UNCHANGED <<server, callee, read, ice>>

-----------------------------------------------------------------------------
(* Both: requestCanonicalCallRefresh, applyCallNegotiation and applyRemoteIce *)

Read(s) ==
  /\ read[s] = NoRead
  /\ read' = [read EXCEPT ![s] = [offer |-> server.offer, answer |-> server.answer,
                                  ice |-> \E t \in server.ice : t # s]]
  /\ UNCHANGED <<server, caller, callee, ice>>

\* Mutant of Answers: any newer answer is taken, whatever offer it is of.
AnswersAny(r) == caller.sig = "have-local-offer" /\ r.answer >= caller.answer /\ r.answer # 0
\* The answer of the offer of the same number, when the caller waits for one.
Answers(r) == caller.sig = "have-local-offer" /\ r.answer = r.offer /\ r.answer > caller.answer

\* Candidates are applied with a remote description, else kept; a refused one is kept.
IceAfter(s, r, kept) ==
  IF ~r.ice THEN ice[s] ELSE IF kept /\ ice[s] # "applied" THEN "kept" ELSE "applied"

CallerApplies(kept) ==
  LET r == read["caller"] IN
  /\ r # NoRead
  /\ caller' = IF Answers(r) THEN [caller EXCEPT !.sig = "stable", !.answer = r.answer, !.applied = caller.mine]
               ELSE caller
  /\ ice' = [ice EXCEPT !["caller"] = IceAfter("caller", r, kept)]
  /\ read' = [read EXCEPT !["caller"] = NoRead]
  /\ UNCHANGED <<server, callee>>

\* A newer offer is described and answered; its number counts as seen before the
\* answer is taken by the server.
CalleeApplies(kept) ==
  LET r == read["callee"] IN
  /\ r # NoRead /\ callee.at = "none"
  /\ callee' = IF r.offer > callee.offer THEN [callee EXCEPT !.offer = r.offer, !.at = "answer"] ELSE callee
  /\ ice' = [ice EXCEPT !["callee"] = IceAfter("callee", r, kept)]
  /\ read' = IF r.offer > callee.offer THEN read ELSE [read EXCEPT !["callee"] = NoRead]
  /\ UNCHANGED <<server, caller>>

AnswerServed ==
  /\ callee.at = "answer"
  /\ server' = [server EXCEPT !.answer = server.offer]
  /\ callee' = [callee EXCEPT !.at = "served"]
  /\ UNCHANGED <<caller, read, ice>>

\* The reply, or the failure, of the answer's request ends the refresh.
AnswerReplied ==
  /\ callee.at # "none"
  /\ callee' = [callee EXCEPT !.at = "none"]
  /\ read' = [read EXCEPT !["callee"] = NoRead]
  /\ UNCHANGED <<server, caller, ice>>

\* A local candidate, sent at once or, before the call exists, with flushIce.
CandidateSent(s) ==
  /\ server' = [server EXCEPT !.ice = @ \cup {s}]
  /\ UNCHANGED <<caller, callee, read, ice>>

Next ==
  \/ Recover \/ OfferServed \/ OfferReplied \/ AnswerServed \/ AnswerReplied
  \/ \E ok \in BOOLEAN : ServersReplied(ok) \/ CallerApplies(ok) \/ CalleeApplies(ok)
  \/ \E s \in Sides : Read(s) \/ CandidateSent(s)

Spec == Init /\ [][Next]_vars

-----------------------------------------------------------------------------
TypeOK ==
  /\ server \in [offer : 1 .. MaxOffers, answer : 0 .. MaxOffers, ice : SUBSET Sides]
  /\ caller \in [sig : {"stable", "have-local-offer"}, mine : 0 .. MaxOffers, answer : 0 .. MaxOffers,
                 applied : 0 .. MaxOffers, recovery : {"none", "servers", "offer"}]
  /\ callee \in [offer : 1 .. MaxOffers, at : {"none", "answer", "served"}]
  /\ read \in [Sides -> [offer : 0 .. MaxOffers, answer : 0 .. MaxOffers, ice : BOOLEAN]]
  /\ ice \in [Sides -> {"none", "kept", "applied"}]

\* The answer the caller has applied is the one of the offer it had set: an old
\* answer, read back late, never answers a restart.
AnswerMatchesOffer == caller.answer # 0 => caller.applied = caller.answer
=============================================================================
