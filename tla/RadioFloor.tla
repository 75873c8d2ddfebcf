----------------------------- MODULE RadioFloor -----------------------------
(***************************************************************************)
(* Push-to-talk in one Group Radio session: the distributed floor of       *)
(* app/group_v3/radio_floor.py (a Valkey key with a lease), the bursts and *)
(* participants of radio_service.py (database rows), the handlers of       *)
(* radio_router.py that keep the two in step, and the background           *)
(* reconciliation.                                                         *)
(*                                                                         *)
(* A service method is one database transaction without an await: one      *)
(* atomic step.  A handler interleaves with everything else at its Valkey  *)
(* command, which runs on another machine, may fail after it was applied,  *)
(* and is seen by the handler only later.  The commands compare the token  *)
(* they act for, and a token that lost the floor never holds it again, so  *)
(* the GET before a compare-and-delete script adds no behaviour and each   *)
(* release is one step.                                                    *)
(*                                                                         *)
(* A token names a floor token and the burst recorded for it.  What        *)
(* becomes of a closed burst's job is RadioProcessing's.                   *)
(***************************************************************************)
EXTENDS Naturals, FiniteSets

CONSTANTS
    Members,          \* memberships of the space
    Owner, Creator,   \* the space's owner; who created the radio session
    Tokens,           \* floor tokens, each issued once: bounds the acquisitions
    Requests,         \* handlers in flight at once
    MaxParticipants,  \* settings.group_media_max_participants
    TranslationEnabled,  \* settings.group_translation_enabled
    None

ASSUME MembersAssumption == Owner \in Members /\ Creator \in Members
ASSUME TokensAssumption == None \notin Tokens /\ None \notin Members
ASSUME SettingsAssumption == MaxParticipants \in Nat /\ TranslationEnabled \in BOOLEAN

VARIABLES
    session,  \* GroupRadioSession.status
    members,  \* the active memberships
    part,     \* GroupRadioParticipant.status, "none" without a row
    ready,    \* the participants whose device_state is ready
    floor,    \* the token stored under the session's floor key
    speaker,  \* who a token was issued to
    burst,    \* GroupRadioBurst.state, "none" without a row
    job,      \* GroupRadioProcessingJob.status, "none" without a row
    req,      \* each handler: its place, its actor and its token
    recon     \* reconcile_device_loss: candidates to look up, losses found

dbVars == <<session, members, part, ready, burst, job>>
vars == <<session, members, part, ready, floor, speaker, burst, job, req, recon>>

PartStates == {"none", "invited", "joined", "left", "removed"}
BurstStates == {"none", "talking", "finalizing", "final", "device_lost", "failed"}
JobStates == {"none", "ready", "completed", "suppressed"}

(* Places of a handler: before its Valkey command and after it.            *)
BeforeValkey == {"acquiring", "undoing", "beating", "stopping", "losing", "leaving",
                 "removing", "ending"}
AfterValkey == {"acquired", "stopped", "lost", "left", "clear"}
Idle == [pc |-> "idle", m |-> None, t |-> None]
ReconIdle == [pc |-> "idle", todo |-> {}, lost |-> {}]

Talking == {t \in Tokens : burst[t] = "talking"}
TalkingOf(m) == {t \in Talking : speaker[t] = m}
JoinedMembers == {m \in Members : part[m] = "joined"}

(* What floor_context, record_burst and issue_media_grant require.         *)
MayTalk(m) ==
    m \in members /\ session = "ready" /\ part[m] = "joined" /\ m \in ready

Init ==
    /\ session = "ready" /\ members = Members
    /\ part \in {f \in [Members -> {"none", "invited", "joined"}] :
                    \A m \in Members : f[m] = "joined" <=> m = Creator}
    /\ ready = Members
    /\ floor = None
    /\ speaker = [t \in Tokens |-> None]
    /\ burst = [t \in Tokens |-> "none"]
    /\ job = [t \in Tokens |-> "none"]
    /\ req = [r \in Requests |-> Idle]
    /\ recon = ReconIdle

At(r, pc) == req[r].pc = pc
Goto(r, pc) == req' = [req EXCEPT ![r].pc = pc]
Return(r) == req' = [req EXCEPT ![r] = Idle]
Begin(r, pc, m, t) ==
    req[r] = Idle /\ req' = [req EXCEPT ![r] = [pc |-> pc, m |-> m, t |-> t]]

-----------------------------------------------------------------------------
(* Participants.                                                           *)

Join(m) ==
    /\ m \in members /\ session = "ready"
    /\ part[m] # "joined" => Cardinality(JoinedMembers) < MaxParticipants
    /\ part' = [part EXCEPT ![m] = "joined"]
    /\ ready' = ready \cup {m}
    /\ UNCHANGED <<session, members, floor, speaker, burst, job, req, recon>>

Reject(m) ==
    /\ m \in members /\ session = "ready" /\ part[m] = "invited"
    /\ part' = [part EXCEPT ![m] = "left"]
    /\ UNCHANGED <<session, members, ready, floor, speaker, burst, job, req, recon>>

(* Mutant: the bursts are closed before their jobs are looked for. *)
RemoveMemberBurstsFirst(r, m) ==
    /\ Owner \in members /\ m \in members \ {Owner}
    /\ members' = members \ {m}
    /\ IF part[m] \in {"invited", "joined"}
       THEN part' = [part EXCEPT ![m] = "removed"] /\ ready' = ready \ {m}
       ELSE UNCHANGED <<part, ready>>
    /\ burst' = [t \in Tokens |-> IF speaker[t] = m /\ burst[t] \in {"talking", "finalizing"}
                                  THEN "device_lost" ELSE burst[t]]
    /\ Begin(r, "removing", m, None)
    /\ UNCHANGED <<session, floor, speaker, job, recon>>

(* update_member with status removed: one transaction closes the member's  *)
(* open bursts and suppresses their jobs; then the handler releases the    *)
(* floor the member may hold, and ignores a failure to.                    *)
RemoveMember(r, m) ==
    LET open == {t \in Tokens : speaker[t] = m /\ burst[t] \in {"talking", "finalizing"}}
    IN  /\ Owner \in members /\ m \in members \ {Owner}
        /\ members' = members \ {m}
        /\ IF part[m] \in {"invited", "joined"}
           THEN part' = [part EXCEPT ![m] = "removed"] /\ ready' = ready \ {m}
           ELSE UNCHANGED <<part, ready>>
        /\ burst' = [t \in Tokens |-> IF t \in open THEN "device_lost" ELSE burst[t]]
        /\ job' = [t \in Tokens |-> IF t \in open /\ job[t] = "ready"
                                    THEN "suppressed" ELSE job[t]]
        /\ Begin(r, "removing", m, None)
        /\ UNCHANGED <<session, floor, speaker, recon>>

(* An accepted invitation (or add_member, outside production) makes the    *)
(* membership active again.                                                *)
AddMember(m) ==
    /\ Owner \in members /\ m \notin members
    /\ members' = members \cup {m}
    /\ UNCHANGED <<session, part, ready, floor, speaker, burst, job, req, recon>>

(* GroupService.delete_space: nothing is said of bursts and jobs.          *)
DeleteSpace ==
    /\ Owner \in members
    /\ members' = {} /\ session' = "ended" /\ ready' = {}
    /\ part' = [m \in Members |-> IF part[m] = "none" THEN "none" ELSE "removed"]
    /\ UNCHANGED <<floor, speaker, burst, job, req, recon>>

-----------------------------------------------------------------------------
(* The floor key.  What the command of handler r makes of it.              *)
FloorAfter(r) ==
    CASE At(r, "acquiring") -> IF floor = None THEN req[r].t ELSE floor
      [] req[r].pc \in {"leaving", "removing"} ->
             IF floor # None /\ speaker[floor] = req[r].m THEN None ELSE floor
      [] At(r, "ending") -> floor
      [] OTHER -> IF floor = req[r].t THEN None ELSE floor

(* DistributedRadioFloor.acquire: SET NX PX.                               *)
AcquireSet(r) ==
    /\ At(r, "acquiring")
    /\ floor' = FloorAfter(r)
    /\ IF floor = None THEN Goto(r, "acquired") ELSE Return(r)
    /\ UNCHANGED <<dbVars, speaker, recon>>

(* DistributedRadioFloor.release for stop and device-lost: a floor that is *)
(* not owned any more does not stop the handler.                           *)
Release(r) ==
    /\ req[r].pc \in {"stopping", "losing"}
    /\ floor' = FloorAfter(r)
    /\ Goto(r, IF At(r, "stopping") THEN "stopped" ELSE "lost")
    /\ UNCHANGED <<dbVars, speaker, recon>>

UndoAcquire(r) ==
    /\ At(r, "undoing")
    /\ floor' = FloorAfter(r)
    /\ Return(r)
    /\ UNCHANGED <<dbVars, speaker, recon>>

(* DistributedRadioFloor.heartbeat past the deadline: the script deletes   *)
(* the key and the handler goes on as a stop.                              *)
HeartbeatPastDeadline(r) ==
    /\ At(r, "beating") /\ floor = req[r].t
    /\ floor' = None
    /\ Goto(r, "stopped")
    /\ UNCHANGED <<dbVars, speaker, recon>>

(* A heartbeat that extends the lease, or finds the floor not owned.       *)
HeartbeatReturns(r) ==
    /\ At(r, "beating") /\ Return(r)
    /\ UNCHANGED <<dbVars, floor, speaker, recon>>

(* DistributedRadioFloor.release_membership.                               *)
ReleaseMembership(r) ==
    /\ req[r].pc \in {"leaving", "removing"}
    /\ floor' = FloorAfter(r)
    /\ IF At(r, "leaving") THEN Goto(r, "left") ELSE Return(r)
    /\ UNCHANGED <<dbVars, speaker, recon>>

(* end-for-all looks at the floor, and refuses while somebody holds it.    *)
EndSnapshot(r) ==
    /\ At(r, "ending")
    /\ IF floor = None THEN Goto(r, "clear") ELSE Return(r)
    /\ UNCHANGED <<dbVars, floor, speaker, recon>>

(* RedisError: the handler raises, whether or not the command took effect. *)
ValkeyFails(r) ==
    /\ req[r].pc \in BeforeValkey
    /\ floor' \in {floor, FloorAfter(r)}
    /\ Return(r)
    /\ UNCHANGED <<dbVars, speaker, recon>>

LeaseExpires ==
    /\ floor # None
    /\ floor' = None
    /\ UNCHANGED <<dbVars, speaker, req, recon>>

-----------------------------------------------------------------------------
(* acquire_radio_floor: floor_context, SET, record_burst; the floor is     *)
(* given back when the burst is refused.                                   *)
Acquire(r, m, t) ==
    /\ MayTalk(m) /\ speaker[t] = None
    /\ Begin(r, "acquiring", m, t)
    /\ speaker' = [speaker EXCEPT ![t] = m]
    /\ UNCHANGED <<dbVars, floor, recon>>

(* Mutant: the burst still talking is not looked for. *)
RecordBurstUnchecked(r) ==
    /\ At(r, "acquired") /\ MayTalk(req[r].m)
    /\ burst' = [burst EXCEPT ![req[r].t] = "talking"]
    /\ Return(r)
    /\ UNCHANGED <<session, members, part, ready, floor, speaker, job, recon>>

RecordBurst(r) ==
    /\ At(r, "acquired")
    /\ MayTalk(req[r].m) /\ Talking = {}
    /\ burst' = [burst EXCEPT ![req[r].t] = "talking"]
    /\ Return(r)
    /\ UNCHANGED <<session, members, part, ready, floor, speaker, job, recon>>

RecordRefused(r) ==
    /\ At(r, "acquired")
    /\ ~MayTalk(req[r].m) \/ Talking # {}
    /\ Goto(r, "undoing")
    /\ UNCHANGED <<dbVars, floor, speaker, recon>>

(* heartbeat, stop and device-lost start from burst_for_token; on a burst  *)
(* that is closed they change nothing.                                     *)
TokenRequest(r, pc, t) ==
    /\ burst[t] = "talking" /\ speaker[t] \in members
    /\ Begin(r, pc, speaker[t], t)
    /\ UNCHANGED <<dbVars, floor, speaker, recon>>

Close(t, state, jobState) ==
    /\ burst' = [burst EXCEPT ![t] = state]
    /\ job' = [job EXCEPT ![t] = jobState]

(* Mutant: a burst that is closed by now is closed again. *)
StopBurstAgain(r) ==
    /\ At(r, "stopped")
    /\ IF req[r].m \in members
       THEN IF TranslationEnabled THEN Close(req[r].t, "finalizing", "ready")
                                  ELSE Close(req[r].t, "final", "completed")
       ELSE UNCHANGED <<burst, job>>
    /\ Return(r)
    /\ UNCHANGED <<session, members, part, ready, floor, speaker, recon>>

StopBurst(r) ==
    /\ At(r, "stopped")
    /\ IF req[r].m \in members /\ burst[req[r].t] = "talking"
       THEN IF TranslationEnabled THEN Close(req[r].t, "finalizing", "ready")
                                  ELSE Close(req[r].t, "final", "completed")
       ELSE UNCHANGED <<burst, job>>
    /\ Return(r)
    /\ UNCHANGED <<session, members, part, ready, floor, speaker, recon>>

DeviceLost(r) ==
    /\ At(r, "lost")
    /\ IF req[r].m \in members /\ burst[req[r].t] = "talking"
       THEN Close(req[r].t, "device_lost", "suppressed") /\ ready' = ready \ {req[r].m}
       ELSE UNCHANGED <<burst, job, ready>>
    /\ Return(r)
    /\ UNCHANGED <<session, members, part, floor, speaker, recon>>

(* leave: leave_context, release_membership, then the transaction.         *)
Leave(r, m) ==
    /\ m \in members /\ part[m] # "none"
    /\ Begin(r, "leaving", m, None)
    /\ UNCHANGED <<dbVars, floor, speaker, recon>>

(* Mutant: the defensive closure of the leaver's bursts is left out. *)
LeaveCommitKeepsBursts(r) ==
    LET m == req[r].m
    IN  /\ At(r, "left")
        /\ IF m \in members /\ part[m] # "left"
           THEN part' = [part EXCEPT ![m] = "left"]
           ELSE UNCHANGED part
        /\ Return(r)
        /\ UNCHANGED <<session, members, ready, floor, speaker, burst, job, recon>>

(* Mutant: the reason of the closure is written where the state belongs. *)
LeaveCommitSwapsFields(r) ==
    LET m == req[r].m
    IN  /\ At(r, "left")
        /\ IF m \in members /\ part[m] # "left"
           THEN /\ part' = [part EXCEPT ![m] = "left"]
                /\ burst' = [t \in Tokens |-> IF t \in TalkingOf(m)
                                              THEN "left_without_clip" ELSE burst[t]]
           ELSE UNCHANGED <<part, burst>>
        /\ Return(r)
        /\ UNCHANGED <<session, members, ready, floor, speaker, job, recon>>

LeaveCommit(r) ==
    LET m == req[r].m
    IN  /\ At(r, "left")
        /\ IF m \in members /\ part[m] # "left"
           THEN /\ part' = [part EXCEPT ![m] = "left"]
                /\ burst' = [t \in Tokens |-> IF t \in TalkingOf(m) THEN "failed" ELSE burst[t]]
           ELSE UNCHANGED <<part, burst>>
        /\ Return(r)
        /\ UNCHANGED <<session, members, ready, floor, speaker, job, recon>>

(* end-for-all: the snapshot comes first, the permission with the commit.  *)
EndForAll(r, m) ==
    /\ m \in members
    /\ Begin(r, "ending", m, None)
    /\ UNCHANGED <<dbVars, floor, speaker, recon>>

EndCommit(r) ==
    /\ At(r, "clear")
    /\ IF req[r].m \in members \cap {Owner, Creator} /\ session # "ended"
       THEN /\ session' = "ended"
            /\ part' = [m \in Members |-> IF part[m] = "joined" THEN "left" ELSE part[m]]
       ELSE UNCHANGED <<session, part>>
    /\ Return(r)
    /\ UNCHANGED <<members, ready, floor, speaker, burst, job, recon>>

-----------------------------------------------------------------------------
(* reconcile_device_loss, run by the 30-second loop: collect the talking   *)
(* bursts older than group_radio_device_lost_seconds, look each floor up,  *)
(* then close the bursts whose participant did not hold it.  Age is left   *)
(* open: any of the talking bursts may be old enough.                      *)
ReconcileStart(S) ==
    /\ recon = ReconIdle /\ S # {} /\ S \subseteq Talking
    /\ recon' = [pc |-> "looking", todo |-> S, lost |-> {}]
    /\ UNCHANGED <<dbVars, floor, speaker, req>>

(* Mutant: a floor nobody holds is not taken for a lost device. *)
ReconcileLookFreeIsFine(t) ==
    /\ recon.pc = "looking" /\ t \in recon.todo
    /\ recon' = [recon EXCEPT
                   !.todo = @ \ {t},
                   !.lost = IF floor # None /\ speaker[floor] # speaker[t]
                            THEN @ \cup {t} ELSE @]
    /\ UNCHANGED <<dbVars, floor, speaker, req>>

ReconcileLook(t) ==
    /\ recon.pc = "looking" /\ t \in recon.todo
    /\ recon' = [recon EXCEPT
                   !.todo = @ \ {t},
                   !.lost = IF floor # None /\ speaker[floor] = speaker[t]
                            THEN @ ELSE @ \cup {t}]
    /\ UNCHANGED <<dbVars, floor, speaker, req>>

(* A RedisError ends the whole pass, the losses already found included.    *)
ReconcileFails ==
    /\ recon.pc = "looking" /\ recon.todo # {}
    /\ recon' = ReconIdle
    /\ UNCHANGED <<dbVars, floor, speaker, req>>

(* Mutant: the state of the burst is not read again. *)
ReconcileApplyBlindly ==
    /\ recon.pc = "looking" /\ recon.todo = {}
    /\ burst' = [t \in Tokens |-> IF t \in recon.lost THEN "device_lost" ELSE burst[t]]
    /\ job' = [t \in Tokens |-> IF t \in recon.lost THEN "suppressed" ELSE job[t]]
    /\ ready' = ready \ {speaker[t] : t \in recon.lost}
    /\ recon' = ReconIdle
    /\ UNCHANGED <<session, members, part, floor, speaker, req>>

ReconcileApply ==
    LET closed == recon.lost \cap Talking
    IN  /\ recon.pc = "looking" /\ recon.todo = {}
        /\ burst' = [t \in Tokens |-> IF t \in closed THEN "device_lost" ELSE burst[t]]
        /\ job' = [t \in Tokens |-> IF t \in closed THEN "suppressed" ELSE job[t]]
        /\ ready' = ready \ {speaker[t] : t \in closed}
        /\ recon' = ReconIdle
        /\ UNCHANGED <<session, members, part, floor, speaker, req>>

(* The process stops: handlers and the pass are lost, the database and the *)
(* floor key are not.                                                      *)
Crash ==
    /\ req' = [r \in Requests |-> Idle]
    /\ recon' = ReconIdle
    /\ UNCHANGED <<dbVars, floor, speaker>>

-----------------------------------------------------------------------------
Call(r) ==
    \/ \E m \in Members, t \in Tokens : Acquire(r, m, t)
    \/ \E t \in Tokens, pc \in {"beating", "stopping", "losing"} : TokenRequest(r, pc, t)
    \/ \E m \in Members : Leave(r, m) \/ EndForAll(r, m) \/ RemoveMember(r, m)

Command(r) ==
    \/ AcquireSet(r) \/ Release(r) \/ UndoAcquire(r)
    \/ HeartbeatPastDeadline(r) \/ HeartbeatReturns(r)
    \/ ReleaseMembership(r) \/ EndSnapshot(r) \/ ValkeyFails(r)

Commit(r) ==
    \/ RecordBurst(r) \/ RecordRefused(r) \/ StopBurst(r) \/ DeviceLost(r)
    \/ LeaveCommit(r) \/ EndCommit(r)

Next ==
    \/ \E r \in Requests : Call(r) \/ Command(r) \/ Commit(r)
    \/ \E m \in Members : Join(m) \/ Reject(m) \/ AddMember(m)
    \/ \E S \in SUBSET Tokens : ReconcileStart(S)
    \/ \E t \in Tokens : ReconcileLook(t)
    \/ ReconcileFails \/ ReconcileApply
    \/ DeleteSpace \/ LeaseExpires \/ Crash

Spec == Init /\ [][Next]_vars

(* Leases expire; the loop starts a pass that includes every burst old     *)
(* enough, and Valkey answers again in the end (SF on a lookup that        *)
(* failures may interrupt).  The tokens bound how often a client asks for  *)
(* the floor, hence how often its own retries can hide its old burst.      *)
Fairness ==
    /\ WF_vars(LeaseExpires)
    /\ \A t \in Tokens :
         /\ WF_vars(\E S \in SUBSET Tokens : t \in S /\ ReconcileStart(S))
         /\ SF_vars(ReconcileLook(t))
    /\ SF_vars(ReconcileApply)
    /\ \A r \in Requests : WF_vars(Command(r)) /\ WF_vars(Commit(r))

FairSpec == Spec /\ Fairness

-----------------------------------------------------------------------------
(* Types of the rows, the floor key and the handlers (models.py, radio).   *)
TypeOK ==
    /\ session \in {"ready", "ended"}
    /\ members \subseteq Members /\ ready \subseteq Members
    /\ part \in [Members -> PartStates]
    /\ floor \in Tokens \cup {None}
    /\ speaker \in [Tokens -> Members \cup {None}]
    /\ burst \in [Tokens -> BurstStates] /\ job \in [Tokens -> JobStates]
    /\ req \in [Requests -> [pc : {"idle"} \cup BeforeValkey \cup AfterValkey,
                             m : Members \cup {None}, t : Tokens \cup {None}]]
    /\ recon \in [pc : {"idle", "looking"}, todo : SUBSET Tokens, lost : SUBSET Tokens]

(* One burst talks at a time, though stop releases the floor before it     *)
(* closes its burst and the next speaker may hold the floor by then.       *)
OneTalkingBurst == \A t, u \in Talking : t = u

(* While the session runs, whoever has a talking burst is a joined         *)
(* participant with a live device: leaving or being removed between the    *)
(* floor and the burst never leaves a burst of somebody who is gone.       *)
SpeakerIsPresent == \A t \in Talking : session = "ready" => MayTalk(speaker[t])

(* Both: at most one person is heard, and the person is there.             *)
OnePresentSpeaker == OneTalkingBurst /\ SpeakerIsPresent

(* A burst gets its processing job when it is closed and only once, the    *)
(* job agrees with how it was closed, and a burst that was lost is never   *)
(* processed: stop, device-lost, leave, removal and the reconciliation     *)
(* race to close the same burst.                                           *)
JobMatchesBurst ==
    \A t \in Tokens :
        /\ burst[t] \in {"none", "talking", "failed"} => job[t] = "none"
        /\ burst[t] = "finalizing" => job[t] = "ready"
        /\ burst[t] = "final" => job[t] = "completed"
        /\ burst[t] = "device_lost" => job[t] \in {"none", "suppressed"}

(* The first to close a burst decides: a closed burst never talks again    *)
(* and no later closer relabels it, except that removing the speaker       *)
(* cancels what was still being finalised.                                 *)
FirstCloserDecides ==
    [][\A t \in Tokens :
          burst[t] \notin {"none", "talking"} =>
             \/ burst'[t] = burst[t]
             \/ burst[t] = "finalizing" /\ speaker[t] \in members \ members']_vars

(* The rows of the session as the turns of RadioTurns.                     *)
Present == {m \in members : part[m] = "joined" /\ m \in ready}
Turns == INSTANCE RadioTurns WITH
           People <- Members, Clips <- Tokens,
           open <- session = "ready", present <- Present,
           turn <- {[by |-> speaker[t], clip |-> t] : t \in Talking},
           spent <- {t \in Tokens : burst[t] # "none"},
           waiting <- {t \in Tokens : job[t] = "ready"}

(* Push-to-talk implements the turns: every transaction of a handler, of   *)
(* the removal and of the reconciliation begins, ends or leaves alone one  *)
(* turn, and only what ends a turn puts its clip up for processing.        *)
OneTurnAfterAnother == Turns!TurnsSpec

(* No burst talks for ever: whatever handler died, lost its floor or met a *)
(* Valkey error, the burst is closed in the end.                           *)
TalkingEnds == \A t \in Tokens : burst[t] = "talking" ~> burst[t] # "talking"

(* What end-for-all's refusal group_radio_stop_burst_before_end says: the  *)
(* session ends only when no burst is talking.                             *)
EndedAfterBursts ==
    [][session = "ready" /\ session' = "ended" /\ members' # {} => Talking = {}]_vars
=============================================================================
