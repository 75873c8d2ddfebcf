-------------------------- MODULE RadioProcessing --------------------------
(***************************************************************************)
(* What becomes of one speaker's Radio bursts after the floor is released: *)
(* the upload of the clip (submit_radio_voice: one transcription, then the *)
(* translation into the listeners' languages) and the target-language      *)
(* reservations against the speaker's monthly quota ledger (reserve,       *)
(* release, finalize, expiry) of app/group_v3/translation_service.py.      *)
(* Both pipelines write GroupRadioBurst.state and the processing job, and  *)
(* so does the removal of the speaker.                                     *)
(*                                                                         *)
(* Each transaction is one step; an upload interleaves at the provider     *)
(* calls it awaits.  A refused request changes nothing and is no step.     *)
(***************************************************************************)
EXTENDS Naturals, FiniteSets, FiniteSetsExt

CONSTANTS
    Bursts,   \* closed bursts of one speaker
    Targets,  \* the target languages planned for them
    Uploads,  \* clip uploads in flight at once
    Seconds,  \* estimates a client may reserve
    Limit,    \* group_translation_monthly_audio_target_seconds
    None

ASSUME SecondsAssumption == Seconds \subseteq Nat \ {0} /\ Limit \in Nat
ASSUME NoneAssumption == None \notin Bursts

VARIABLES
    session,  \* GroupRadioSession.status
    active,   \* the speaker's membership is active
    part,     \* GroupRadioParticipant.status of the speaker
    burst,    \* GroupRadioBurst.state
    job,      \* GroupRadioProcessingJob.status, "none" without a row
    slot,     \* GroupTranslationReservation of a burst and a target
    held,     \* ledger.reserved_target_seconds
    used,     \* ledger.consumed_target_seconds
    heard,    \* how often the provider transcribed the burst's clip
    upload    \* each upload: its place and its burst

speakerVars == <<session, active, part>>
quotaVars == <<slot, held, used>>
vars == <<session, active, part, burst, job, slot, held, used, heard, upload>>

Slots == Bursts \X Targets
SlotStates == {"none", "reserved", "released", "expired", "settled"}
BurstStates == {"finalizing", "final", "device_lost", "failed"}
JobStates == {"none", "ready", "processing", "completed", "failed", "suppressed"}

Idle == [pc |-> "idle", b |-> None]
NoSlot == [status |-> "none", seconds |-> 0, due |-> FALSE]
Reserved == {s \in Slots : slot[s].status = "reserved"}
Due == {s \in Reserved : slot[s].due}
SecondsOf(S) == MapThenSumSet(LAMBDA s : slot[s].seconds, S)

(* How stop, device-lost and leave close a burst.                          *)
ClosedPairs == {<<"finalizing", "ready">>, <<"device_lost", "suppressed">>, <<"failed", "none">>}

Init ==
    /\ session = "ready" /\ active = TRUE /\ part = "joined"
    /\ \E closed \in [Bursts -> ClosedPairs] :
         /\ burst = [b \in Bursts |-> closed[b][1]]
         /\ job = [b \in Bursts |-> closed[b][2]]
    /\ slot = [s \in Slots |-> NoSlot]
    /\ held = 0 /\ used = 0
    /\ heard = [b \in Bursts |-> 0]
    /\ upload = [u \in Uploads |-> Idle]

-----------------------------------------------------------------------------
(* Giving reservations back.                                               *)

Less(n, d) == IF d > n THEN 0 ELSE n - d

BurstsAfter(S) ==
    [b \in Bursts |-> IF burst[b] = "finalizing" /\ \E s \in S : s[1] = b
                      THEN "final" ELSE burst[b]]
JobsAfter(S) ==
    [b \in Bursts |-> IF job[b] \in {"ready", "processing"} /\ \E s \in S : s[1] = b
                      THEN "failed" ELSE job[b]]
SlotsAfter(S, status) ==
    [s \in Slots |-> IF s \in S THEN [slot[s] EXCEPT !.status = status] ELSE slot[s]]

GiveBack(S, status) ==
    /\ slot' = SlotsAfter(S, status)
    /\ held' = Less(held, SecondsOf(S))
    /\ burst' = BurstsAfter(S)
    /\ job' = JobsAfter(S)
    /\ UNCHANGED used

(* Mutant: the state of the reservation is not looked at. *)
ReleaseAnyState(s) ==
    /\ active /\ slot[s].status # "none"
    /\ GiveBack({s}, "released")
    /\ UNCHANGED <<speakerVars, heard, upload>>

(* Mutant: the burst is left as it is. *)
ReleaseKeepsBurst(s) ==
    /\ active /\ s \in Reserved
    /\ slot' = SlotsAfter({s}, "released") /\ held' = Less(held, SecondsOf({s}))
    /\ job' = JobsAfter({s})
    /\ UNCHANGED <<speakerVars, used, burst, heard, upload>>

(* release: asked for by the client, or by client-secret when the provider *)
(* failed.  The reservation may by then be a later one of the same row.    *)
Release(s) ==
    /\ active /\ s \in Reserved
    /\ GiveBack({s}, "released")
    /\ UNCHANGED <<speakerVars, heard, upload>>

(* expires_at passes.                                                      *)
TimePasses(s) ==
    /\ s \in Reserved /\ ~slot[s].due
    /\ slot' = [slot EXCEPT ![s].due = TRUE]
    /\ UNCHANGED <<speakerVars, burst, job, held, used, heard, upload>>

(* Mutant: only the reservations of a running session expire. *)
SweepRunningOnly ==
    /\ Due # {} /\ session = "ready"
    /\ GiveBack(Due, "expired")
    /\ UNCHANGED <<speakerVars, heard, upload>>

(* reconcile_expired, every 30 seconds.                                    *)
Sweep ==
    /\ Due # {}
    /\ GiveBack(Due, "expired")
    /\ UNCHANGED <<speakerVars, heard, upload>>

-----------------------------------------------------------------------------
(* _require_media_runtime for a burst.                                     *)
Runs(b) ==
    /\ active /\ session = "ready" /\ part = "joined"
    /\ burst[b] \in {"finalizing", "final"}

(* Mutant: what is held already is left out of the sum. *)
ReserveUncounted(s, n) ==
    LET b == s[1]
    IN  /\ Runs(b)
        /\ slot[s].status \notin {"reserved", "settled"} \/ s \in Due
        /\ used + n <= Limit
        /\ job[b] \in {"ready", "processing", "failed", "completed"}
        /\ slot' = [SlotsAfter(Due, "expired") EXCEPT
                      ![s] = [status |-> "reserved", seconds |-> n, due |-> FALSE]]
        /\ held' = Less(held, SecondsOf(Due)) + n
        /\ burst' = [BurstsAfter(Due) EXCEPT ![b] = "finalizing"]
        /\ job' = [JobsAfter(Due) EXCEPT ![b] = "processing"]
        /\ UNCHANGED <<speakerVars, used, heard, upload>>

(* reserve: expired reservations go first, a released or expired one of    *)
(* the same target is used again.                                          *)
Reserve(s, n) ==
    LET b == s[1]
        rest == Less(held, SecondsOf(Due))
    IN  /\ Runs(b)
        /\ slot[s].status \notin {"reserved", "settled"} \/ s \in Due
        /\ used + rest + n <= Limit
        /\ job[b] \in {"ready", "processing", "failed", "completed"}
        /\ slot' = [SlotsAfter(Due, "expired") EXCEPT
                      ![s] = [status |-> "reserved", seconds |-> n, due |-> FALSE]]
        /\ held' = rest + n
        /\ burst' = [BurstsAfter(Due) EXCEPT ![b] = "finalizing"]
        /\ job' = [JobsAfter(Due) EXCEPT ![b] = "processing"]
        /\ UNCHANGED <<speakerVars, used, heard, upload>>

(* finalize: the final text arrives before expires_at, for no more seconds *)
(* than were reserved.                                                     *)
Finalize(s, n) ==
    LET b == s[1]
    IN  /\ s \in Reserved \ Due /\ n <= slot[s].seconds /\ Runs(b)
        /\ slot' = [slot EXCEPT ![s].status = "settled", ![s].seconds = n]
        /\ held' = Less(held, slot[s].seconds)
        /\ used' = used + n
        /\ burst' = [burst EXCEPT ![b] = "final"]
        /\ job' = [job EXCEPT ![b] = IF @ = "none" THEN "none" ELSE "completed"]
        /\ UNCHANGED <<speakerVars, heard, upload>>

-----------------------------------------------------------------------------
(* The clip.  submit_radio_voice claims the job by compare-and-set, then   *)
(* transcribes, makes the segment and waits for its translations.          *)
At(u, pc, b) == upload[u] = [pc |-> pc, b |-> b]
Goto(u, pc, b) == upload' = [upload EXCEPT ![u] = [pc |-> pc, b |-> b]]
Return(u) == upload' = [upload EXCEPT ![u] = Idle]

(* Mutant: the job's status is not compared. *)
ClaimUnchecked(u, b) ==
    /\ upload[u] = Idle /\ active /\ job[b] \in {"ready", "processing"}
    /\ job' = [job EXCEPT ![b] = "processing"]
    /\ Goto(u, "claimed", b)
    /\ UNCHANGED <<speakerVars, quotaVars, burst, heard>>

Claim(u, b) ==
    /\ upload[u] = Idle /\ active /\ job[b] = "ready"
    /\ job' = [job EXCEPT ![b] = "processing"]
    /\ Goto(u, "claimed", b)
    /\ UNCHANGED <<speakerVars, quotaVars, burst, heard>>

Transcribe(u, b) ==
    /\ At(u, "claimed", b) /\ active
    /\ heard' = [heard EXCEPT ![b] = @ + 1]
    /\ Goto(u, "transcribing", b)
    /\ UNCHANGED <<speakerVars, quotaVars, burst, job>>

MakeSegment(u, b) ==
    /\ At(u, "transcribing", b) /\ active
    /\ Goto(u, "translating", b)
    /\ UNCHANGED <<speakerVars, quotaVars, burst, job, heard>>

(* Mutant: the segment's state is written as the burst's. *)
UploadDoneRaw(u, b) ==
    /\ At(u, "translating", b) /\ active
    /\ \E result \in {"FINAL", "PARTIAL", "FAILED"} : burst' = [burst EXCEPT ![b] = result]
    /\ job' = [job EXCEPT ![b] = IF @ = "none" THEN "none" ELSE "completed"]
    /\ Return(u)
    /\ UNCHANGED <<speakerVars, quotaVars, heard>>

(* The last write looks neither at the burst nor at the job.               *)
UploadDone(u, b) ==
    /\ At(u, "translating", b) /\ active
    /\ \E result \in {"final", "failed"} : burst' = [burst EXCEPT ![b] = result]
    /\ job' = [job EXCEPT ![b] = IF @ = "none" THEN "none" ELSE "completed"]
    /\ Return(u)
    /\ UNCHANGED <<speakerVars, quotaVars, heard>>

(* Any exception: an invalid clip, a provider failure, consent revoked, or *)
(* a membership that is no longer active.                                  *)
UploadFails(u, b) ==
    /\ \E pc \in {"claimed", "transcribing", "translating"} : At(u, pc, b)
    /\ burst' = [burst EXCEPT ![b] = "failed"]
    /\ job' = [job EXCEPT ![b] = IF @ = "processing" THEN "failed" ELSE @]
    /\ Return(u)
    /\ UNCHANGED <<speakerVars, quotaVars, heard>>

Discard(b) ==
    /\ active /\ job[b] = "ready"
    /\ burst' = [burst EXCEPT ![b] = "failed"]
    /\ job' = [job EXCEPT ![b] = "failed"]
    /\ UNCHANGED <<speakerVars, quotaVars, heard, upload>>

-----------------------------------------------------------------------------
(* The speaker and the session, as far as the guards above read them.      *)
Leave ==
    /\ active /\ part # "left" /\ part' = "left"
    /\ UNCHANGED <<session, active, burst, job, quotaVars, heard, upload>>

Join ==
    /\ active /\ session = "ready" /\ part # "joined" /\ part' = "joined"
    /\ UNCHANGED <<session, active, burst, job, quotaVars, heard, upload>>

EndForAll ==
    /\ session = "ready" /\ session' = "ended"
    /\ part' = IF part = "joined" THEN "left" ELSE part
    /\ UNCHANGED <<active, burst, job, quotaVars, heard, upload>>

RemoveSpeaker ==
    LET open == {b \in Bursts : burst[b] = "finalizing"}
    IN  /\ active /\ active' = FALSE
        /\ part' = IF part = "joined" THEN "removed" ELSE part
        /\ job' = [b \in Bursts |-> IF b \in open /\ job[b] \in {"ready", "processing"}
                                    THEN "suppressed" ELSE job[b]]
        /\ burst' = [b \in Bursts |-> IF b \in open THEN "device_lost" ELSE burst[b]]
        /\ UNCHANGED <<session, quotaVars, heard, upload>>

(* An accepted invitation, or add_member outside production.               *)
AddSpeaker ==
    /\ ~active /\ active' = TRUE
    /\ UNCHANGED <<session, part, burst, job, quotaVars, heard, upload>>

(* The process stops; nothing takes a lost upload up again.                *)
Crash ==
    /\ upload' = [u \in Uploads |-> Idle]
    /\ UNCHANGED <<speakerVars, burst, job, quotaVars, heard>>

-----------------------------------------------------------------------------
Upload(u, b) ==
    \/ Claim(u, b) \/ Transcribe(u, b) \/ MakeSegment(u, b)
    \/ UploadDone(u, b) \/ UploadFails(u, b)

Next ==
    \/ \E s \in Slots : Release(s) \/ TimePasses(s)
    \/ \E s \in Slots, n \in Seconds : Reserve(s, n) \/ Finalize(s, n)
    \/ Sweep
    \/ \E u \in Uploads, b \in Bursts : Upload(u, b)
    \/ \E b \in Bursts : Discard(b)
    \/ Leave \/ Join \/ EndForAll \/ RemoveSpeaker \/ AddSpeaker \/ Crash

Spec == Init /\ [][Next]_vars

(* The 30-second loop sweeps; nothing is assumed of the clients nor of the *)
(* provider.                                                               *)
FairSpec == Spec /\ WF_vars(Sweep)

-----------------------------------------------------------------------------
(* Types of the rows and of the uploads (models.py).                       *)
TypeOK ==
    /\ session \in {"ready", "ended"} /\ active \in BOOLEAN
    /\ part \in {"joined", "left", "removed"}
    /\ burst \in [Bursts -> BurstStates] /\ job \in [Bursts -> JobStates]
    /\ slot \in [Slots -> [status : SlotStates, seconds : Nat, due : BOOLEAN]]
    /\ held \in Nat /\ used \in Nat /\ heard \in [Bursts -> Nat]
    /\ upload \in [Uploads -> [pc : {"idle", "claimed", "transcribing", "translating"},
                               b : Bursts \cup {None}]]

(* The ledger is the sum of its reservations: what is held is what the     *)
(* reserved ones reserved, what is used is what the settled ones settled,  *)
(* though release, the sweep, finalize and a reservation made again on the *)
(* same row may come in any order.                                         *)
LedgerAccounts ==
    /\ held = SecondsOf(Reserved)
    /\ used = SecondsOf({s \in Slots : slot[s].status = "settled"})

(* Promised and spent seconds together never exceed the monthly limit.     *)
QuotaRespected == held + used <= Limit

(* A burst is shown as finalizing exactly while its job is pending: no     *)
(* pipeline gives up the one and forgets the other.                        *)
FinalizingIsPending ==
    \A b \in Bursts : burst[b] = "finalizing" <=> job[b] \in {"ready", "processing"}

(* A clip is transcribed at most once, however often and from however many *)
(* places it is uploaded, and whatever reservations do to the job between. *)
TranscribedOnce == \A b \in Bursts : heard[b] <= 1

(* Quota is not held for ever: a reservation past its time is given back,  *)
(* or made again by its client, also when the client disappeared, the      *)
(* session ended or the payer was removed.                                 *)
OverdueReservationsEnd == \A s \in Slots : s \in Due ~> s \notin Due

(* The private audio of a lost or removed speaker stays suppressed.        *)
SuppressedStays ==
    [][\A b \in Bursts : job[b] = "suppressed" => job'[b] = "suppressed"]_vars
=============================================================================
