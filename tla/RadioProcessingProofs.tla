----------------------- MODULE RadioProcessingProofs -----------------------
(***************************************************************************)
(* Theorems of RadioProcessing for any bursts, targets, uploads and quota. *)
(* First the burst, its job and the uploads; then sums over finite sets of *)
(* rows, and with them the ledger.                                         *)
(***************************************************************************)
EXTENDS RadioProcessing, FiniteSetTheorems, WellFoundedInduction, TLAPS

USE DEF vars, speakerVars, quotaVars

UploadPlaces == {"idle", "claimed", "transcribing", "translating"}

RowsOK ==
    /\ burst \in [Bursts -> BurstStates] /\ job \in [Bursts -> JobStates]
    /\ heard \in [Bursts -> Nat]
    /\ upload \in [Uploads -> [pc : UploadPlaces, b : Bursts \cup {None}]]

-----------------------------------------------------------------------------
(* Every step does one of four things to the jobs, the bursts and the      *)
(* uploads.  A job never becomes ready again.                              *)
UploadsSame == UNCHANGED <<upload, heard>>

JobsOnward == \A b \in Bursts : job'[b] = "ready" => job[b] = "ready"

LEMMA RowsInit == Init => RowsOK
  <1> SUFFICES ASSUME Init PROVE RowsOK
    OBVIOUS
  <1>1. PICK closed \in [Bursts -> ClosedPairs] :
          /\ burst = [b \in Bursts |-> closed[b][1]] /\ job = [b \in Bursts |-> closed[b][2]]
    BY DEF Init
  <1>2. \A p \in ClosedPairs : p[1] \in BurstStates /\ p[2] \in JobStates
    BY DEF ClosedPairs, BurstStates, JobStates
  <1>3. burst \in [Bursts -> BurstStates] /\ job \in [Bursts -> JobStates]
    BY <1>1, <1>2
  <1> QED BY <1>3 DEF Init, Idle, RowsOK, UploadPlaces

LEMMA GiveBackRows ==
    ASSUME RowsOK, NEW S, NEW status, GiveBack(S, status)
    PROVE  /\ burst' \in [Bursts -> BurstStates] /\ job' \in [Bursts -> JobStates]
           /\ JobsOnward
  BY DEF GiveBack, BurstsAfter, JobsAfter, RowsOK, BurstStates, JobStates, JobsOnward

(* What reserve makes of the bursts and the jobs.                          *)
LEMMA ReserveRows ==
    ASSUME RowsOK, NEW s \in Slots, NEW n, Reserve(s, n)
    PROVE  /\ \A b \in Bursts :
                /\ burst'[b] = IF b = s[1] THEN "finalizing" ELSE BurstsAfter(Due)[b]
                /\ job'[b] = IF b = s[1] THEN "processing" ELSE JobsAfter(Due)[b]
           /\ burst' \in [Bursts -> BurstStates] /\ job' \in [Bursts -> JobStates]
           /\ UploadsSame /\ JobsOnward /\ job[s[1]] \in JobStates \ {"suppressed", "none"}
  <1>0. s[1] \in Bursts
    BY DEF Slots
  <1>1. burst' = [BurstsAfter(Due) EXCEPT ![s[1]] = "finalizing"]
    BY DEF Reserve
  <1>2. job' = [JobsAfter(Due) EXCEPT ![s[1]] = "processing"]
    BY DEF Reserve
  <1>3. BurstsAfter(Due) \in [Bursts -> BurstStates]
    BY DEF BurstsAfter, RowsOK, BurstStates
  <1>4. JobsAfter(Due) \in [Bursts -> JobStates]
    BY DEF JobsAfter, RowsOK, JobStates
  <1>5. \A b \in Bursts : JobsAfter(Due)[b] = "ready" => job[b] = "ready"
    BY DEF JobsAfter
  <1>6. UploadsSame /\ job[s[1]] \in JobStates \ {"suppressed", "none"}
    BY DEF Reserve, UploadsSame, JobStates
  <1>7. \A b \in Bursts :
                /\ burst'[b] = IF b = s[1] THEN "finalizing" ELSE BurstsAfter(Due)[b]
                /\ job'[b] = IF b = s[1] THEN "processing" ELSE JobsAfter(Due)[b]
    BY <1>1, <1>2, <1>3, <1>4
  <1>8. burst' \in [Bursts -> BurstStates] /\ job' \in [Bursts -> JobStates]
    BY <1>0, <1>1, <1>2, <1>3, <1>4 DEF BurstStates, JobStates
  <1> QED BY <1>5, <1>6, <1>7, <1>8 DEF JobsOnward

(* The steps of everybody but the uploads.                                 *)
Others ==
    \/ \E s \in Slots : Release(s) \/ TimePasses(s)
    \/ \E s \in Slots, n \in Seconds : Reserve(s, n) \/ Finalize(s, n)
    \/ Sweep
    \/ \E b \in Bursts : Discard(b)
    \/ Leave \/ Join \/ EndForAll \/ RemoveSpeaker \/ AddSpeaker

LEMMA OthersRows == ASSUME RowsOK, Others PROVE RowsOK' /\ UploadsSame /\ JobsOnward
  <1>0. ASSUME UploadsSame, burst' \in [Bursts -> BurstStates], job' \in [Bursts -> JobStates]
        PROVE  RowsOK'
    BY <1>0 DEF RowsOK, UploadsSame
  <1>1. ASSUME NEW s \in Slots, Release(s) PROVE RowsOK' /\ UploadsSame /\ JobsOnward
    BY <1>0, <1>1, GiveBackRows DEF Release, UploadsSame
  <1>2. CASE Sweep
    BY <1>0, <1>2, GiveBackRows DEF Sweep, UploadsSame
  <1>3. ASSUME NEW s \in Slots, NEW n \in Seconds, Reserve(s, n)
        PROVE  RowsOK' /\ UploadsSame /\ JobsOnward
    BY <1>0, <1>3, ReserveRows
  <1>4. ASSUME NEW s \in Slots, NEW n \in Seconds, Finalize(s, n)
        PROVE  RowsOK' /\ UploadsSame /\ JobsOnward
    <2>1. s[1] \in Bursts
      BY DEF Slots
    <2>2. /\ burst' = [burst EXCEPT ![s[1]] = "final"]
          /\ job' = [job EXCEPT ![s[1]] = IF @ = "none" THEN "none" ELSE "completed"]
          /\ UploadsSame
      BY <1>4 DEF Finalize, UploadsSame
    <2> QED BY <1>0, <2>1, <2>2 DEF RowsOK, BurstStates, JobStates, JobsOnward
  <1>5. ASSUME NEW b \in Bursts, Discard(b) PROVE RowsOK' /\ UploadsSame /\ JobsOnward
    BY <1>0, <1>5 DEF Discard, UploadsSame, RowsOK, BurstStates, JobStates, JobsOnward
  <1>6. CASE RemoveSpeaker
    BY <1>0, <1>6 DEF RemoveSpeaker, UploadsSame, RowsOK, BurstStates, JobStates, JobsOnward
  <1>7. CASE (\E s \in Slots : TimePasses(s)) \/ Leave \/ Join \/ EndForAll \/ AddSpeaker
    <2>1. UNCHANGED <<burst, job>> /\ UploadsSame
      BY <1>7 DEF TimePasses, Leave, Join, EndForAll, AddSpeaker, UploadsSame
    <2> QED BY <2>1 DEF RowsOK, UploadsSame, JobsOnward
  <1> QED BY <1>1, <1>2, <1>3, <1>4, <1>5, <1>6, <1>7 DEF Others

-----------------------------------------------------------------------------
(* An upload owns its burst's clip from the compare-and-set on: the job    *)
(* never is ready again, so no second upload of the burst can be claimed   *)
(* while the clip is still unheard.                                        *)
Claims(u, b) == upload[u].pc # "idle" /\ upload[u].b = b

ClaimInv ==
    /\ \A u \in Uploads, b \in Bursts : Claims(u, b) => job[b] # "ready"
    /\ \A u \in Uploads, b \in Bursts : Claims(u, b) /\ upload[u].pc = "claimed" => heard[b] = 0
    /\ \A u, v \in Uploads, b \in Bursts :
          Claims(u, b) /\ Claims(v, b) /\ upload[u].pc = "claimed" => u = v
    /\ \A b \in Bursts : job[b] = "ready" => heard[b] = 0
    /\ TranscribedOnce

PendingInv == RowsOK /\ ClaimInv /\ FinalizingIsPending

LEMMA OthersClaims == ASSUME RowsOK, ClaimInv, UploadsSame, JobsOnward PROVE ClaimInv'
  <1>1. \A u \in Uploads, b \in Bursts : Claims(u, b)' <=> Claims(u, b)
    BY DEF Claims, UploadsSame
  <1> QED BY <1>1 DEF ClaimInv, TranscribedOnce, UploadsSame, JobsOnward

(* What an upload's step does to its own record.                           *)
LEMMA UploadRows ==
    ASSUME RowsOK, NEW u \in Uploads, NEW b \in Bursts, Upload(u, b)
    PROVE  /\ RowsOK'
           /\ \A v \in Uploads \ {u} : upload'[v] = upload[v]
           /\ \A c \in Bursts \ {b} :
                 job'[c] = job[c] /\ burst'[c] = burst[c] /\ heard'[c] = heard[c]
  BY DEF Upload, Claim, Transcribe, MakeSegment, UploadDone, UploadFails, At, Goto, Return, Idle,
         RowsOK, UploadPlaces, BurstStates, JobStates

LEMMA UploadClaims ==
    ASSUME RowsOK, ClaimInv, NEW u \in Uploads, NEW b \in Bursts, Upload(u, b)
    PROVE  ClaimInv'
  <1>1. /\ \A v \in Uploads \ {u} : upload'[v] = upload[v]
        /\ \A c \in Bursts \ {b} : job'[c] = job[c] /\ heard'[c] = heard[c]
    BY UploadRows
  <1>2. CASE Claim(u, b)
    <2>1. job[b] = "ready" /\ job'[b] = "processing" /\ heard' = heard /\ heard[b] = 0
      BY <1>2 DEF Claim, RowsOK, ClaimInv
    <2>2. upload'[u] = [pc |-> "claimed", b |-> b]
      BY <1>2 DEF Claim, Goto, RowsOK
    <2>3. \A v \in Uploads : ~Claims(v, b)
      BY <2>1 DEF ClaimInv
    <2> QED BY <1>1, <2>1, <2>2, <2>3 DEF ClaimInv, Claims, TranscribedOnce
  <1>3. CASE Transcribe(u, b)
    <2>1. upload[u] = [pc |-> "claimed", b |-> b] /\ Claims(u, b)
      BY <1>3 DEF Transcribe, At, Claims
    <2>2. heard[b] = 0 /\ heard'[b] = 1 /\ job' = job /\ job[b] # "ready"
      BY <1>3, <2>1 DEF Transcribe, ClaimInv, RowsOK
    <2>3. upload'[u] = [pc |-> "transcribing", b |-> b]
      BY <1>3 DEF Transcribe, Goto, RowsOK
    <2>4. \A v \in Uploads \ {u} : ~Claims(v, b)
      BY <2>1 DEF ClaimInv
    <2> QED BY <1>1, <2>2, <2>3, <2>4 DEF ClaimInv, Claims, TranscribedOnce
  <1>4. CASE MakeSegment(u, b) \/ UploadDone(u, b) \/ UploadFails(u, b)
    <2>1. heard' = heard /\ Claims(u, b) /\ (job'[b] = "ready" => job[b] = "ready")
      BY <1>4 DEF MakeSegment, UploadDone, UploadFails, At, Claims, RowsOK
    <2>2. upload'[u].pc \in {"idle", "translating"} /\ (upload'[u].pc # "idle" => upload'[u].b = b)
      BY <1>4 DEF MakeSegment, UploadDone, UploadFails, Goto, Return, Idle, RowsOK
    <2> QED BY <1>1, <2>1, <2>2 DEF ClaimInv, Claims, TranscribedOnce
  <1> QED BY <1>2, <1>3, <1>4 DEF Upload

LEMMA UploadPending ==
    ASSUME RowsOK, ClaimInv, FinalizingIsPending, NEW u \in Uploads, NEW b \in Bursts, Upload(u, b)
    PROVE  FinalizingIsPending'
  <1>1. \A c \in Bursts \ {b} : job'[c] = job[c] /\ burst'[c] = burst[c]
    BY UploadRows
  <1>2. burst'[b] = "finalizing" <=> job'[b] \in {"ready", "processing"}
    <2>1. CASE Claim(u, b) \/ Transcribe(u, b) \/ MakeSegment(u, b)
      BY <2>1 DEF Claim, Transcribe, MakeSegment, FinalizingIsPending, RowsOK
    <2>2. CASE UploadDone(u, b)
      BY <2>2 DEF UploadDone, RowsOK
    <2>3. CASE UploadFails(u, b)
      <3>1. job[b] # "ready"
        BY <2>3 DEF UploadFails, At, ClaimInv, Claims
      <3> QED BY <2>3, <3>1 DEF UploadFails, RowsOK
    <2> QED BY <2>1, <2>2, <2>3 DEF Upload
  <1> QED BY <1>1, <1>2 DEF FinalizingIsPending

LEMMA OthersPending ==
    ASSUME RowsOK, FinalizingIsPending, Others
    PROVE  FinalizingIsPending'
  <1>1. ASSUME NEW S PROVE \A b \in Bursts :
            BurstsAfter(S)[b] = "finalizing" <=> JobsAfter(S)[b] \in {"ready", "processing"}
    BY DEF BurstsAfter, JobsAfter, FinalizingIsPending
  <1>2. ASSUME NEW S, NEW status, GiveBack(S, status) PROVE FinalizingIsPending'
    BY <1>1, <1>2 DEF GiveBack, FinalizingIsPending
  <1>3. ASSUME NEW s \in Slots, Release(s) PROVE FinalizingIsPending'
    BY <1>2, <1>3 DEF Release
  <1>4. CASE Sweep
    BY <1>2, <1>4 DEF Sweep
  <1>5. ASSUME NEW s \in Slots, NEW n \in Seconds, Reserve(s, n) PROVE FinalizingIsPending'
    BY <1>1, <1>5, ReserveRows DEF FinalizingIsPending
  <1>6. ASSUME NEW s \in Slots, NEW n \in Seconds, Finalize(s, n) PROVE FinalizingIsPending'
    BY <1>6 DEF Finalize, FinalizingIsPending, RowsOK, Slots
  <1>7. ASSUME NEW b \in Bursts, Discard(b) PROVE FinalizingIsPending'
    BY <1>7 DEF Discard, FinalizingIsPending, RowsOK
  <1>8. CASE RemoveSpeaker
    BY <1>8 DEF RemoveSpeaker, FinalizingIsPending, RowsOK
  <1>9. CASE (\E s \in Slots : TimePasses(s)) \/ Leave \/ Join \/ EndForAll \/ AddSpeaker
    <2>1. UNCHANGED <<burst, job>>
      BY <1>9 DEF TimePasses, Leave, Join, EndForAll, AddSpeaker
    <2> QED BY <2>1 DEF FinalizingIsPending
  <1> QED BY <1>3, <1>4, <1>5, <1>6, <1>7, <1>8, <1>9 DEF Others

-----------------------------------------------------------------------------
LEMMA PendingInit == Init => PendingInv
  <1> SUFFICES ASSUME Init PROVE ClaimInv /\ FinalizingIsPending
    BY RowsInit DEF PendingInv
  <1>1. ClaimInv
    BY DEF Init, ClaimInv, Claims, Idle, TranscribedOnce
  <1>2. FinalizingIsPending
    BY DEF Init, FinalizingIsPending, ClosedPairs
  <1> QED BY <1>1, <1>2

LEMMA PendingStep == PendingInv /\ [Next]_vars => PendingInv'
  <1> SUFFICES ASSUME PendingInv, [Next]_vars PROVE PendingInv'
    OBVIOUS
  <1> USE DEF PendingInv
  <1>1. CASE Others
    BY <1>1, OthersRows, OthersClaims, OthersPending
  <1>2. ASSUME NEW u \in Uploads, NEW b \in Bursts, Upload(u, b) PROVE PendingInv'
    BY <1>2, UploadRows, UploadClaims, UploadPending
  <1>3. CASE Crash
    BY <1>3 DEF Crash, RowsOK, ClaimInv, Claims, Idle, TranscribedOnce, FinalizingIsPending,
       UploadPlaces
  <1>4. CASE UNCHANGED vars
    BY <1>4 DEF RowsOK, ClaimInv, Claims, TranscribedOnce, FinalizingIsPending
  <1> QED BY <1>1, <1>2, <1>3, <1>4 DEF Next, Others

LEMMA PendingInvHolds == Spec => []PendingInv
  BY PendingInit, PendingStep, PTL DEF Spec

(* submit_radio_voice has the provider transcribe a clip at most once.     *)
THEOREM SttOnce == Spec => []TranscribedOnce
  <1>1. PendingInv => TranscribedOnce
    BY DEF PendingInv, ClaimInv
  <1> QED BY PendingInvHolds, <1>1, PTL

(* A burst is finalizing exactly while its job is pending.                 *)
THEOREM FinalizingPending == Spec => []FinalizingIsPending
  <1>1. PendingInv => FinalizingIsPending
    BY DEF PendingInv
  <1> QED BY PendingInvHolds, <1>1, PTL
-----------------------------------------------------------------------------
(* Sums over a finite set of rows.  MapThenSumSet is a recursive function  *)
(* over the subsets; that there is one, and what it is worth, is shown     *)
(* with smallest counterexamples.                                          *)

Chosen(S) == CHOOSE s \in S : TRUE
Total(w, S) == MapThenSumSet(LAMBDA s : w[s].seconds, S)
IsSum(w, S, f) ==
    f = [T \in SUBSET S |-> IF T = {} THEN 0 ELSE w[Chosen(T)].seconds + f[T \ {Chosen(T)}]]

LEMMA SmallestSet ==
    ASSUME NEW S, IsFiniteSet(S), NEW B \in SUBSET (SUBSET S), B # {}
    PROVE  \E T \in B : \A U \in SUBSET T : U # T => U \notin B
  <1>1. B \subseteq FiniteSubsetsOf(S)
    BY FS_Subset DEF FiniteSubsetsOf
  <1>2. PICK T \in B : \A U \in B : <<U, T>> \notin StrictSubsetOrdering(S)
    BY <1>1, FS_StrictSubsetOrderingWellFounded, WFMin, Zenon
  <1>3. ASSUME NEW U \in SUBSET T, U # T PROVE U \notin B
    BY <1>2, <1>3 DEF StrictSubsetOrdering
  <1> QED BY <1>3

LEMMA TotalIs ==
    ASSUME NEW w, NEW S
    PROVE  Total(w, S) = (CHOOSE f : IsSum(w, S, f))[S]
  BY DEF Total, MapThenSumSet, MapThenFoldSet, IsSum, Chosen

LEMMA ChosenIn == ASSUME NEW S, S # {} PROVE Chosen(S) \in S
  BY DEF Chosen

LEMMA SumAt ==
    ASSUME NEW w, NEW S, NEW f, IsSum(w, S, f), NEW T \in SUBSET S
    PROVE  f[T] = IF T = {} THEN 0 ELSE w[Chosen(T)].seconds + f[T \ {Chosen(T)}]
  BY DEF IsSum

\* Two sums agree on the sets both are about.
LEMMA SumsAgree ==
    ASSUME NEW w, NEW S, NEW f, IsSum(w, S, f), NEW R, NEW g, IsSum(w, R, g),
           NEW T, IsFiniteSet(T), T \subseteq S, T \subseteq R
    PROVE  f[T] = g[T]
  <1> DEFINE B == {U \in SUBSET T : f[U] # g[U]}
  <1> SUFFICES ASSUME B # {} PROVE FALSE
    OBVIOUS
  <1>1. PICK U \in B : \A V \in SUBSET U : V # U => V \notin B
    <2> HIDE DEF B
    <2>1. B \in SUBSET (SUBSET T)
      BY DEF B
    <2> QED BY <2>1, SmallestSet
  <1>2. U \in SUBSET S /\ U \in SUBSET R /\ U \subseteq T
    OBVIOUS
  <1>3. U # {}
    BY <1>2, SumAt
  <1>4. U \ {Chosen(U)} \in SUBSET U /\ U \ {Chosen(U)} # U
    BY <1>3, ChosenIn
  <1>5. f[U \ {Chosen(U)}] = g[U \ {Chosen(U)}]
    BY <1>1, <1>2, <1>4
  <1>6. f[U] = g[U]
    BY <1>2, <1>5, SumAt
  <1> QED BY <1>6

LEMMA SumExists ==
    ASSUME NEW w, NEW S, IsFiniteSet(S)
    PROVE  \E f : IsSum(w, S, f)
  <1> DEFINE B == {U \in SUBSET S : ~\E f : IsSum(w, U, f)}
  <1> SUFFICES ASSUME B # {} PROVE FALSE
    OBVIOUS
  <1>1. PICK U \in B : \A V \in SUBSET U : V # U => V \notin B
    <2> HIDE DEF B
    <2>1. B \in SUBSET (SUBSET S)
      BY DEF B
    <2> QED BY <2>1, SmallestSet
  <1> DEFINE F(T) == CHOOSE f : IsSum(w, T, f)
             g == [T \in SUBSET U |-> IF T = {} THEN 0
                                      ELSE w[Chosen(T)].seconds + F(T \ {Chosen(T)})[T \ {Chosen(T)}]]
  <1>2. ASSUME NEW T \in SUBSET U, T # U PROVE IsSum(w, T, F(T))
    <2>1. T \in SUBSET S /\ T \notin B
      BY <1>1, <1>2
    <2>2. \E f : IsSum(w, T, f)
      BY <2>1
    <2> QED BY <2>2
  <1>3. ASSUME NEW T \in SUBSET U, T # {} PROVE F(T \ {Chosen(T)})[T \ {Chosen(T)}] = g[T \ {Chosen(T)}]
    <2> DEFINE V == T \ {Chosen(T)}
    <2>1. V \in SUBSET U /\ V # U
      BY <1>3, ChosenIn
    <2>2. IsSum(w, V, F(V))
      BY <1>2, <2>1
    <2>3. CASE V = {}
      <3>1. F(V)[V] = 0
        BY <2>2, <2>3, SumAt
      <3>2. g[V] = 0
        BY <2>1, <2>3
      <3> QED BY <3>1, <3>2
    <2>4. CASE V # {}
      <3> DEFINE W == V \ {Chosen(V)}
      <3>1. W \in SUBSET V /\ W \in SUBSET U /\ W # U
        BY <2>1, <2>4, ChosenIn
      <3>2. IsSum(w, W, F(W))
        BY <1>2, <3>1
      <3>3. IsFiniteSet(W)
        <4>1. W \in SUBSET S
          BY <3>1
        <4> QED BY <4>1, FS_Subset
      <3>4. F(V)[W] = F(W)[W]
        <4> HIDE DEF F, W, V
        <4> QED BY <2>2, <3>1, <3>2, <3>3, SumsAgree
      <3>5. F(V)[V] = w[Chosen(V)].seconds + F(V)[W]
        <4>1. V \in SUBSET V
          OBVIOUS
        <4> HIDE DEF F, V
        <4>2. F(V)[V] = IF V = {} THEN 0 ELSE w[Chosen(V)].seconds + F(V)[V \ {Chosen(V)}]
          BY <2>2, <4>1, SumAt
        <4> QED BY <2>4, <4>2
      <3>6. g[V] = w[Chosen(V)].seconds + F(W)[W]
        <4> HIDE DEF F
        <4> QED BY <2>1, <2>4
      <3> QED BY <3>4, <3>5, <3>6
    <2> QED BY <2>3, <2>4
  <1>4. IsSum(w, U, g)
    <2> HIDE DEF F
    <2>1. g = [T \in SUBSET U |-> IF T = {} THEN 0 ELSE w[Chosen(T)].seconds + g[T \ {Chosen(T)}]]
      BY <1>3
    <2> QED BY <2>1 DEF IsSum
  <1> QED BY <1>4

-----------------------------------------------------------------------------
LEMMA TotalStep ==
    ASSUME NEW w, NEW S, IsFiniteSet(S)
    PROVE  Total(w, S) = IF S = {} THEN 0 ELSE w[Chosen(S)].seconds + Total(w, S \ {Chosen(S)})
  <1> DEFINE F(T) == CHOOSE f : IsSum(w, T, f)
             V == S \ {Chosen(S)}
  <1>1. IsSum(w, S, F(S))
    BY SumExists
  <1>2. IsFiniteSet(V)
    BY FS_Subset
  <1>3. IsSum(w, V, F(V))
    BY <1>2, SumExists
  <1> HIDE DEF F
  <1>4. F(S)[V] = F(V)[V]
    BY <1>1, <1>2, <1>3, SumsAgree
  <1>5. F(S)[S] = IF S = {} THEN 0 ELSE w[Chosen(S)].seconds + F(S)[V]
    BY <1>1, SumAt
  <1>6. Total(w, S) = F(S)[S] /\ Total(w, V) = F(V)[V]
    BY TotalIs DEF F
  <1> QED BY <1>4, <1>5, <1>6

LEMMA TotalType ==
    ASSUME NEW w, NEW S, IsFiniteSet(S), \A s \in S : w[s].seconds \in Nat
    PROVE  Total(w, S) \in Nat
  <1> DEFINE B == {U \in SUBSET S : Total(w, U) \notin Nat}
  <1> SUFFICES ASSUME B # {} PROVE FALSE
    OBVIOUS
  <1>1. PICK U \in B : \A V \in SUBSET U : V # U => V \notin B
    <2> HIDE DEF B
    <2>1. B \in SUBSET (SUBSET S)
      BY DEF B
    <2> QED BY <2>1, SmallestSet
  <1>2. U \in SUBSET S /\ IsFiniteSet(U)
    BY FS_Subset
  <1>3. Total(w, U) = IF U = {} THEN 0 ELSE w[Chosen(U)].seconds + Total(w, U \ {Chosen(U)})
    BY <1>2, TotalStep
  <1>4. U # {}
    BY <1>3
  <1>5. Chosen(U) \in U /\ U \ {Chosen(U)} # U /\ U \ {Chosen(U)} \in SUBSET U
    BY <1>4, ChosenIn
  <1>6. Total(w, U \ {Chosen(U)}) \in Nat /\ w[Chosen(U)].seconds \in Nat
    BY <1>1, <1>2, <1>5
  <1> QED BY <1>3, <1>4, <1>6

\* Whichever element is taken out.
LEMMA TotalTake ==
    ASSUME NEW w, NEW S, IsFiniteSet(S), \A s \in S : w[s].seconds \in Nat, NEW x \in S
    PROVE  Total(w, S) = w[x].seconds + Total(w, S \ {x})
  <1> DEFINE Bad(U) == \E y \in U : Total(w, U) # w[y].seconds + Total(w, U \ {y})
             B == {U \in SUBSET S : Bad(U)}
  <1> SUFFICES ASSUME B # {} PROVE FALSE
    <2>1. S \notin B
      OBVIOUS
    <2> QED BY <2>1
  <1>1. PICK U \in B : \A V \in SUBSET U : V # U => V \notin B
    <2> HIDE DEF B
    <2>1. B \in SUBSET (SUBSET S)
      BY DEF B
    <2> QED BY <2>1, SmallestSet
  <1>2. PICK y \in U : Total(w, U) # w[y].seconds + Total(w, U \ {y})
    OBVIOUS
  <1> DEFINE c == Chosen(U)
  <1>3. c \in U
    BY ChosenIn
  <1>4. U \in SUBSET S /\ IsFiniteSet(U)
    BY FS_Subset
  <1>5. ASSUME NEW V \in SUBSET U PROVE IsFiniteSet(V) /\ Total(w, V) \in Nat
    BY <1>4, FS_Subset, TotalType
  <1>6. Total(w, U) = w[c].seconds + Total(w, U \ {c})
    BY <1>3, <1>4, TotalStep
  <1>7. y # c
    BY <1>2, <1>6
  <1>8. Total(w, U \ {c}) = w[y].seconds + Total(w, (U \ {c}) \ {y})
    <2>1. U \ {c} \in SUBSET U /\ U \ {c} # U /\ y \in U \ {c}
      BY <1>3, <1>7
    <2>2. ~Bad(U \ {c})
      BY <1>1, <1>4, <2>1
    <2> QED BY <2>1, <2>2
  <1>9. Total(w, U \ {y}) = w[c].seconds + Total(w, (U \ {y}) \ {c})
    <2>1. U \ {y} \in SUBSET U /\ U \ {y} # U /\ c \in U \ {y}
      BY <1>3, <1>7
    <2>2. ~Bad(U \ {y})
      BY <1>1, <1>4, <2>1
    <2> QED BY <2>1, <2>2
  <1>10. (U \ {c}) \ {y} = (U \ {y}) \ {c}
    OBVIOUS
  <1>11. /\ w[c].seconds \in Nat /\ w[y].seconds \in Nat
         /\ Total(w, (U \ {c}) \ {y}) \in Nat
    BY <1>3, <1>4, <1>5
  <1> DEFINE m == w[c].seconds
             n == w[y].seconds
             r == Total(w, (U \ {c}) \ {y})
  <1>12. /\ Total(w, U) = m + (n + r) /\ Total(w, U \ {y}) = m + r
         /\ Total(w, U) # n + Total(w, U \ {y})
    <2> HIDE DEF c, B, Bad
    <2> QED BY <1>2, <1>6, <1>8, <1>9, <1>10
  <1>13. m \in Nat /\ n \in Nat /\ r \in Nat
    BY <1>11
  <1> HIDE DEF c, B, Bad, m, n, r
  <1> QED BY <1>12, <1>13

LEMMA TotalSame ==
    ASSUME NEW w, NEW v, NEW S, IsFiniteSet(S), \A s \in S : v[s].seconds = w[s].seconds
    PROVE  Total(v, S) = Total(w, S)
  <1> DEFINE B == {U \in SUBSET S : Total(v, U) # Total(w, U)}
  <1> SUFFICES ASSUME B # {} PROVE FALSE
    OBVIOUS
  <1>1. PICK U \in B : \A V \in SUBSET U : V # U => V \notin B
    <2> HIDE DEF B
    <2>1. B \in SUBSET (SUBSET S)
      BY DEF B
    <2> QED BY <2>1, SmallestSet
  <1>2. U \in SUBSET S /\ IsFiniteSet(U)
    BY FS_Subset
  <1>3. /\ Total(w, U) = IF U = {} THEN 0 ELSE w[Chosen(U)].seconds + Total(w, U \ {Chosen(U)})
        /\ Total(v, U) = IF U = {} THEN 0 ELSE v[Chosen(U)].seconds + Total(v, U \ {Chosen(U)})
    BY <1>2, TotalStep
  <1>4. U # {}
    BY <1>3
  <1>5. Chosen(U) \in U /\ U \ {Chosen(U)} # U /\ U \ {Chosen(U)} \in SUBSET U
    BY <1>4, ChosenIn
  <1>6. Total(w, U \ {Chosen(U)}) = Total(v, U \ {Chosen(U)})
    BY <1>1, <1>2, <1>5
  <1>7. v[Chosen(U)].seconds = w[Chosen(U)].seconds
    BY <1>2, <1>5
  <1> QED BY <1>3, <1>4, <1>6, <1>7

\* A part and the rest.
LEMMA TotalSplit ==
    ASSUME NEW w, NEW S, IsFiniteSet(S), \A s \in S : w[s].seconds \in Nat, NEW T \in SUBSET S
    PROVE  Total(w, S) = Total(w, T) + Total(w, S \ T)
  <1> DEFINE B == {U \in SUBSET T : Total(w, S) # Total(w, U) + Total(w, S \ U)}
  <1> SUFFICES ASSUME B # {} PROVE FALSE
    <2>1. T \notin B
      OBVIOUS
    <2> QED BY <2>1
  <1>1. PICK U \in B : \A V \in SUBSET U : V # U => V \notin B
    <2> HIDE DEF B
    <2>1. B \in SUBSET (SUBSET T) /\ IsFiniteSet(T)
      BY FS_Subset DEF B
    <2> QED BY <2>1, SmallestSet
  <1>2. U \in SUBSET S /\ U \in SUBSET T /\ Total(w, S) # Total(w, U) + Total(w, S \ U)
    OBVIOUS
  <1>3. ASSUME NEW V \in SUBSET S PROVE IsFiniteSet(V) /\ Total(w, V) \in Nat
    BY FS_Subset, TotalType
  <1>4. U # {}
    <2>1. SUFFICES ASSUME U = {} PROVE FALSE
      OBVIOUS
    <2>2. Total(w, U) = 0
      BY <1>2, <1>3, <2>1, TotalStep
    <2>3. S \ U = S
      BY <2>1
    <2>4. Total(w, S \ U) = Total(w, S) /\ Total(w, S) \in Nat
      BY <1>3, <2>3
    <2> HIDE DEF B
    <2> QED BY <1>2, <2>2, <2>4
  <1> DEFINE c == Chosen(U)
             V == U \ {c}
  <1>5. c \in U /\ V # U /\ V \in SUBSET U /\ (S \ V) \ {c} = S \ U /\ c \in S \ V
    BY <1>2, <1>4, ChosenIn
  <1>6. Total(w, S) = Total(w, V) + Total(w, S \ V)
    BY <1>1, <1>2, <1>5
  <1>7. Total(w, U) = w[c].seconds + Total(w, V)
    BY <1>2, <1>3, <1>4, TotalStep
  <1>8. Total(w, S \ V) = w[c].seconds + Total(w, S \ U)
    <2>1. \A s \in S \ V : w[s].seconds \in Nat
      OBVIOUS
    <2>2. IsFiniteSet(S \ V)
      BY <1>3
    <2> HIDE DEF c, V, B
    <2> QED BY <1>5, <2>1, <2>2, TotalTake
  <1>9. w[c].seconds \in Nat /\ Total(w, V) \in Nat /\ Total(w, S \ U) \in Nat
    BY <1>2, <1>3, <1>5
  <1> HIDE DEF c, V, B
  <1> QED BY <1>2, <1>6, <1>7, <1>8, <1>9

-----------------------------------------------------------------------------
(* The ledger.  Only rows that were ever made count, and they are finitely *)
(* many; every step that moves a row in or out of the reserved or the      *)
(* settled ones moves its seconds in or out of the sum.                    *)
Settled == {s \in Slots : slot[s].status = "settled"}
Made == {s \in Slots : slot[s].status # "none"}

QuotaTyped ==
    /\ slot \in [Slots -> [status : SlotStates, seconds : Nat, due : BOOLEAN]]
    /\ held \in Nat /\ used \in Nat

SpeakerTyped ==
    /\ session \in {"ready", "ended"} /\ active \in BOOLEAN
    /\ part \in {"joined", "left", "removed"}

Accounts == held = Total(slot, Reserved) /\ used = Total(slot, Settled)

LedgerInv == QuotaTyped /\ IsFiniteSet(Made) /\ Accounts /\ QuotaRespected

LEMMA SecondsTotal ==
    ASSUME NEW S
    PROVE  SecondsOf(S) = Total(slot, S)
  BY DEF SecondsOf, Total

(* Every set of rows that were made has a sum.                             *)
LEMMA Summable ==
    ASSUME LedgerInv, NEW S \in SUBSET Made
    PROVE  /\ IsFiniteSet(S) /\ Total(slot, S) \in Nat
           /\ \A s \in S : slot[s].seconds \in Nat
  <1>1. IsFiniteSet(S)
    BY FS_Subset DEF LedgerInv
  <1>2. \A s \in S : slot[s].seconds \in Nat
    BY DEF LedgerInv, QuotaTyped, Made
  <1> QED BY <1>1, <1>2, TotalType

LEMMA LedgerSums ==
    ASSUME LedgerInv
    PROVE  /\ held = Total(slot, Reserved) /\ used = Total(slot, Settled)
           /\ Reserved \in SUBSET Made /\ Settled \in SUBSET Made
  BY DEF LedgerInv, Accounts, Reserved, Settled, Made

(* What is left once a part of the reserved rows went.                     *)
LEMMA RestHeld ==
    ASSUME LedgerInv, NEW S \in SUBSET Reserved
    PROVE  /\ Less(held, SecondsOf(S)) = Total(slot, Reserved \ S)
           /\ Less(held, SecondsOf(S)) \in Nat /\ Less(held, SecondsOf(S)) <= held
  <1>1. S \in SUBSET Made /\ Reserved \ S \in SUBSET Made /\ Reserved \in SUBSET Made
    BY LedgerSums
  <1>2. Total(slot, Reserved) = Total(slot, S) + Total(slot, Reserved \ S)
    BY <1>1, Summable, TotalSplit
  <1>3. Total(slot, S) \in Nat /\ Total(slot, Reserved \ S) \in Nat
    BY <1>1, Summable
  <1>4. held = Total(slot, Reserved) /\ SecondsOf(S) = Total(slot, S)
    BY LedgerSums, SecondsTotal
  <1> DEFINE a == Total(slot, S)
             b == Total(slot, Reserved \ S)
  <1>5. held = a + b /\ SecondsOf(S) = a /\ a \in Nat /\ b \in Nat
    BY <1>2, <1>3, <1>4
  <1>6. Less(held, SecondsOf(S)) = b /\ b <= held
    <2> HIDE DEF a, b
    <2> QED BY <1>5 DEF Less
  <1> QED BY <1>5, <1>6

(* The rows, after a part of them was given back.                          *)
LEMMA RowsGivenBack ==
    ASSUME LedgerInv, NEW S \in SUBSET Reserved, NEW status \in {"released", "expired"}
    PROVE  /\ SlotsAfter(S, status) \in [Slots -> [status : SlotStates, seconds : Nat, due : BOOLEAN]]
           /\ \A s \in Slots :
                /\ SlotsAfter(S, status)[s].seconds = slot[s].seconds
                /\ SlotsAfter(S, status)[s].status = IF s \in S THEN status ELSE slot[s].status
  BY DEF LedgerInv, QuotaTyped, SlotsAfter, SlotStates, Reserved

LEMMA GiveBackLedger ==
    ASSUME LedgerInv, NEW S \in SUBSET Reserved, NEW status \in {"released", "expired"},
           GiveBack(S, status)
    PROVE  LedgerInv'
  <1>1. slot' = SlotsAfter(S, status) /\ used' = used /\ held' = Less(held, SecondsOf(S))
    BY DEF GiveBack
  <1>2. QuotaTyped'
    BY <1>1, RowsGivenBack, RestHeld DEF QuotaTyped, LedgerInv
  <1>3. \A s \in Slots : /\ slot'[s].seconds = slot[s].seconds
                         /\ slot'[s].status = IF s \in S THEN status ELSE slot[s].status
    BY <1>1, RowsGivenBack
  <1>4. Made' = Made /\ Settled' = Settled /\ Reserved' = Reserved \ S
    BY <1>3 DEF Made, Settled, Reserved
  <1>5. Reserved \ S \in SUBSET Made /\ Settled \in SUBSET Made
    BY LedgerSums
  <1>6. Total(slot', Reserved \ S) = Total(slot, Reserved \ S) /\ Total(slot', Settled) = Total(slot, Settled)
    <2>1. \A s \in Made : slot'[s].seconds = slot[s].seconds
      BY <1>3 DEF Made
    <2> QED BY <1>5, <2>1, Summable, TotalSame
  <1>7. Accounts'
    BY <1>1, <1>4, <1>6, LedgerSums, RestHeld DEF Accounts
  <1>8. QuotaRespected'
    <2>1. held' <= held /\ held' \in Nat /\ held \in Nat /\ used \in Nat
      BY <1>1, RestHeld DEF LedgerInv, QuotaTyped
    <2> QED BY <1>1, <2>1, SecondsAssumption DEF LedgerInv, QuotaRespected
  <1> QED BY <1>2, <1>4, <1>7, <1>8 DEF LedgerInv

LEMMA ReserveLedger ==
    ASSUME LedgerInv, NEW s \in Slots, NEW n \in Seconds, Reserve(s, n)
    PROVE  LedgerInv'
  <1> DEFINE after == SlotsAfter(Due, "expired")
             row == [status |-> "reserved", seconds |-> n, due |-> FALSE]
             rest == Less(held, SecondsOf(Due))
             Kept == Reserved \ Due
  <1>1. Due \in SUBSET Reserved /\ n \in Nat
    BY SecondsAssumption DEF Due
  <1>2. slot' = [after EXCEPT ![s] = row] /\ held' = rest + n /\ used' = used /\ used + rest + n <= Limit
    BY DEF Reserve
  <1>3. /\ after \in [Slots -> [status : SlotStates, seconds : Nat, due : BOOLEAN]]
        /\ \A t \in Slots : /\ after[t].seconds = slot[t].seconds
                            /\ after[t].status = IF t \in Due THEN "expired" ELSE slot[t].status
    BY <1>1, RowsGivenBack
  <1>4. rest = Total(slot, Kept) /\ rest \in Nat
    BY <1>1, RestHeld
  <1>5. slot[s].status \notin {"reserved", "settled"} \/ s \in Due
    BY DEF Reserve
  <1>6. row \in [status : SlotStates, seconds : Nat, due : BOOLEAN]
    BY <1>1 DEF SlotStates
  <1>7. /\ slot' \in [Slots -> [status : SlotStates, seconds : Nat, due : BOOLEAN]]
        /\ slot'[s] = row /\ \A t \in Slots \ {s} : slot'[t] = after[t]
    <2> HIDE DEF after, row
    <2> QED BY <1>2, <1>3, <1>6
  <1>8. /\ slot'[s].status = "reserved" /\ slot'[s].seconds = n
        /\ \A t \in Slots \ {s} :
              /\ slot'[t].seconds = slot[t].seconds
              /\ slot'[t].status = IF t \in Due THEN "expired" ELSE slot[t].status
    BY <1>3, <1>7
  <1> HIDE DEF after, row, rest
  <1>9. QuotaTyped'
    BY <1>1, <1>2, <1>4, <1>7 DEF QuotaTyped, LedgerInv
  <1>10. /\ Made' = Made \cup {s} /\ Settled' = Settled
         /\ Reserved' = Kept \cup {s} /\ s \notin Kept /\ s \notin Settled
    BY <1>1, <1>5, <1>8 DEF Made, Settled, Reserved, Due
  <1>11. Kept \in SUBSET Made /\ Settled \in SUBSET Made
    BY LedgerSums
  <1>12. IsFiniteSet(Kept) /\ IsFiniteSet(Settled) /\ IsFiniteSet(Made')
    BY <1>10, <1>11, Summable, FS_AddElement DEF LedgerInv
  <1>13. Total(slot', Kept) = Total(slot, Kept) /\ Total(slot', Settled) = Total(slot, Settled)
    <2>1. /\ \A t \in Kept : slot'[t].seconds = slot[t].seconds
          /\ \A t \in Settled : slot'[t].seconds = slot[t].seconds
      BY <1>8, <1>10 DEF Settled, Reserved
    <2> HIDE DEF Kept
    <2> QED BY <1>12, <2>1, TotalSame
  <1>14. Total(slot', Reserved') = n + Total(slot', Kept)
    <2> HIDE DEF Kept
    <2>1. IsFiniteSet(Reserved') /\ s \in Reserved' /\ Reserved' \ {s} = Kept
      BY <1>10, <1>12, FS_AddElement
    <2>2. \A t \in Reserved' : slot'[t].seconds \in Nat
      BY <1>9 DEF QuotaTyped, Reserved
    <2>3. Total(slot', Reserved') = slot'[s].seconds + Total(slot', Reserved' \ {s})
      BY <2>1, <2>2, TotalTake
    <2> QED BY <1>8, <2>1, <2>3
  <1>15. held' = Total(slot', Reserved') /\ used' = Total(slot', Settled')
    <2>1. used' = Total(slot', Settled')
      BY <1>2, <1>10, <1>13, LedgerSums
    <2>2. held' = n + rest
      BY <1>1, <1>2, <1>4
    <2> QED BY <1>4, <1>13, <1>14, <2>1, <2>2
  <1>16. Accounts'
    BY <1>15 DEF Accounts
  <1>17. QuotaRespected'
    BY <1>1, <1>2, <1>4, SecondsAssumption DEF QuotaRespected, LedgerInv, QuotaTyped
  <1> QED BY <1>9, <1>12, <1>16, <1>17 DEF LedgerInv

LEMMA FinalizeLedger ==
    ASSUME LedgerInv, NEW s \in Slots, NEW n \in Seconds, Finalize(s, n)
    PROVE  LedgerInv'
  <1> DEFINE Kept == Reserved \ {s}
             m == slot[s].seconds
             rest == Less(held, SecondsOf({s}))
  <1>1. s \in Reserved /\ n \in Nat /\ n <= m /\ m \in Nat
    BY SecondsAssumption DEF Finalize, LedgerInv, QuotaTyped
  <1>2. /\ slot' = [slot EXCEPT ![s].status = "settled", ![s].seconds = n]
        /\ held' = Less(held, m) /\ used' = used + n
    BY DEF Finalize
  <1>3. slot'[s] = [status |-> "settled", seconds |-> n, due |-> slot[s].due]
    BY <1>2 DEF LedgerInv, QuotaTyped
  <1>4. /\ slot' \in [Slots -> [status : SlotStates, seconds : Nat, due : BOOLEAN]]
        /\ \A t \in Slots \ {s} : slot'[t] = slot[t]
    BY <1>1, <1>2 DEF LedgerInv, QuotaTyped, SlotStates
  <1>5. Kept \in SUBSET Made /\ Settled \in SUBSET Made /\ Reserved \in SUBSET Made
    BY LedgerSums
  <1>6. /\ IsFiniteSet(Kept) /\ IsFiniteSet(Settled) /\ IsFiniteSet(Reserved)
        /\ Total(slot, Kept) \in Nat /\ Total(slot, Settled) \in Nat
    BY <1>5, Summable
  <1>7. held = m + Total(slot, Kept) /\ used = Total(slot, Settled)
    <2>1. Total(slot, Reserved) = m + Total(slot, Kept)
      BY <1>1, <1>5, Summable, TotalTake
    <2> QED BY <2>1, LedgerSums
  <1>8. /\ Made' = Made /\ Reserved' = Kept /\ Settled' = Settled \cup {s} /\ s \notin Settled
    BY <1>1, <1>3, <1>4 DEF Made, Reserved, Settled
  <1>9. Total(slot', Kept) = Total(slot, Kept) /\ Total(slot', Settled) = Total(slot, Settled)
    <2>1. (\A t \in Kept : slot'[t].seconds = slot[t].seconds) /\ (\A t \in Settled : slot'[t].seconds = slot[t].seconds)
      BY <1>4, <1>8 DEF Reserved, Settled
    <2> HIDE DEF Kept
    <2> QED BY <1>6, <2>1, TotalSame
  <1>10. Total(slot', Settled') = n + Total(slot', Settled)
    <2>1. IsFiniteSet(Settled') /\ s \in Settled' /\ Settled' \ {s} = Settled
      BY <1>6, <1>8, FS_AddElement
    <2>2. \A t \in Settled' : slot'[t].seconds \in Nat
      BY <1>4 DEF Settled
    <2>3. Total(slot', Settled') = slot'[s].seconds + Total(slot', Settled' \ {s})
      BY <2>1, <2>2, TotalTake
    <2> QED BY <1>3, <2>1, <2>3
  <1> DEFINE k == Total(slot, Kept)
             u == Total(slot, Settled)
  <1>11. held = m + k /\ used = u /\ k \in Nat /\ u \in Nat
    BY <1>6, <1>7
  <1>12. held' = k /\ used' = u + n
    <2> HIDE DEF m, k, u
    <2> QED BY <1>1, <1>2, <1>11 DEF Less
  <1>13. Accounts'
    <2>1. Total(slot', Reserved') = k /\ Total(slot', Settled') = n + u
      BY <1>8, <1>9, <1>10
    <2>2. n + u = u + n
      <3> HIDE DEF u
      <3> QED BY <1>1, <1>11
    <2> HIDE DEF k, u
    <2> QED BY <1>12, <2>1, <2>2 DEF Accounts
  <1>14. QuotaTyped' /\ QuotaRespected'
    <2>1. held + used <= Limit
      BY DEF LedgerInv, QuotaRespected
    <2> HIDE DEF m, k, u
    <2> QED BY <1>1, <1>4, <1>11, <1>12, <2>1, SecondsAssumption DEF QuotaTyped, QuotaRespected
  <1> QED BY <1>8, <1>13, <1>14 DEF LedgerInv

LEMMA QuotaSame ==
    ASSUME LedgerInv, (\E s \in Slots : TimePasses(s)) \/ UNCHANGED quotaVars
    PROVE  LedgerInv'
  <1>1. held' = held /\ used' = used
    BY DEF TimePasses
  <1>2. /\ slot' \in [Slots -> [status : SlotStates, seconds : Nat, due : BOOLEAN]]
        /\ \A t \in Slots : slot'[t].status = slot[t].status /\ slot'[t].seconds = slot[t].seconds
    <2>1. CASE \E s \in Slots : TimePasses(s)
      <3>1. PICK s \in Slots : slot' = [slot EXCEPT ![s].due = TRUE]
        BY <2>1 DEF TimePasses
      <3> QED BY <3>1 DEF LedgerInv, QuotaTyped
    <2>2. CASE UNCHANGED quotaVars
      BY <2>2 DEF LedgerInv, QuotaTyped
    <2> QED BY <2>1, <2>2
  <1>3. Made' = Made /\ Reserved' = Reserved /\ Settled' = Settled
    BY <1>2 DEF Made, Reserved, Settled
  <1>4. Total(slot', Reserved) = Total(slot, Reserved) /\ Total(slot', Settled) = Total(slot, Settled)
    <2>1. IsFiniteSet(Reserved) /\ IsFiniteSet(Settled)
      BY LedgerSums, Summable
    <2>2. Reserved \subseteq Slots /\ Settled \subseteq Slots
      BY DEF Reserved, Settled
    <2> QED BY <1>2, <2>1, <2>2, TotalSame
  <1>5. Accounts'
    BY <1>1, <1>3, <1>4, LedgerSums DEF Accounts
  <1> QED BY <1>1, <1>2, <1>3, <1>5 DEF LedgerInv, QuotaTyped, QuotaRespected

LEMMA LedgerInit == Init => LedgerInv
  <1> SUFFICES ASSUME Init PROVE LedgerInv
    OBVIOUS
  <1>1. QuotaTyped /\ Made = {} /\ Reserved = {} /\ Settled = {} /\ held = 0 /\ used = 0
    BY DEF Init, QuotaTyped, NoSlot, SlotStates, Made, Reserved, Settled
  <1>2. Total(slot, {}) = 0
    BY TotalStep, FS_EmptySet
  <1>3. Accounts /\ QuotaRespected
    BY <1>1, <1>2, SecondsAssumption DEF Accounts, QuotaRespected
  <1> QED BY <1>1, <1>3, FS_EmptySet DEF LedgerInv

LEMMA LedgerStep == LedgerInv /\ [Next]_vars => LedgerInv'
  <1> SUFFICES ASSUME LedgerInv, [Next]_vars PROVE LedgerInv'
    OBVIOUS
  <1>1. ASSUME NEW s \in Slots, Release(s) PROVE LedgerInv'
    BY <1>1, GiveBackLedger DEF Release
  <1>2. CASE Sweep
    BY <1>2, GiveBackLedger DEF Sweep, Due
  <1>3. ASSUME NEW s \in Slots, NEW n \in Seconds, Reserve(s, n) PROVE LedgerInv'
    BY <1>3, ReserveLedger
  <1>4. ASSUME NEW s \in Slots, NEW n \in Seconds, Finalize(s, n) PROVE LedgerInv'
    BY <1>4, FinalizeLedger
  <1>5. ASSUME NEW s \in Slots, TimePasses(s) PROVE LedgerInv'
    BY <1>5, QuotaSame
  <1>6. CASE UNCHANGED quotaVars
    BY <1>6, QuotaSame
  <1>7. ASSUME NEW u \in Uploads, NEW b \in Bursts, Upload(u, b) PROVE UNCHANGED quotaVars
    BY <1>7 DEF Upload, Claim, Transcribe, MakeSegment, UploadDone, UploadFails
  <1>8. ASSUME (\E b \in Bursts : Discard(b)) \/ Leave \/ Join \/ EndForAll \/ RemoveSpeaker
               \/ AddSpeaker \/ Crash \/ UNCHANGED vars
        PROVE  UNCHANGED quotaVars
    BY <1>8 DEF Discard, Leave, Join, EndForAll, RemoveSpeaker, AddSpeaker, Crash
  <1> QED BY <1>1, <1>2, <1>3, <1>4, <1>5, <1>6, <1>7, <1>8 DEF Next

LEMMA LedgerInvHolds == Spec => []LedgerInv
  BY LedgerInit, LedgerStep, PTL DEF Spec

LEMMA SpeakerStep == SpeakerTyped /\ [Next]_vars => SpeakerTyped'
  <1> SUFFICES ASSUME SpeakerTyped, [Next]_vars PROVE SpeakerTyped'
    OBVIOUS
  <1>1. ASSUME NEW s \in Slots, NEW n,
               Release(s) \/ TimePasses(s) \/ Reserve(s, n) \/ Finalize(s, n)
        PROVE  UNCHANGED speakerVars
    BY <1>1 DEF Release, TimePasses, Reserve, Finalize
  <1>2. ASSUME NEW u \in Uploads, NEW b \in Bursts, Upload(u, b) PROVE UNCHANGED speakerVars
    BY <1>2 DEF Upload, Claim, Transcribe, MakeSegment, UploadDone, UploadFails
  <1>3. ASSUME Sweep \/ (\E b \in Bursts : Discard(b)) \/ Crash \/ UNCHANGED vars
        PROVE  UNCHANGED speakerVars
    BY <1>3 DEF Sweep, Discard, Crash
  <1>4. CASE UNCHANGED speakerVars
    BY <1>4 DEF SpeakerTyped
  <1>5. CASE Leave \/ Join \/ EndForAll \/ RemoveSpeaker \/ AddSpeaker
    BY <1>5 DEF Leave, Join, EndForAll, RemoveSpeaker, AddSpeaker, SpeakerTyped
  <1> QED BY <1>1, <1>2, <1>3, <1>4, <1>5 DEF Next

(* The rows keep their types.                                              *)
THEOREM TypeCorrect == Spec => []TypeOK
  <1>1. Init => SpeakerTyped
    BY DEF Init, SpeakerTyped
  <1>2. Spec => []SpeakerTyped
    BY <1>1, SpeakerStep, PTL DEF Spec
  <1>3. SpeakerTyped /\ LedgerInv /\ PendingInv => TypeOK
    BY DEF SpeakerTyped, LedgerInv, QuotaTyped, PendingInv, RowsOK, UploadPlaces, TypeOK
  <1> QED BY <1>2, <1>3, LedgerInvHolds, PendingInvHolds, PTL

(* The ledger is the sum of its reservations, whatever the order in which  *)
(* release, the sweep, finalize and new reservations of a row come.        *)
THEOREM LedgerExact == Spec => []LedgerAccounts
  <1>1. LedgerInv => LedgerAccounts
    BY SecondsTotal DEF LedgerInv, Accounts, LedgerAccounts, Settled
  <1> QED BY LedgerInvHolds, <1>1, PTL

(* What is promised and what is spent never exceed the monthly limit.      *)
THEOREM QuotaKept == Spec => []QuotaRespected
  <1>1. LedgerInv => QuotaRespected
    BY DEF LedgerInv
  <1> QED BY LedgerInvHolds, <1>1, PTL
=============================================================================
