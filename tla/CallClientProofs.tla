-------------------------- MODULE CallClientProofs --------------------------
(***************************************************************************)
(* Proofs about CallClient: its state is well-formed, nothing of a call    *)
(* outlives it, and the client implements the line of PhoneLine, for any   *)
(* number of calls and of sessions.                                        *)
(*                                                                         *)
(* The inductive invariant says of every session that is not the current   *)
(* one that it holds nothing and waits at most for a permission or for a   *)
(* closed connection; of the current one how far its set-up is; and of a   *)
(* poll that reads a call, or awaits its answer's description, that the    *)
(* session it read for has a call.                                         *)
(***************************************************************************)
EXTENDS CallClient, TLAPS

\* The record types of TypeOK.
Sessions ==
  [role : {"caller", "callee"}, call : Calls \cup {NoCall}, made : Calls \cup {NoCall},
   st : States, mic : BOOLEAN, peer : Peers, mine : {"none", "pending", "sending"},
   held : BOOLEAN, twice : BOOLEAN]
Rings == [pc : {"idle", "claiming", "starting", "done"}, sounds : BOOLEAN]
Polls ==
  [pc : PollStates, g : 0..gen, call : Calls \cup {NoCall},
   seen : {"none", "unused", "ringing", "accepted", "over"}, ice : BOOLEAN]

\* What is left of a session that is not, or no longer, the current one.
IdleOps == {"none", "media", "lost"}
Given(s) == ~s.mic /\ s.peer = "none" /\ s.mine = "none" /\ s.st \in {"IDLE", "ENDED"}
Idle(g) == Given(ses[g]) /\ ~ring[g].sounds /\ op[g] \in IdleOps

\* How far the set-up of a session is.
Early(s, o) ==
  /\ s.st = "CONNECTED" => s.peer = "stable"
  /\ o \in {"media", "iceservers", "get"} => s.peer = "none"
  /\ o \in {"offer", "remote"} => s.peer = "new"
  /\ o \in {"create", "created"} => s.peer = "offered"
  /\ o = "sdp" => s.peer = "described"
  /\ o \in {"offer", "create", "created"} => s.role = "caller"
  /\ o \in {"get", "remote", "sdp"} => s.role = "callee"
  /\ o \in {"media", "iceservers", "offer", "create", "created"} /\ s.role = "caller" => s.call = NoCall
  /\ s.peer = "offered" => s.role = "caller"
  /\ s.st = "INCOMING_RINGING" => s.role = "callee" /\ s.peer = "none" /\ o \in {"none", "get"}

PollOf ==
  /\ poll.pc = "call" => cur # 0 /\ ses[cur].call # NoCall
  /\ poll.pc = "describing" => poll.g # 0
  /\ poll.pc = "describing" /\ poll.g = cur => ses[cur].role = "caller" /\ ses[cur].call # NoCall

IInv ==
  /\ TypeOK
  /\ \A g \in Gens : g # cur => Idle(g)
  /\ \A g \in Gens : g > gen => op[g] = "none"
  /\ cur # 0 => Early(ses[cur], op[cur])
  /\ PollOf

\* What a step does to the line: leaves it with its session, frees it, or takes it
\* for a session that has nothing yet.
Moves ==
  \/ /\ UNCHANGED <<cur, gen>>
     /\ cur # 0 => /\ ses[cur].mic => ses'[cur].mic
                   /\ ses[cur].st = "CONNECTED" => ses'[cur].st = "CONNECTED"
  \/ cur # 0 /\ cur' = 0 /\ gen' = gen
  \/ /\ cur = 0 /\ cur' = gen + 1 /\ gen' = gen + 1
     /\ ~ses'[cur'].mic /\ ~ring'[cur'].sounds /\ ses'[cur'].st # "CONNECTED"

\* The types, by the names the proofs use.
LEMMA Typed ==
  ASSUME IInv, CallsAssumption
  PROVE  /\ gen \in 0..MaxGen /\ cur \in 0..gen /\ MaxGen \in Nat \ {0}
         /\ ses \in [Gens -> Sessions]
         /\ op \in [Gens -> OpStates]
         /\ ring \in [Gens -> Rings]
         /\ owner \in Calls \cup {NoCall}
         /\ poll \in Polls /\ NoPoll \in Polls
         /\ leaving \in SUBSET Calls
  BY DEF IInv, TypeOK, CallsAssumption, Sessions, Rings, Polls, NoPoll, PollStates

\* A session that is at work is the current one.
LEMMA AtWork ==
  ASSUME IInv, CallsAssumption
  PROVE  /\ cur # 0 => cur \in Gens
         /\ \A g \in Gens : op[g] \notin IdleOps \/ ses[g].peer # "none" \/ ring[g].sounds \/ ses[g].mine # "none"
                              => g = cur /\ cur # 0
         /\ \A g \in Gens : g # 0
  BY DEF IInv, TypeOK, Gens, CallsAssumption, Idle, Given

\* terminate(), from wherever it is called: the line is free afterwards.
LEMMA TerminateKeeps ==
  ASSUME IInv, CallsAssumption,
         NEW STATE ops, ops \in [Gens -> OpStates], \A g \in Gens : g # cur => ops[g] \in IdleOps,
         \A g \in Gens : g > gen => ops[g] = "none",
         NEW STATE p, p \in {poll, NoPoll}, NEW tell \in BOOLEAN,
         Terminate(ops, p, tell),
         open' \in BOOLEAN, pending' \in Incoming \cup {NoCall},
         UNCHANGED <<gen, external>>
  PROVE  IInv' /\ Moves
<1>1. poll' \in Polls /\ poll'.pc # "call" /\ (poll'.pc = "describing" => poll'.g # 0)
  <2>1. poll.pc = "call" => cur # 0  BY DEF IInv, PollOf
  <2>2. poll.pc = "describing" => poll.g # 0  BY DEF IInv, PollOf
  <2>3. NoPoll.pc = "idle"  BY DEF NoPoll
  <2> QED  BY <2>1, <2>2, <2>3, Typed DEF Terminate, PollAfterEnd
<1>2. cur' = 0 /\ gen' = gen  BY DEF Terminate
<1>3. op' \in [Gens -> OpStates] /\ \A g \in Gens : op'[g] \in IdleOps /\ (g > gen => op'[g] = "none")
  <2>1. CASE cur = 0  BY <2>1, AtWork DEF Terminate
  <2>2. CASE cur # 0
    <3>1. OpAfterEnd(ops[cur]) \in IdleOps \cap OpStates
      BY <2>2, AtWork DEF OpAfterEnd, IdleOps, OpStates
    <3> QED  BY <3>1, <2>2, AtWork, Typed DEF Terminate, Gens
  <2> QED  BY <2>1, <2>2
<1>4. /\ ses' \in [Gens -> Sessions] /\ ring' \in [Gens -> Rings]
      /\ \A g \in Gens : Given(ses'[g]) /\ ~ring'[g].sounds
  <2>1. \A g \in Gens : g # cur => Given(ses[g]) /\ ~ring[g].sounds  BY DEF IInv, Idle
  <2>2. CASE cur = 0  BY <2>1, <2>2, Typed, AtWork DEF Terminate
  <2>3. CASE cur # 0
    <3>1. cur \in Gens  BY <2>3, AtWork
    <3>2. Ended(ses[cur]) \in Sessions /\ Given(Ended(ses[cur]))
      BY <3>1, Typed DEF Ended, Blank, Sessions, Given, States, Peers
    <3>3. [ring[cur] EXCEPT !.sounds = FALSE] \in Rings /\ ~[ring[cur] EXCEPT !.sounds = FALSE].sounds
      BY <3>1, Typed DEF Rings
    <3>4. ses' = [ses EXCEPT ![cur] = Ended(ses[cur])]
      BY <2>3 DEF Terminate
    <3>5. ring' = [ring EXCEPT ![cur] = [ring[cur] EXCEPT !.sounds = FALSE]]
      BY <2>3 DEF Terminate
    <3> QED  BY <2>1, <3>1, <3>2, <3>3, <3>4, <3>5, Typed
  <2> QED  BY <2>2, <2>3
<1>5. owner' \in Calls \cup {NoCall} /\ leaving' \in SUBSET Calls
  BY Typed DEF Terminate, OwnerAfterSilence
<1>6. TypeOK'
  BY <1>1, <1>2, <1>3, <1>4, <1>5 DEF IInv, TypeOK, Sessions, Rings, Polls, external
<1>7. PollOf' /\ \A g \in Gens : Idle(g)'
  BY <1>1, <1>2, <1>3, <1>4 DEF PollOf, Idle
<1>8. Moves
  BY <1>2 DEF Moves, Terminate
<1> QED  BY <1>2, <1>3, <1>6, <1>7, <1>8 DEF IInv

\* A step of the current session, of its set-up or of its ring.
LEMMA SessionWorks ==
  ASSUME IInv, CallsAssumption, cur # 0,
         NEW STATE s, s \in Sessions, NEW STATE o, o \in OpStates,
         ses' = [ses EXCEPT ![cur] = s], op' = [op EXCEPT ![cur] = o],
         s.st # "ENDED", s.role = ses[cur].role, ses[cur].call # NoCall => s.call # NoCall,
         ses[cur].mic => s.mic, ses[cur].st = "CONNECTED" => s.st = "CONNECTED",
         Early(s, o),
         ring' \in [Gens -> Rings], \A g \in Gens : g # cur => ~ring'[g].sounds,
         owner' \in Calls \cup {NoCall}, pending' \in Incoming \cup {NoCall},
         \/ poll' \in {poll, NoPoll}
         \/ poll' \in Polls /\ poll'.pc = "describing" /\ poll'.g = cur /\ s.role = "caller" /\ s.call # NoCall,
         server' \in [Calls -> {"unused", "ringing", "accepted", "over"}],
         UNCHANGED <<open, gen, cur, leaving, ice>>
  PROVE  IInv' /\ Moves
<1>1. cur \in Gens  BY AtWork
<1>2. /\ ses' \in [Gens -> Sessions] /\ ses'[cur] = s
      /\ op' \in [Gens -> OpStates] /\ op'[cur] = o
      /\ \A g \in Gens : g # cur => ses'[g] = ses[g] /\ op'[g] = op[g]
  BY <1>1, Typed
<1>3. poll' \in Polls  BY Typed
<1>4. TypeOK'
  BY <1>2, <1>3 DEF IInv, TypeOK, Sessions, Rings, Polls
<1>5. \A g \in Gens : g # cur' => Idle(g)'
  BY <1>2 DEF IInv, Idle
<1>6. PollOf'
  BY <1>2 DEF IInv, PollOf, NoPoll
<1>8. \A g \in Gens : g > gen' => op'[g] = "none"
  BY <1>1, <1>2, Typed DEF IInv, Gens
<1>7. Moves
  BY <1>2 DEF Moves
<1> QED  BY <1>2, <1>4, <1>5, <1>6, <1>7, <1>8 DEF IInv

\* A step that leaves every session, its set-up and the poll as they are.
LEMMA SessionsStay ==
  ASSUME IInv, CallsAssumption,
         ring' \in [Gens -> Rings], \A g \in Gens : g # cur => ~ring'[g].sounds,
         owner' \in Calls \cup {NoCall}, leaving' \in SUBSET Calls,
         server' \in [Calls -> {"unused", "ringing", "accepted", "over"}], ice' \in SUBSET Calls,
         poll' \in {poll, NoPoll},
         UNCHANGED <<open, gen, cur, ses, op, pending>>
  PROVE  IInv' /\ Moves
<1>1. poll' \in Polls  BY Typed
<1>2. TypeOK'
  BY <1>1 DEF IInv, TypeOK, Rings, Polls
<1>3. \A g \in Gens : g # cur' => Idle(g)'
  BY DEF IInv, Idle
<1>4. PollOf'
  BY DEF IInv, PollOf, NoPoll
<1> QED  BY <1>2, <1>3, <1>4 DEF IInv, Moves

\* Only the current session's ring sounds, before and after it is silenced.
LEMMA RingsQuiet ==
  ASSUME IInv, CallsAssumption
  PROVE  /\ ring \in [Gens -> Rings]
         /\ \A g \in Gens : g # cur => ~ring[g].sounds
         /\ Silence /\ cur # 0 => /\ ring' \in [Gens -> Rings]
                                  /\ \A g \in Gens : g # cur => ~ring'[g].sounds
                                  /\ owner' \in Calls \cup {NoCall}
<1>1. ring \in [Gens -> Rings] /\ \A g \in Gens : g # cur => ~ring[g].sounds
  BY Typed DEF IInv, Idle
<1>2. ASSUME Silence, cur # 0
      PROVE  /\ ring' \in [Gens -> Rings]
             /\ \A g \in Gens : g # cur => ~ring'[g].sounds
             /\ owner' \in Calls \cup {NoCall}
  <2>1. cur \in Gens  BY <1>2, AtWork
  <2>2. [ring[cur] EXCEPT !.sounds = FALSE] \in Rings
    BY <1>1, <2>1 DEF Rings
  <2>3. ring' = [ring EXCEPT ![cur] = [ring[cur] EXCEPT !.sounds = FALSE]]
    BY <1>2 DEF Silence
  <2>4. owner' \in Calls \cup {NoCall}
    BY <1>2, Typed DEF Silence, OwnerAfterSilence
  <2> QED  BY <1>1, <2>1, <2>2, <2>3, <2>4
<1> QED  BY <1>1, <1>2

\* A set-up that fails terminates whatever session is current.
LEMMA SetupFailsKeeps ==
  ASSUME IInv, CallsAssumption, open, NEW g \in Gens, SetupFails(g, PollAfterOp(g))
  PROVE  IInv' /\ Moves
<1> DEFINE ops == [op EXCEPT ![g] = "none"]
<1>1. /\ ops \in [Gens -> OpStates] /\ \A h \in Gens : h # cur => ops[h] \in IdleOps
      /\ \A h \in Gens : h > gen => ops[h] = "none"
  BY Typed DEF IInv, Idle, OpStates, IdleOps
<1>2. PollAfterOp(g) \in {poll, NoPoll}  BY DEF PollAfterOp
<1>3. Terminate(ops, PollAfterOp(g), FALSE) /\ UNCHANGED <<open, gen, pending, external>>
  BY DEF SetupFails
<1>4. open' \in BOOLEAN /\ pending' \in Incoming \cup {NoCall}
  BY <1>3 DEF IInv, TypeOK
<1> QED  BY <1>1, <1>2, <1>3, <1>4, TerminateKeeps

\* terminate() called with the set-ups as they are.
LEMMA TerminateNowKeeps ==
  ASSUME IInv, CallsAssumption, NEW tell \in BOOLEAN, NEW STATE p, p \in {poll, NoPoll}, Terminate(op, p, tell),
         open' \in BOOLEAN, pending' \in {pending, NoCall}, UNCHANGED <<gen, external>>
  PROVE  IInv' /\ Moves
<1>1. /\ op \in [Gens -> OpStates] /\ \A h \in Gens : h # cur => op[h] \in IdleOps
      /\ \A h \in Gens : h > gen => op[h] = "none"
  BY Typed DEF IInv, Idle
<1>2. pending' \in Incoming \cup {NoCall}
  BY DEF IInv, TypeOK
<1> QED  BY <1>1, <1>2, TerminateKeeps

\* What is known of the current session, and of what a step of its own leaves alone.
LEMMA Current ==
  ASSUME IInv, CallsAssumption, cur # 0
  PROVE  /\ cur \in Gens /\ ses[cur] \in Sessions /\ op[cur] \in OpStates
         /\ ses[cur].st # "ENDED" /\ Early(ses[cur], op[cur])
         /\ ses = [ses EXCEPT ![cur] = ses[cur]] /\ op = [op EXCEPT ![cur] = op[cur]]
         /\ owner \in Calls \cup {NoCall} /\ pending \in Incoming \cup {NoCall}
         /\ server \in [Calls -> {"unused", "ringing", "accepted", "over"}]
<1>1. cur \in Gens /\ ses \in [Gens -> Sessions] /\ op \in [Gens -> OpStates]
  BY AtWork, Typed
<1> QED  BY <1>1 DEF IInv, TypeOK

\* The permission answered: of the current session, or of one that has ended.
LEMMA MediaGrantedKeeps ==
  ASSUME IInv, CallsAssumption, NEW g \in Gens, MediaGranted(g)
  PROVE  IInv' /\ Moves
<1>1. CASE ~Live(g)
  BY <1>1, SetupFailsKeeps DEF MediaGranted
<1>2. CASE Live(g)
  <2> DEFINE s == [ses[cur] EXCEPT !.mic = TRUE]
  <2>1. cur # 0 /\ g = cur /\ op[cur] = "media"  BY <1>2 DEF MediaGranted, Live
  <2>2. s \in Sessions /\ s.st # "ENDED" /\ s.role = ses[cur].role /\ s.call = ses[cur].call /\ s.mic
        /\ s.st = ses[cur].st
    BY <2>1, Current DEF Sessions
  <2>3. Early(s, "iceservers")
    BY <2>1, Current DEF Early, Sessions
  <2>4. ses' = [ses EXCEPT ![cur] = s] /\ op' = [op EXCEPT ![cur] = "iceservers"]
    BY <1>2, <2>1 DEF MediaGranted
  <2>5. UNCHANGED <<open, gen, cur, ring, owner, poll, pending, leaving, external>>
    BY <1>2 DEF MediaGranted
  <2> HIDE DEF s
  <2> QED  BY <2>1, <2>2, <2>3, <2>4, <2>5, Current, RingsQuiet, SessionWorks DEF OpStates, Requests, external
<1> QED  BY <1>1, <1>2

\* The steps of a set-up, which only the current session takes.
LEMMA ConfigArrivesKeeps ==
  ASSUME IInv, CallsAssumption, NEW g \in Gens, ConfigArrives(g)
  PROVE  IInv' /\ Moves
<1> DEFINE s == [ses[cur] EXCEPT !.peer = "new", !.st = IF ses[cur].role = "caller" THEN "NEGOTIATING" ELSE @]
<1>1. cur # 0 /\ g = cur /\ op[cur] = "iceservers"
  BY AtWork DEF ConfigArrives, IdleOps
<1>2. s \in Sessions /\ s.st # "ENDED" /\ s.role = ses[cur].role /\ s.mic = ses[cur].mic
      /\ (ses[cur].call # NoCall => s.call # NoCall)
      /\ (ses[cur].st = "CONNECTED" => s.st = "CONNECTED")
  BY <1>1, Current DEF ConfigArrives, Sessions, Early, States, Peers
<1>3. Early(s, IF ses[cur].role = "caller" THEN "offer" ELSE "remote")
  BY <1>1, Current DEF ConfigArrives, Early, Sessions
<1>4. ses' = [ses EXCEPT ![cur] = s] /\ op' = [op EXCEPT ![cur] = IF ses[cur].role = "caller" THEN "offer" ELSE "remote"]
        /\ UNCHANGED <<open, gen, cur, leaving, ice>>
  BY <1>1, Current DEF ConfigArrives, external
<1>5. /\ ring' \in [Gens -> Rings] /\ \A h \in Gens : h # cur => ~ring'[h].sounds
      /\ owner' \in Calls \cup {NoCall} /\ poll' \in {poll, NoPoll} /\ pending' \in Incoming \cup {NoCall}
      /\ server' \in [Calls -> {"unused", "ringing", "accepted", "over"}]
  BY <1>1, Current, RingsQuiet DEF ConfigArrives, external, Rings, PollAfterOp
<1>6. (IF ses[cur].role = "caller" THEN "offer" ELSE "remote") \in OpStates
  BY DEF OpStates, Requests, PeerWaits
<1> HIDE DEF s
<1> QED  BY <1>1, <1>2, <1>3, <1>4, <1>5, <1>6, SessionWorks

LEMMA OfferMadeKeeps ==
  ASSUME IInv, CallsAssumption, NEW g \in Gens, OfferMade(g)
  PROVE  IInv' /\ Moves
<1> DEFINE s == [ses[cur] EXCEPT !.peer = "offered"]
<1>1. cur # 0 /\ g = cur /\ op[cur] = "offer"
  BY AtWork DEF OfferMade, IdleOps
<1>2. s \in Sessions /\ s.st # "ENDED" /\ s.role = ses[cur].role /\ s.mic = ses[cur].mic
      /\ (ses[cur].call # NoCall => s.call # NoCall)
      /\ (ses[cur].st = "CONNECTED" => s.st = "CONNECTED")
  BY <1>1, Current DEF OfferMade, Sessions, Early, States, Peers
<1>3. Early(s, "create")
  BY <1>1, Current DEF OfferMade, Early, Sessions
<1>4. ses' = [ses EXCEPT ![cur] = s] /\ op' = [op EXCEPT ![cur] = "create"]
        /\ UNCHANGED <<open, gen, cur, leaving, ice>>
  BY <1>1, Current DEF OfferMade, external
<1>5. /\ ring' \in [Gens -> Rings] /\ \A h \in Gens : h # cur => ~ring'[h].sounds
      /\ owner' \in Calls \cup {NoCall} /\ poll' \in {poll, NoPoll} /\ pending' \in Incoming \cup {NoCall}
      /\ server' \in [Calls -> {"unused", "ringing", "accepted", "over"}]
  BY <1>1, Current, RingsQuiet DEF OfferMade, external, Rings, PollAfterOp
<1>6. ("create") \in OpStates
  BY DEF OpStates, Requests, PeerWaits
<1> HIDE DEF s
<1> QED  BY <1>1, <1>2, <1>3, <1>4, <1>5, <1>6, SessionWorks

LEMMA CreateServedKeeps ==
  ASSUME IInv, CallsAssumption, NEW g \in Gens, NEW k \in Calls, CreateServed(g, k)
  PROVE  IInv' /\ Moves
<1> DEFINE s == [ses[cur] EXCEPT !.made = k]
<1>1. cur # 0 /\ g = cur /\ op[cur] = "create"
  BY AtWork DEF CreateServed, IdleOps
<1>2. s \in Sessions /\ s.st # "ENDED" /\ s.role = ses[cur].role /\ s.mic = ses[cur].mic
      /\ (ses[cur].call # NoCall => s.call # NoCall)
      /\ (ses[cur].st = "CONNECTED" => s.st = "CONNECTED")
  BY <1>1, Current DEF CreateServed, Sessions, Early, States, Peers
<1>3. Early(s, "created")
  BY <1>1, Current DEF CreateServed, Early, Sessions
<1>4. ses' = [ses EXCEPT ![cur] = s] /\ op' = [op EXCEPT ![cur] = "created"]
        /\ UNCHANGED <<open, gen, cur, leaving, ice>>
  BY <1>1, Current DEF CreateServed, external
<1>5. /\ ring' \in [Gens -> Rings] /\ \A h \in Gens : h # cur => ~ring'[h].sounds
      /\ owner' \in Calls \cup {NoCall} /\ poll' \in {poll, NoPoll} /\ pending' \in Incoming \cup {NoCall}
      /\ server' \in [Calls -> {"unused", "ringing", "accepted", "over"}]
  BY <1>1, Current, RingsQuiet DEF CreateServed, external, Rings, PollAfterOp, Calls
<1>6. ("created") \in OpStates
  BY DEF OpStates, Requests, PeerWaits
<1> HIDE DEF s
<1> QED  BY <1>1, <1>2, <1>3, <1>4, <1>5, <1>6, SessionWorks

LEMMA CreateRepliedKeeps ==
  ASSUME IInv, CallsAssumption, NEW g \in Gens, CreateReplied(g)
  PROVE  IInv' /\ Moves
<1> DEFINE s == [ses[cur] EXCEPT !.call = ses[cur].made, !.made = NoCall, !.st = "OUTGOING_RINGING"]
<1>1. cur # 0 /\ g = cur /\ op[cur] = "created"
  BY AtWork DEF CreateReplied, IdleOps
<1>2. s \in Sessions /\ s.st # "ENDED" /\ s.role = ses[cur].role /\ s.mic = ses[cur].mic
      /\ (ses[cur].call # NoCall => s.call # NoCall)
      /\ (ses[cur].st = "CONNECTED" => s.st = "CONNECTED")
  BY <1>1, Current DEF CreateReplied, Sessions, Early, States, Peers
<1>3. Early(s, "ringback")
  BY <1>1, Current DEF CreateReplied, Early, Sessions
<1>4. ses' = [ses EXCEPT ![cur] = s] /\ op' = [op EXCEPT ![cur] = "ringback"]
        /\ UNCHANGED <<open, gen, cur, leaving, ice>>
  BY <1>1, Current DEF CreateReplied, external
<1>5. /\ ring' \in [Gens -> Rings] /\ \A h \in Gens : h # cur => ~ring'[h].sounds
      /\ owner' \in Calls \cup {NoCall} /\ poll' \in {poll, NoPoll} /\ pending' \in Incoming \cup {NoCall}
      /\ server' \in [Calls -> {"unused", "ringing", "accepted", "over"}]
  BY <1>1, Current, RingsQuiet DEF CreateReplied, external, Rings, PollAfterOp
<1>6. ("ringback") \in OpStates
  BY DEF OpStates, Requests, PeerWaits
<1> HIDE DEF s
<1> QED  BY <1>1, <1>2, <1>3, <1>4, <1>5, <1>6, SessionWorks

LEMMA FlushPendingIceKeeps ==
  ASSUME IInv, CallsAssumption, NEW g \in Gens, FlushPendingIce(g)
  PROVE  IInv' /\ Moves
<1> DEFINE s == [ses[cur] EXCEPT !.mine = IF @ = "pending" THEN "sending" ELSE @]
<1>1. cur # 0 /\ g = cur /\ op[cur] = "ringback"
  BY AtWork DEF FlushPendingIce, IdleOps
<1>2. s \in Sessions /\ s.st # "ENDED" /\ s.role = ses[cur].role /\ s.mic = ses[cur].mic
      /\ (ses[cur].call # NoCall => s.call # NoCall)
      /\ (ses[cur].st = "CONNECTED" => s.st = "CONNECTED")
  BY <1>1, Current DEF FlushPendingIce, Sessions, Early, States, Peers
<1>3. Early(s, "none")
  BY <1>1, Current DEF FlushPendingIce, Early, Sessions
<1>4. ses' = [ses EXCEPT ![cur] = s] /\ op' = [op EXCEPT ![cur] = "none"]
        /\ UNCHANGED <<open, gen, cur, leaving, ice>>
  BY <1>1, Current DEF FlushPendingIce, external
<1>5. /\ ring' \in [Gens -> Rings] /\ \A h \in Gens : h # cur => ~ring'[h].sounds
      /\ owner' \in Calls \cup {NoCall} /\ poll' \in {poll, NoPoll} /\ pending' \in Incoming \cup {NoCall}
      /\ server' \in [Calls -> {"unused", "ringing", "accepted", "over"}]
  BY <1>1, Current, RingsQuiet DEF FlushPendingIce, external, Rings, PollAfterOp
<1>6. ("none") \in OpStates
  BY DEF OpStates, Requests, PeerWaits
<1> HIDE DEF s
<1> QED  BY <1>1, <1>2, <1>3, <1>4, <1>5, <1>6, SessionWorks

LEMMA CallIsReadKeeps ==
  ASSUME IInv, CallsAssumption, NEW g \in Gens, CallIsRead(g)
  PROVE  IInv' /\ Moves
<1>1. CASE ~(server[ses[g].call] = "ringing")
  BY <1>1, SetupFailsKeeps DEF CallIsRead
<1>2. CASE server[ses[g].call] = "ringing"
  <2> DEFINE s == [ses[cur] EXCEPT !.st = "ANSWERING"]
  <2>1. cur # 0 /\ g = cur /\ op[cur] = "get"
    BY AtWork DEF CallIsRead, IdleOps
  <2>2. s \in Sessions /\ s.st # "ENDED" /\ s.role = ses[cur].role /\ s.mic = ses[cur].mic
        /\ (ses[cur].call # NoCall => s.call # NoCall)
        /\ (ses[cur].st = "CONNECTED" => s.st = "CONNECTED")
    BY <1>2, <2>1, Current DEF CallIsRead, Sessions, Early, States, Peers
  <2>3. Early(s, "media")
    BY <1>2, <2>1, Current DEF CallIsRead, Early, Sessions
  <2>4. ses' = [ses EXCEPT ![cur] = s] /\ op' = [op EXCEPT ![cur] = "media"]
        /\ UNCHANGED <<open, gen, cur, leaving, ice>>
    BY <1>2, <2>1, Current DEF CallIsRead, external
  <2>5. /\ ring' \in [Gens -> Rings] /\ \A h \in Gens : h # cur => ~ring'[h].sounds
        /\ owner' \in Calls \cup {NoCall} /\ poll' \in {poll, NoPoll} /\ pending' \in Incoming \cup {NoCall}
        /\ server' \in [Calls -> {"unused", "ringing", "accepted", "over"}]
    BY <1>2, <2>1, Current, RingsQuiet DEF CallIsRead, external, Rings, PollAfterOp
  <2>6. ("media") \in OpStates
    BY DEF OpStates, Requests, PeerWaits
  <2> HIDE DEF s
  <2> QED  BY <2>1, <2>2, <2>3, <2>4, <2>5, <2>6, SessionWorks
<1> QED  BY <1>1, <1>2

LEMMA OfferAppliedKeeps ==
  ASSUME IInv, CallsAssumption, NEW g \in Gens, OfferApplied(g)
  PROVE  IInv' /\ Moves
<1> DEFINE s == [ses[cur] EXCEPT !.peer = "described"]
<1>1. cur # 0 /\ g = cur /\ op[cur] = "remote"
  BY AtWork DEF OfferApplied, IdleOps
<1>2. s \in Sessions /\ s.st # "ENDED" /\ s.role = ses[cur].role /\ s.mic = ses[cur].mic
      /\ (ses[cur].call # NoCall => s.call # NoCall)
      /\ (ses[cur].st = "CONNECTED" => s.st = "CONNECTED")
  BY <1>1, Current DEF OfferApplied, Sessions, Early, States, Peers
<1>3. Early(s, "sdp")
  BY <1>1, Current DEF OfferApplied, Early, Sessions
<1>4. ses' = [ses EXCEPT ![cur] = s] /\ op' = [op EXCEPT ![cur] = "sdp"]
        /\ UNCHANGED <<open, gen, cur, leaving, ice>>
  BY <1>1, Current DEF OfferApplied, external
<1>5. /\ ring' \in [Gens -> Rings] /\ \A h \in Gens : h # cur => ~ring'[h].sounds
      /\ owner' \in Calls \cup {NoCall} /\ poll' \in {poll, NoPoll} /\ pending' \in Incoming \cup {NoCall}
      /\ server' \in [Calls -> {"unused", "ringing", "accepted", "over"}]
  BY <1>1, Current, RingsQuiet DEF OfferApplied, external, Rings, PollAfterOp
<1>6. ("sdp") \in OpStates
  BY DEF OpStates, Requests, PeerWaits
<1> HIDE DEF s
<1> QED  BY <1>1, <1>2, <1>3, <1>4, <1>5, <1>6, SessionWorks

LEMMA AnswerMadeKeeps ==
  ASSUME IInv, CallsAssumption, NEW g \in Gens, AnswerMade(g)
  PROVE  IInv' /\ Moves
<1> DEFINE s == [ses[cur] EXCEPT !.peer = "stable"]
<1>1. cur # 0 /\ g = cur /\ op[cur] = "sdp"
  BY AtWork DEF AnswerMade, IdleOps
<1>2. s \in Sessions /\ s.st # "ENDED" /\ s.role = ses[cur].role /\ s.mic = ses[cur].mic
      /\ (ses[cur].call # NoCall => s.call # NoCall)
      /\ (ses[cur].st = "CONNECTED" => s.st = "CONNECTED")
  BY <1>1, Current DEF AnswerMade, Sessions, Early, States, Peers
<1>3. Early(s, "post")
  BY <1>1, Current DEF AnswerMade, Early, Sessions
<1>4. ses' = [ses EXCEPT ![cur] = s] /\ op' = [op EXCEPT ![cur] = "post"]
        /\ UNCHANGED <<open, gen, cur, leaving, ice>>
  BY <1>1, Current DEF AnswerMade, external
<1>5. /\ ring' \in [Gens -> Rings] /\ \A h \in Gens : h # cur => ~ring'[h].sounds
      /\ owner' \in Calls \cup {NoCall} /\ poll' \in {poll, NoPoll} /\ pending' \in Incoming \cup {NoCall}
      /\ server' \in [Calls -> {"unused", "ringing", "accepted", "over"}]
  BY <1>1, Current, RingsQuiet DEF AnswerMade, external, Rings, PollAfterOp
<1>6. ("post") \in OpStates
  BY DEF OpStates, Requests, PeerWaits
<1> HIDE DEF s
<1> QED  BY <1>1, <1>2, <1>3, <1>4, <1>5, <1>6, SessionWorks

LEMMA AnswerServedKeeps ==
  ASSUME IInv, CallsAssumption, NEW g \in Gens, AnswerServed(g)
  PROVE  IInv' /\ Moves
<1>1. CASE ~(server[ses[g].call] = "ringing")
  BY <1>1, SetupFailsKeeps DEF AnswerServed
<1>2. CASE server[ses[g].call] = "ringing"
  <2> DEFINE s == ses[cur]
  <2>1. cur # 0 /\ g = cur /\ op[cur] = "post"
    BY AtWork DEF AnswerServed, IdleOps
  <2>2. s \in Sessions /\ s.st # "ENDED" /\ s.role = ses[cur].role /\ s.mic = ses[cur].mic
        /\ (ses[cur].call # NoCall => s.call # NoCall)
        /\ (ses[cur].st = "CONNECTED" => s.st = "CONNECTED")
    BY <1>2, <2>1, Current DEF AnswerServed, Sessions, Early, States, Peers
  <2>3. Early(s, "posted")
    BY <1>2, <2>1, Current DEF AnswerServed, Early, Sessions
  <2>4. ses' = [ses EXCEPT ![cur] = s] /\ op' = [op EXCEPT ![cur] = "posted"]
        /\ UNCHANGED <<open, gen, cur, leaving, ice>>
    BY <1>2, <2>1, Current DEF AnswerServed, external
  <2>5. /\ ring' \in [Gens -> Rings] /\ \A h \in Gens : h # cur => ~ring'[h].sounds
        /\ owner' \in Calls \cup {NoCall} /\ poll' \in {poll, NoPoll} /\ pending' \in Incoming \cup {NoCall}
        /\ server' \in [Calls -> {"unused", "ringing", "accepted", "over"}]
    BY <1>2, <2>1, Current, RingsQuiet DEF AnswerServed, external, Rings, PollAfterOp
  <2>6. ("posted") \in OpStates
    BY DEF OpStates, Requests, PeerWaits
  <2> HIDE DEF s
  <2> QED  BY <2>1, <2>2, <2>3, <2>4, <2>5, <2>6, SessionWorks
<1> QED  BY <1>1, <1>2

LEMMA AnswerRepliedKeeps ==
  ASSUME IInv, CallsAssumption, NEW g \in Gens, AnswerReplied(g)
  PROVE  IInv' /\ Moves
<1>1. CASE ~(ses[g].st = "ANSWERING")
  BY <1>1, SetupFailsKeeps DEF AnswerReplied
<1>2. CASE ses[g].st = "ANSWERING"
  <2> DEFINE s == WithIce([ses[cur] EXCEPT !.st = "NEGOTIATING"], ses[cur].call \in ice)
  <2>1. cur # 0 /\ g = cur /\ op[cur] = "posted"
    BY AtWork DEF AnswerReplied, IdleOps
  <2>2. s \in Sessions /\ s.st # "ENDED" /\ s.role = ses[cur].role /\ s.mic = ses[cur].mic
        /\ (ses[cur].call # NoCall => s.call # NoCall)
        /\ (ses[cur].st = "CONNECTED" => s.st = "CONNECTED")
    BY ZenonT(40), <1>2, <2>1, Current DEF AnswerReplied, Sessions, Early, States, Peers, WithIce
  <2>3. Early(s, "none")
    BY <1>2, <2>1, Current DEF AnswerReplied, Early, Sessions, WithIce
  <2>4. ses' = [ses EXCEPT ![cur] = s] /\ op' = [op EXCEPT ![cur] = "none"]
        /\ UNCHANGED <<open, gen, cur, leaving, ice>>
    BY <1>2, <2>1, Current DEF AnswerReplied, external
  <2>5. /\ ring' \in [Gens -> Rings] /\ \A h \in Gens : h # cur => ~ring'[h].sounds
        /\ owner' \in Calls \cup {NoCall} /\ poll' \in {poll, NoPoll} /\ pending' \in Incoming \cup {NoCall}
        /\ server' \in [Calls -> {"unused", "ringing", "accepted", "over"}]
    BY <1>2, <2>1, Current, RingsQuiet DEF AnswerReplied, external, Rings, PollAfterOp
  <2>6. ("none") \in OpStates
    BY DEF OpStates, Requests, PeerWaits
  <2> HIDE DEF s
  <2> QED  BY <2>1, <2>2, <2>3, <2>4, <2>5, <2>6, SessionWorks
<1> QED  BY <1>1, <1>2

\* All the steps of a set-up.
LEMMA SetupSettlesKeeps ==
  ASSUME IInv, CallsAssumption, NEW g \in Gens, SetupSettles(g)
  PROVE  IInv' /\ Moves
<1>1. CASE RequestFails(g)  BY <1>1, SetupFailsKeeps DEF RequestFails
<1>2. CASE PeerStepFails(g)  BY <1>2, SetupFailsKeeps DEF PeerStepFails
<1>3. ASSUME NEW k \in Calls, CreateServed(g, k) PROVE IInv' /\ Moves
  BY <1>3, CreateServedKeeps
<1> QED
  BY <1>1, <1>2, <1>3, ConfigArrivesKeeps, OfferMadeKeeps, CreateRepliedKeeps, FlushPendingIceKeeps,
     CallIsReadKeeps, OfferAppliedKeeps, AnswerMadeKeeps, AnswerServedKeeps, AnswerRepliedKeeps
     DEF SetupSettles

\* The steps of a session's connection and of its candidates.
LEMMA IceGatheredKeeps ==
  ASSUME IInv, CallsAssumption, NEW g \in Gens, IceGathered(g)
  PROVE  IInv' /\ Moves
<1> DEFINE s == [ses[cur] EXCEPT !.mine = IF ses[cur].call = NoCall THEN "pending" ELSE "sending"]
<1>1. cur # 0 /\ g = cur  BY DEF IceGathered, Live
<1>2. s \in Sessions /\ s.st = ses[cur].st /\ s.role = ses[cur].role
        /\ s.mic = ses[cur].mic /\ s.call = ses[cur].call
      /\ Early(s, op[cur])
  BY <1>1, Current DEF Sessions, Early
<1>3. ses' = [ses EXCEPT ![cur] = s] /\ op' = [op EXCEPT ![cur] = op[cur]]
  BY <1>1, Current DEF IceGathered
<1>4. UNCHANGED <<open, gen, cur, ring, owner, poll, pending, leaving, external>>
  BY DEF IceGathered
<1> HIDE DEF s
<1> QED  BY <1>1, <1>2, <1>3, <1>4, Current, RingsQuiet, SessionWorks DEF external

\* A candidate sent, well or to a call that is over.
LEMMA IceSentKeeps ==
  ASSUME IInv, CallsAssumption, NEW g \in Gens, IceSent(g)
  PROVE  IInv' /\ Moves
<1> DEFINE s == [ses[cur] EXCEPT !.mine = "none"]
<1>1. cur # 0 /\ g = cur  BY AtWork DEF IceSent
<1>2. CASE server[ses[g].call] = "over"
  <2>1. Terminate(op, poll, FALSE) /\ UNCHANGED <<open, gen, pending, external>>
    BY <1>2 DEF IceSent
  <2> QED  BY <2>1, TerminateNowKeeps DEF IInv, TypeOK
<1>3. CASE server[ses[g].call] # "over"
  <2>1. s \in Sessions /\ s.st = ses[cur].st /\ s.role = ses[cur].role
        /\ s.mic = ses[cur].mic /\ s.call = ses[cur].call
        /\ Early(s, op[cur])
    BY <1>1, Current DEF Sessions, Early
  <2>2. ses' = [ses EXCEPT ![cur] = s] /\ op' = [op EXCEPT ![cur] = op[cur]]
    BY <1>1, <1>3, Current DEF IceSent
  <2>3. UNCHANGED <<open, gen, cur, ring, owner, poll, pending, leaving, external>>
    BY <1>3 DEF IceSent
  <2> HIDE DEF s
  <2> QED  BY <1>1, <2>1, <2>2, <2>3, Current, RingsQuiet, SessionWorks DEF external
<1> QED  BY <1>2, <1>3

\* The other party's track silences the ring.
LEMMA RemoteTrackKeeps ==
  ASSUME IInv, CallsAssumption, NEW g \in Gens, RemoteTrack(g)
  PROVE  IInv' /\ Moves
<1>1. cur # 0 /\ Silence  BY DEF RemoteTrack, Live
<1>2. UNCHANGED <<open, gen, cur, ses, op, poll, pending, leaving, external>>
  BY DEF RemoteTrack
<1> QED  BY <1>1, <1>2, RingsQuiet, Current, Typed, SessionsStay DEF external, IInv, TypeOK

\* The connection comes up: only over a stable description.
LEMMA ConnectedKeeps ==
  ASSUME IInv, CallsAssumption, NEW g \in Gens, Connected(g)
  PROVE  IInv' /\ Moves
<1> DEFINE s == [ses[cur] EXCEPT
                   !.st = IF @ \in {"OUTGOING_RINGING", "ANSWERING", "NEGOTIATING"} THEN "CONNECTED" ELSE @]
<1>1. cur # 0 /\ g = cur /\ Silence  BY DEF Connected, Live
<1>2. s \in Sessions /\ s.st # "ENDED" /\ (ses[cur].st = "CONNECTED" => s.st = "CONNECTED")
      /\ s.role = ses[cur].role /\ s.mic = ses[cur].mic /\ s.call = ses[cur].call /\ Early(s, op[cur])
  BY <1>1, Current DEF Connected, Sessions, Early, States
<1>3. ses' = [ses EXCEPT ![cur] = s] /\ op' = [op EXCEPT ![cur] = op[cur]]
  BY <1>1, Current DEF Connected
<1>4. UNCHANGED <<open, gen, cur, poll, pending, leaving, external>>
  BY DEF Connected
<1> HIDE DEF s
<1> QED  BY <1>1, <1>2, <1>3, <1>4, Current, RingsQuiet, SessionWorks DEF external

\* A ring disposed meanwhile does not sound, however its claim or its play settles.
LEMMA RingSettlesKeeps ==
  ASSUME IInv, CallsAssumption, NEW g \in Gens, RingSettles(g)
  PROVE  IInv' /\ Moves
<1>1. UNCHANGED <<open, gen, cur, ses, op, poll, pending, leaving, external>>
  BY DEF RingSettles, ClaimGranted, ClaimDenied, PlaySettles
<1>2. owner' \in Calls \cup {NoCall}
  BY Typed DEF RingSettles, ClaimGranted, ClaimDenied, PlaySettles, Sessions
<1>3. ring' \in [Gens -> Rings] /\ \A h \in Gens : h # cur => ~ring'[h].sounds
  <2>1. ASSUME NEW r \in Rings, g # cur => ~r.sounds, ring' = [ring EXCEPT ![g] = r]
        PROVE  ring' \in [Gens -> Rings] /\ \A h \in Gens : h # cur => ~ring'[h].sounds
    BY <2>1, RingsQuiet
  <2>2. CASE ClaimGranted(g)
    <3>1. CASE Live(g)
      <4>1. [pc |-> "starting", sounds |-> TRUE] \in Rings  BY DEF Rings
      <4> QED  BY <2>2, <3>1, <4>1, <2>1 DEF ClaimGranted, Live
    <3>2. CASE ~Live(g)
      <4>1. [ring[g] EXCEPT !.pc = "done"] \in Rings /\ [ring[g] EXCEPT !.pc = "done"].sounds = ring[g].sounds
        BY RingsQuiet DEF Rings
      <4>2. ring' = [ring EXCEPT ![g] = [ring[g] EXCEPT !.pc = "done"]]
        BY <2>2, <3>2 DEF ClaimGranted
      <4> QED  BY <4>1, <4>2, <2>1, RingsQuiet
    <3> QED  BY <3>1, <3>2
  <2>3. CASE ClaimDenied(g)
    <3>1. [pc |-> "done", sounds |-> FALSE] \in Rings  BY DEF Rings
    <3> QED  BY <2>3, <3>1, <2>1 DEF ClaimDenied
  <2>4. CASE PlaySettles(g)
    <3>1. PICK plays \in BOOLEAN :
            ring' = [ring EXCEPT ![g] = [pc |-> "done", sounds |-> (plays /\ ring[g].sounds) /\ owner = ses[g].call]]
      BY <2>4 DEF PlaySettles
    <3> DEFINE r == [pc |-> "done", sounds |-> (plays /\ ring[g].sounds) /\ owner = ses[g].call]
    <3>2. r \in Rings /\ (g # cur => ~r.sounds)  BY RingsQuiet DEF Rings
    <3> QED  BY <3>1, <3>2, <2>1
  <2> QED  BY <2>2, <2>3, <2>4 DEF RingSettles
<1> QED  BY <1>1, <1>2, <1>3, Typed, SessionsStay DEF external, IInv, TypeOK

\* All the steps of a session.
LEMMA SessionStepKeeps ==
  ASSUME IInv, CallsAssumption, NEW g \in Gens, SessionStep(g)
  PROVE  IInv' /\ Moves
<1>1. CASE MediaRefused(g)  BY <1>1, SetupFailsKeeps DEF MediaRefused
<1>2. CASE SecondAnswerFails(g)
  <2>1. Terminate(op, poll, FALSE) /\ UNCHANGED <<open, gen, pending, external>>
    BY <1>2 DEF SecondAnswerFails
  <2> QED  BY <2>1, TerminateNowKeeps DEF IInv, TypeOK
<1>3. CASE PeerFailure(g)
  <2>1. Terminate(op, poll, TRUE) /\ UNCHANGED <<open, gen, pending, external>>
    BY <1>3 DEF PeerFailure
  <2> QED  BY <2>1, TerminateNowKeeps DEF IInv, TypeOK
<1> QED
  BY <1>1, <1>2, <1>3, MediaGrantedKeeps, SetupSettlesKeeps, IceGatheredKeeps, IceSentKeeps, RemoteTrackKeeps,
     ConnectedKeeps, RingSettlesKeeps DEF SessionStep

\* A session is taken for a call made or shown while the line is free.
LEMMA NewSessionKeeps ==
  ASSUME IInv, CallsAssumption, cur = 0,
         NEW role \in {"caller", "callee"}, NEW STATE k, k \in Calls \cup {NoCall},
         NEW st \in {"IDLE", "INCOMING_RINGING"}, NewSession(role, k, st),
         NEW o \in {"none", "media", "get"}, op' = [op EXCEPT ![gen + 1] = o],
         o = "get" => role = "callee", o = "media" => k = NoCall /\ st = "IDLE",
         st = "INCOMING_RINGING" => role = "callee",
         ring' \in {ring, [ring EXCEPT ![gen + 1].pc = "claiming"]},
         owner' \in {owner, NoCall}, pending' \in {pending, NoCall},
         poll' \in {poll, NoPoll, [NoPoll EXCEPT !.pc = "answering", !.g = gen + 1]},
         UNCHANGED <<open, leaving, external>>
  PROVE  IInv' /\ Moves
<1> DEFINE s == [Blank EXCEPT !.role = role, !.call = k, !.st = st]
<1>1. gen + 1 \in Gens /\ gen' = gen + 1 /\ cur' = gen + 1 /\ ses' = [ses EXCEPT ![gen + 1] = s]
  BY Typed DEF NewSession, Gens
<1>2. s \in Sessions /\ s.peer = "none" /\ ~s.mic /\ s.role = role /\ s.call = k /\ s.st = st
  BY DEF Blank, Sessions, States, Peers
<1> HIDE DEF s
<1>3. /\ ses' \in [Gens -> Sessions] /\ ses'[cur'] = s /\ op' \in [Gens -> OpStates] /\ op'[cur'] = o
      /\ \A g \in Gens : g # cur' => ses'[g] = ses[g] /\ op'[g] = op[g]
  BY <1>1, <1>2, Typed DEF OpStates, Requests
<1>4. \A g \in Gens : Idle(g)
  BY AtWork DEF IInv
<1>5. /\ ring' \in [Gens -> Rings] /\ \A g \in Gens : ~ring'[g].sounds
  <2>1. CASE ring' = ring  BY <2>1, <1>4, Typed DEF Idle
  <2>2. CASE ring' = [ring EXCEPT ![gen + 1].pc = "claiming"]
    <3>1. [ring[gen + 1] EXCEPT !.pc = "claiming"] \in Rings /\ ~[ring[gen + 1] EXCEPT !.pc = "claiming"].sounds
      BY <1>1, <1>4, Typed DEF Rings, Idle
    <3>2. ring' = [ring EXCEPT ![gen + 1] = [ring[gen + 1] EXCEPT !.pc = "claiming"]]
      BY <2>2
    <3> QED  BY <3>1, <3>2, <1>1, <1>4, Typed DEF Idle
  <2> QED  BY <2>1, <2>2
<1>12. \A g \in Gens : g > gen' => op'[g] = "none"
  BY <1>1, <1>3, Typed DEF IInv, Gens
<1>6. poll' \in [pc : PollStates, g : 0..gen', call : Calls \cup {NoCall},
                 seen : {"none", "unused", "ringing", "accepted", "over"}, ice : BOOLEAN]
  <2>1. CASE poll' = poll  BY <2>1, <1>1, Typed DEF Polls
  <2>2. CASE poll' = NoPoll  BY <2>2, <1>1, Typed DEF Polls
  <2>3. CASE poll' = [NoPoll EXCEPT !.pc = "answering", !.g = gen + 1]
    <3>1. poll' = [pc |-> "answering", g |-> gen + 1, call |-> NoCall, seen |-> "none", ice |-> FALSE]
      BY <2>3 DEF NoPoll
    <3>2. gen + 1 \in 0..gen'  BY <1>1, Typed
    <3> QED  BY <3>1, <3>2 DEF PollStates
  <2> QED  BY <2>1, <2>2, <2>3
<1>7. TypeOK'
  <2>1. gen' \in 0..MaxGen /\ cur' \in 0..gen' /\ ses'[cur'].st # "ENDED"
    BY <1>1, <1>2, <1>3, Typed DEF Gens
  <2>2. owner' \in Calls \cup {NoCall} /\ pending' \in Incoming \cup {NoCall}
    BY DEF IInv, TypeOK
  <2> QED  BY <2>1, <2>2, <1>3, <1>5, <1>6 DEF IInv, TypeOK, Sessions, Rings, external
<1>8. \A g \in Gens : g # cur' => Idle(g)'
  BY <1>3, <1>4, <1>5 DEF Idle
<1>9. Early(ses[cur], op[cur])'
  BY <1>2, <1>3 DEF Early
<1>10. PollOf'
  <2>1. poll.pc # "call" /\ (poll.pc = "describing" => poll.g # 0) /\ poll.g # gen + 1
    BY Typed DEF IInv, PollOf, Polls
  <2>2. poll' = poll \/ poll'.pc = "idle" \/ poll'.pc = "answering"
    <3>1. NoPoll.pc = "idle" /\ [NoPoll EXCEPT !.pc = "answering", !.g = gen + 1].pc = "answering"
      BY DEF NoPoll
    <3> QED  BY <3>1
  <2> QED  BY <1>1, <2>1, <2>2 DEF PollOf
<1>11. Moves
  BY <1>1, <1>2, <1>3, <1>5 DEF Moves
<1> QED  BY <1>7, <1>8, <1>9, <1>10, <1>11, <1>12 DEF IInv

\* What the user does.
LEMMA UserKeeps ==
  ASSUME IInv, CallsAssumption, User
  PROVE  IInv' /\ Moves
<1>1. CASE StartOutgoing
  BY <1>1, NewSessionKeeps DEF StartOutgoing
<1>2. CASE Answer
  <2>1. cur # 0 /\ Silence /\ op' = [op EXCEPT ![cur] = "get"] /\ ses[cur].role = "callee"
        /\ ses[cur].st = "INCOMING_RINGING"
        /\ UNCHANGED <<open, gen, cur, ses, poll, pending, leaving, external>>
    BY <1>2 DEF Answer
  <2>2. Early(ses[cur], "get")
    BY <2>1, Current DEF Early
  <2> QED  BY <2>1, <2>2, Current, RingsQuiet, SessionWorks DEF OpStates, Requests, external
<1>3. CASE AnswerAgain
  <2> DEFINE s == [ses[cur] EXCEPT !.twice = TRUE]
  <2>1. cur # 0 /\ Silence /\ ses' = [ses EXCEPT ![cur] = s]
        /\ UNCHANGED <<open, gen, cur, op, poll, pending, leaving, external>>
    BY <1>3 DEF AnswerAgain
  <2>2. s \in Sessions /\ s.st = ses[cur].st /\ s.role = ses[cur].role
        /\ s.mic = ses[cur].mic /\ s.call = ses[cur].call
        /\ Early(s, op[cur])
    BY <2>1, Current DEF Sessions, Early
  <2> HIDE DEF s
  <2> QED  BY <2>1, <2>2, Current, RingsQuiet, SessionWorks DEF external
<1>4. CASE Hangup
  <2>1. Terminate(op, poll, TRUE) /\ UNCHANGED <<open, gen, pending, external>>
    BY <1>4 DEF Hangup
  <2> QED  BY <2>1, TerminateNowKeeps DEF IInv, TypeOK
<1>5. CASE Reject
  <2>1. Terminate(op, poll, TRUE) /\ pending' = NoCall /\ UNCHANGED <<open, gen, external>>
    BY <1>5 DEF Reject
  <2> QED  BY <2>1, TerminateNowKeeps DEF IInv, TypeOK
<1>6. CASE PageHide
  <2> DEFINE ops == [g \in Gens |-> "none"]
  <2>1. ops \in [Gens -> OpStates] /\ \A g \in Gens : ops[g] \in IdleOps /\ ops[g] = "none"
    BY DEF OpStates, IdleOps
  <2>2. Terminate(ops, NoPoll, TRUE) /\ open' = FALSE /\ UNCHANGED <<gen, pending, external>>
    BY <1>6 DEF PageHide
  <2> HIDE DEF ops
  <2> QED  BY <2>1, <2>2, TerminateKeeps DEF IInv, TypeOK
<1> QED  BY <1>1, <1>2, <1>3, <1>4, <1>5, <1>6 DEF User

\* What the server and the other party do.
LEMMA EnvironmentKeeps ==
  ASSUME IInv, CallsAssumption, NEW k \in Calls, Environment(k)
  PROVE  IInv' /\ Moves
<1>1. UNCHANGED <<open, gen, cur, ses, op, ring, owner, poll, pending>>
  BY DEF Environment, RemoteCalls, RemoteAccepts, RemoteIce, CallOver, ActionArrives, ActionLost, external
<1>2. /\ server' \in [Calls -> {"unused", "ringing", "accepted", "over"}]
      /\ ice' \in SUBSET Calls /\ leaving' \in SUBSET Calls
  BY DEF IInv, TypeOK, Environment, RemoteCalls, RemoteAccepts, RemoteIce, CallOver, ActionArrives, ActionLost, external
<1> QED  BY <1>1, <1>2, RingsQuiet, Typed, SessionsStay

\* A read of pollCalls.
LEMMA PollReadKeeps ==
  ASSUME IInv, CallsAssumption, PollRead
  PROVE  IInv' /\ Moves
<1>1. UNCHANGED <<open, gen, cur, ses, op, ring, owner, pending, leaving, external>>
  BY DEF PollRead
<1>2. PICK what \in {"call", "pending", "list"}, k \in Calls, seen \in {"unused", "ringing", "accepted", "over"} :
        PollReads(what, k, seen) /\ (what = "call" => cur # 0 /\ k = ses[cur].call /\ k # NoCall)
  <2>1. CASE cur # 0 /\ ses[cur].call # NoCall
    <3>1. ses[cur].call \in Calls /\ server[ses[cur].call] \in {"unused", "ringing", "accepted", "over"}
      BY <2>1, Current DEF Sessions
    <3> QED  BY <2>1, <3>1 DEF PollRead
  <2>2. CASE ~(cur # 0 /\ ses[cur].call # NoCall) /\ pending # NoCall
    <3>1. pending \in Calls /\ server[pending] \in {"unused", "ringing", "accepted", "over"}
      BY <2>2 DEF IInv, TypeOK, Calls
    <3> QED  BY <2>2, <3>1 DEF PollRead
  <2>3. CASE ~(cur # 0 /\ ses[cur].call # NoCall) /\ pending = NoCall
    <3>1. PICK k \in Incoming : PollReads("list", k, "ringing")
      BY <2>3 DEF PollRead
    <3> QED  BY <3>1 DEF Calls
  <2> QED  BY <2>1, <2>2, <2>3
<1>3. poll' \in Polls /\ poll'.pc = what
  BY <1>2, Typed DEF PollReads, NoPoll, Polls, PollStates
<1>4. TypeOK'
  BY <1>1, <1>3 DEF IInv, TypeOK, Polls, external
<1>5. PollOf'
  BY <1>1, <1>2, <1>3 DEF PollOf
<1>6. (\A g \in Gens : g # cur' => Idle(g)') /\ (cur' # 0 => Early(ses[cur], op[cur])')
  BY <1>1 DEF IInv, Idle
<1> QED  BY <1>1, <1>4, <1>5, <1>6 DEF IInv, Moves

\* The poll's answer applied to the current session.
LEMMA CanonicalCallKeeps ==
  ASSUME IInv, CallsAssumption, CanonicalCall
  PROVE  IInv' /\ Moves
<1>1. cur # 0 /\ ses[cur].call # NoCall /\ UNCHANGED <<open, gen, pending, external>>
  BY DEF IInv, PollOf, CanonicalCall
<1>2. CASE poll.seen = "over"
  <2>1. Terminate(op, NoPoll, FALSE)
    BY <1>2 DEF CanonicalCall
  <2> QED  BY <1>1, <2>1, TerminateNowKeeps DEF IInv, TypeOK
<1>3. CASE poll.seen # "over"
  <2>1. UNCHANGED <<cur, op, leaving>>  BY <1>3 DEF CanonicalCall
  <2>2. /\ ring' \in [Gens -> Rings] /\ \A g \in Gens : g # cur => ~ring'[g].sounds
        /\ owner' \in Calls \cup {NoCall}
    BY <1>1, <1>3, RingsQuiet, Typed DEF CanonicalCall
  <2>3. CASE ~AnswerSeen
    <3> DEFINE s == WithIce(ses[cur], poll.ice)
    <3>1. s \in Sessions /\ s.st = ses[cur].st /\ s.role = ses[cur].role
        /\ s.mic = ses[cur].mic /\ s.call = ses[cur].call
          /\ Early(s, op[cur])
      BY ZenonT(40), <1>1, Current, Typed DEF WithIce, Sessions, Polls, Early
    <3>2. ses' = [ses EXCEPT ![cur] = s] /\ poll' = NoPoll
      BY <1>3, <2>3 DEF CanonicalCall
    <3> HIDE DEF s
    <3> QED  BY <1>1, <2>1, <2>2, <3>1, <3>2, Current, SessionWorks DEF external
  <2>4. CASE AnswerSeen /\ ses[cur].st \in {"OUTGOING_RINGING", "NEGOTIATING"}
    <3> DEFINE s == [ses[cur] EXCEPT !.st = "NEGOTIATING"]
    <3>1. s \in Sessions /\ s.st = "NEGOTIATING" /\ s.role = ses[cur].role
        /\ s.mic = ses[cur].mic /\ s.call = ses[cur].call
          /\ Early(s, op[cur])
      BY <1>1, Current DEF Sessions, States, Early
    <3>2. ses' = [ses EXCEPT ![cur] = s]
          /\ poll' = IF ses[cur].peer = "offered" THEN [poll EXCEPT !.pc = "describing", !.g = cur] ELSE NoPoll
      BY <1>3, <2>4 DEF CanonicalCall
    <3>3. \/ poll' = NoPoll
          \/ poll' \in Polls /\ poll'.pc = "describing" /\ poll'.g = cur /\ s.role = "caller" /\ s.call # NoCall
      BY <1>1, <2>4, <3>1, <3>2, Typed DEF Polls, PollStates, AnswerSeen
    <3> HIDE DEF s
    <3> QED  BY <1>1, <2>1, <2>2, <2>4, <3>1, <3>2, <3>3, Current, SessionWorks DEF external
  <2>5. CASE AnswerSeen /\ ses[cur].st \notin {"OUTGOING_RINGING", "NEGOTIATING"}
    <3>1. UNCHANGED ses /\ poll' = NoPoll
      BY <1>3, <2>5 DEF CanonicalCall
    <3> QED  BY <1>1, <2>1, <2>2, <3>1, Current, SessionWorks DEF external
  <2> QED  BY <2>3, <2>4, <2>5
<1> QED  BY <1>2, <1>3

\* The answer's description applied, to the session it was read for only.
LEMMA AnswerAppliedKeeps ==
  ASSUME IInv, CallsAssumption, AnswerApplied
  PROVE  IInv' /\ Moves
<1>1. cur # 0 /\ ses[cur].role = "caller" /\ ses[cur].call # NoCall
      /\ poll' = NoPoll /\ UNCHANGED <<open, gen, cur, op, ring, owner, pending, leaving, external>>
  BY DEF IInv, PollOf, AnswerApplied, Live
<1>2. CASE UNCHANGED ses
  BY <1>1, <1>2, Current, RingsQuiet, SessionWorks DEF external
<1>3. CASE ~UNCHANGED ses
  <2> DEFINE s == WithIce([ses[cur] EXCEPT !.peer = "stable"], poll.ice)
  <2>1. ses' = [ses EXCEPT ![cur] = s]
    BY <1>3 DEF AnswerApplied
  <2>2. s \in Sessions /\ s.st = ses[cur].st /\ s.role = ses[cur].role
        /\ s.mic = ses[cur].mic /\ s.call = ses[cur].call
        /\ s.peer = "stable"
    BY <1>1, Current, Typed DEF WithIce, Sessions, Polls, Peers
  <2>3. Early(s, op[cur])
    BY <1>1, <2>2, Current DEF Early
  <2> HIDE DEF s
  <2> QED  BY <1>1, <2>1, <2>2, <2>3, Current, RingsQuiet, SessionWorks DEF external
<1> QED  BY <1>2, <1>3

\* A ringing call shown takes the line.
LEMMA ShowIncomingKeeps ==
  ASSUME IInv, CallsAssumption, ShowIncoming
  PROVE  IInv' /\ Moves
<1>1. cur = 0 /\ NewSession("callee", poll.call, "INCOMING_RINGING") /\ poll.call \in Calls \cup {NoCall}
      /\ ring' = [ring EXCEPT ![gen + 1].pc = "claiming"] /\ UNCHANGED <<open, leaving, external>>
      /\ pending' \in {pending, NoCall} /\ owner' \in {owner, NoCall}
  BY Typed DEF ShowIncoming, Polls
<1>2. CASE poll' = NoPoll /\ UNCHANGED op
  <2>1. op' = [op EXCEPT ![gen + 1] = "none"]
    BY <1>1, <1>2, Typed DEF NewSession, Gens, IInv
  <2> QED  BY <1>1, <1>2, <2>1, NewSessionKeeps
<1>3. CASE poll' = [NoPoll EXCEPT !.pc = "answering", !.g = gen + 1] /\ op' = [op EXCEPT ![gen + 1] = "get"]
  BY <1>1, <1>3, NewSessionKeeps
<1> QED  BY <1>2, <1>3 DEF ShowIncoming

\* All that follows a read.
LEMMA PollSettlesKeeps ==
  ASSUME IInv, CallsAssumption, PollSettles
  PROVE  IInv' /\ Moves
<1>1. CASE PollGone
  <2>1. Terminate(op, NoPoll, FALSE) /\ pending' = NoCall /\ UNCHANGED <<open, gen, external>>
    BY <1>1 DEF PollGone
  <2> QED  BY <2>1, TerminateNowKeeps DEF IInv, TypeOK
<1>2. CASE NothingToShow
  <2>1. poll' = NoPoll /\ UNCHANGED <<open, gen, cur, ses, op, ring, owner, pending, leaving, external>>
    BY <1>2 DEF NothingToShow
  <2> QED  BY <2>1, RingsQuiet, Typed, SessionsStay DEF external, IInv, TypeOK
<1> QED  BY <1>1, <1>2, CanonicalCallKeeps, AnswerAppliedKeeps, ShowIncomingKeeps DEF PollSettles

\* The invariant holds when the page is loaded.
LEMMA InitEstablishes ==
  ASSUME CallsAssumption, Init
  PROVE  IInv
<1>1. TypeOK
  BY DEF Init, TypeOK, CallsAssumption, Blank, Silent, NoPoll, PollStates, States, Peers, OpStates, Calls, Gens
<1>2. (\A g \in Gens : Idle(g) /\ op[g] = "none") /\ PollOf /\ cur = 0
  BY DEF Init, Idle, Given, Blank, Silent, IdleOps, PollOf, NoPoll
<1> QED  BY <1>1, <1>2 DEF IInv

\* Every step keeps the invariant, and uses the line as Moves says.
LEMMA StepKeeps ==
  ASSUME IInv, CallsAssumption, [Next]_vars
  PROVE  IInv' /\ Moves
<1>1. CASE UNCHANGED vars
  BY <1>1, RingsQuiet, Typed, SessionsStay DEF vars, IInv, TypeOK
<1>2. CASE OwnershipLost
  <2>1. owner' = NoCall /\ UNCHANGED <<open, gen, cur, ses, op, poll, pending, leaving, external>>
    BY <1>2 DEF OwnershipLost
  <2>2. ring' \in [Gens -> Rings] /\ \A g \in Gens : g # cur => ~ring'[g].sounds
    <3>1. CASE cur = 0  BY <1>2, <3>1, RingsQuiet DEF OwnershipLost
    <3>2. CASE cur # 0
      <4>1. cur \in Gens  BY <3>2, AtWork
      <4>2. [ring[cur] EXCEPT !.sounds = FALSE] \in Rings  BY <4>1, RingsQuiet DEF Rings
      <4>3. ring' = [ring EXCEPT ![cur] = [ring[cur] EXCEPT !.sounds = FALSE]]
        BY <1>2, <3>2 DEF OwnershipLost
      <4> QED  BY <4>1, <4>2, <4>3, RingsQuiet
    <3> QED  BY <3>1, <3>2
  <2> QED  BY <2>1, <2>2, Typed, SessionsStay DEF external, IInv, TypeOK
<1>3. CASE CallStateEvent
  <2>1. cur # 0 /\ Silence /\ UNCHANGED <<open, gen, cur, ses, op, poll, pending, leaving, external>>
    BY <1>3 DEF CallStateEvent
  <2> QED  BY <2>1, RingsQuiet, Typed, SessionsStay DEF external, IInv, TypeOK
<1> QED
  BY <1>1, <1>2, <1>3, UserKeeps, SessionStepKeeps, PollReadKeeps, PollSettlesKeeps, EnvironmentKeeps DEF Next

-----------------------------------------------------------------------------
(* The line of the device *)

\* What the device of a state does is what its current session does.
LEMMA LineOf ==
  ASSUME IInv, CallsAssumption
  PROVE  /\ (\E g \in Gens : ses[g].mic) <=> (cur # 0 /\ ses[cur].mic)
         /\ (\E g \in Gens : ses[g].st = "CONNECTED") <=> (cur # 0 /\ ses[cur].st = "CONNECTED")
         /\ (\E g \in Gens : ring[g].sounds) => cur # 0
  BY AtWork DEF IInv, Idle, Given

\* The same of the next state.
LEMMA LineOfNext ==
  ASSUME IInv', CallsAssumption
  PROVE  /\ (\E g \in Gens : ses'[g].mic) <=> (cur' # 0 /\ ses'[cur'].mic)
         /\ (\E g \in Gens : ses'[g].st = "CONNECTED") <=> (cur' # 0 /\ ses'[cur'].st = "CONNECTED")
         /\ (\E g \in Gens : ring'[g].sounds) => cur' # 0
<1>1. (cur' # 0 => cur' \in Gens) /\ \A g \in Gens : g # 0
  BY DEF IInv, TypeOK, Gens, CallsAssumption
<1>2. \A g \in Gens : g # cur' => ~ses'[g].mic /\ ses'[g].st # "CONNECTED" /\ ~ring'[g].sounds
  BY DEF IInv, Idle, Given
<1> QED  BY <1>1, <1>2

\* Every step of the client is one of the line, or leaves it alone.
LEMMA LineStep ==
  ASSUME IInv, CallsAssumption, [Next]_vars
  PROVE  [Line!PhoneNext]_Line!phone
<1>1. IInv' /\ Moves  BY StepKeeps
<1>2. cur \in Nat /\ gen \in Nat  BY Typed
<1>3. CASE cur # 0 /\ UNCHANGED <<cur, gen>>
  <2>1. Line!Use
    BY <1>1, <1>2, <1>3, LineOf, LineOfNext DEF Line!Use, Moves
  <2> QED  BY <2>1 DEF Line!PhoneNext
<1>4. CASE cur = 0 /\ UNCHANGED <<cur, gen>>
  <2>1. UNCHANGED Line!phone
    BY <1>1, <1>4, LineOf, LineOfNext DEF Line!phone
  <2> QED  BY <2>1
<1>5. CASE cur # 0 /\ cur' = 0 /\ gen' = gen
  <2>1. Line!Free
    BY <1>1, <1>5, LineOfNext DEF Line!Free, Line!Off
  <2> QED  BY <2>1 DEF Line!PhoneNext
<1>6. CASE /\ cur = 0 /\ cur' = gen + 1 /\ gen' = gen + 1
           /\ ~ses'[cur'].mic /\ ~ring'[cur'].sounds /\ ses'[cur'].st # "CONNECTED"
  <2>1. ~(\E g \in Gens : ses'[g].mic) /\ ~(\E g \in Gens : ring'[g].sounds)
        /\ ~(\E g \in Gens : ses'[g].st = "CONNECTED")
    BY <1>1, <1>6 DEF IInv, Idle, Given
  <2>2. Line!Take
    BY <1>6, <2>1, LineOf DEF Line!Take
  <2> QED  BY <2>2 DEF Line!PhoneNext
<1> QED  BY <1>1, <1>3, <1>4, <1>5, <1>6 DEF Moves

-----------------------------------------------------------------------------
\* The state is well-formed in every reachable state of the call client
\* (call-v1/runtime.js, bootstrap.js).
THEOREM TypeCorrect == ASSUME CallsAssumption PROVE Spec => []TypeOK
<1>1. Init => IInv  BY InitEstablishes
<1>2. IInv /\ [Next]_vars => IInv'  BY StepKeeps
<1>3. IInv => TypeOK  BY DEF IInv
<1> QED  BY <1>1, <1>2, <1>3, PTL DEF Spec

\* Nothing of a call outlives it: a session that is not the current one has no
\* live microphone, no open connection and no ring that sounds, whatever its
\* promises do when they settle late (media.js, ring-audio.js).
THEOREM LateSettlementsAreHarmless == ASSUME CallsAssumption PROVE Spec => []NothingOutlivesItsCall
<1>1. Init => IInv  BY InitEstablishes
<1>2. IInv /\ [Next]_vars => IInv'  BY StepKeeps
<1>3. IInv => NothingOutlivesItsCall  BY DEF IInv, NothingOutlivesItsCall, Idle, Given
<1> QED  BY <1>1, <1>2, <1>3, PTL DEF Spec

\* The call client implements the line of the device: one session at a time, the
\* microphone and the ring only while it lasts, both given back in the step that
\* ends it, and a conversation never taken back before that (runtime.js).
THEOREM ClientKeepsOneLine == ASSUME CallsAssumption PROVE Spec => OneLine
<1>1. Init => IInv  BY InitEstablishes
<1>2. IInv /\ [Next]_vars => IInv'  BY StepKeeps
<1>3. Init => Line!PhoneInit
  BY DEF Init, Line!PhoneInit, Line!Off, Blank, Silent
<1>4. IInv /\ [Next]_vars => [Line!PhoneNext]_Line!phone  BY LineStep
<1> QED  BY <1>1, <1>2, <1>3, <1>4, PTL DEF Spec, OneLine, Line!PhoneSpec
=============================================================================
