# TLA+ models of Guilua / AI-COMMUNICATION

The server in `src/app` is one asyncio process (`scripts/start_render.sh` starts one Gunicorn worker) in front of
PostgreSQL, Valkey, LiveKit, OpenAI and Timeblock. A service method without an `await` is one database transaction and
runs to its end; everything that awaits (a WebSocket send, a Valkey command, a provider call) lets every other handler
run in between. The browser clients in `src/app/static` run on one thread each, and what runs from one `await`, timer or
callback to the next is one step: replies, permissions and promises settle in any order, also for a call, a dialog or a
conversation the user has left. That is where the modules interleave.

## Inventory

| Component (source) | State | Operations | What is hard, and what must hold |
|---|---|---|---|
| Call rooms: `communication/manager.py`, `communication/router.py` | in memory: rooms, participants, connections, reconnect tokens | join, join by token, events, broadcast, disconnect, 30-second cleanup, restart | late handler exits, broadcasts that outlive their targets, tokens that outlive rooms, a handler dying before its `try`. One connection per participant, capacity, an ended room stays ended, nothing leaks |
| Radio floor: `group_v3/radio_floor.py`, `radio_service.py`, `radio_router.py` | Valkey key with a lease; rows for session, participants, bursts, jobs | acquire, heartbeat, stop, device-lost, leave, end-for-all, reconciliation; removal of a member and deletion of the space (`service.py`) | two stores changed by separate steps; Valkey errors after the command took effect; crashes; five ways to close one burst. One talking burst, its speaker present, the first closer decides, every burst ends |
| Radio processing: `group_v3/translation_service.py` | burst, job, reservations, quota ledger | clip upload (compare-and-set, transcription, translation), reserve, release, finalize, expiry | two pipelines and the removal write one burst; state read before provider calls. One transcription, exact ledger, quota, quota given back |
| Translation segments V2: `translation_service.py` | segment, variants, per-key locks, TTS jobs | submit_text, submit_voice, retry_variant, claim/ack TTS | concurrent submissions and retries. One provider call per successful variant, segment state matches its variants |
| Media sessions: `group_v3/session_service.py` | session and participants rows | create, join, connection state, reject, leave, end-for-all, subscriptions, grants | orders of reject/join/leave/removal. No terminal participant returns, no live session without anybody |
| Event outbox: `group_v3/events.py` | outbox rows, bounded queues, Redis listener | enqueue in the transaction, publish, drain, fan-out | at-least-once delivery, races of publish and drain, restarts. Nothing committed is forgotten |
| Chat translation: `group_v3/chat_translation_service.py` | one row per message, recipient, language, fingerprint | prepare, provider call, finalize, mark failed | take-over after 45 seconds, late answers, edits. A final row translates the current text |
| App sessions: `bff/session_store.py`, `bff/router.py` | in memory: pending authorizations, sessions with two grants | start, callback, refresh, logout, group grant, purge | awaits between check and write, two expiries in one session |
| Spaces, members, messages, invitations: `group_v3/service.py`, `invitation_service.py` | rows | roles, ownership, removal, deletion, invitations, idempotent messages | invitations against deletion, one owner |
| Handoff, proxy, providers, configuration, templates, earlier group modules | none of their own, or display only | | not modelled; `PROJECT.json` says why for each |

The browser clients:

| Client (source under `static/`) | State | Hard, and what must hold |
|---|---|---|
| Call client: `js/call-v1/*.js`, `js/call_audio_ownership.js` | one session with its microphone, peer, ring; polls | every await of a set-up may settle after the call. One line; nothing of a call outlives it; rings and ended calls do end |
| Tabs: `js/timeblock_call_runtime.js` | leader lock, ringtone, ringback per tab | overlapping polls, locks granted late, a script that fails to load. One tab sounds, and the leading one does |
| Call translation: `js/call-v1/translation_plugin.js` | mixer, speeches; segments with a realtime path and a fallback | mute and end during awaits; drain timers against late answers. Silence when muted, one path, shown once, the control given back |
| Messaging: `js/messaging_core_v2.js`, `js/assistant.js` | event cursor, open conversation, form, pins, mailbox lock | two channels move one cursor; loads overlap; sends are retried. No event skipped, no holes but those the open conversation is known to leave, stored once, the lock told |
| Voice notes, contacts, ringtone: `js/messaging_composer_attachments_v2.js`, `js/messaging_contact_v1.js`, `js/incoming_call_ringtone.js` | recording, relations, generations of a ring | permissions after cancel, changes against reloads, starts and stops during awaits |
| Assistant page: `js/assistant.js` | its own calls and negotiation, chat, poll, presence, alerts | terminal clean-up against late replies, restarts of ICE, concurrent loads |
| Live translator, scanner, security console: `js/live_translate*.js`, `js/qr_friend_scanner.js`, `js/security.js` | intents, playback, camera, cursor | superseded intents, a camera granted late, a second poll, answers cut at their limit |
| Groups: `group-v3/group_v3_app.js`, `group_v3_translation.js`, `group_tts_manager.js`, `group_device_manager.js` | floor and recorder, media connection, event source, panel, speech queue, devices | overtaken attempts, refreshes during a connection, deferred refreshes, retries of speech |
| `service-worker.js` | caches of versions, call notifications | activation between fetch and put, end of a call before its notification |

How they interact: handlers of the routers call a service (a transaction), then Valkey or a provider, then publish an
event. `main.py`'s `cleanup_loop` runs every 30 seconds and calls, in order, the room cleanup, the outbox drain, the
Radio reconciliation and the expiry of reservations. Removing a member (`GroupService.update_member`) writes the rows of
media sessions, Radio participants, bursts and jobs in one transaction, so it is an action of both Radio modules.
In the browser the clients share little: the call client and the tabs meet at the audio lock and the ringtone, the event
stream refreshes the open conversation, the prejoin dialog of groups uses the device manager. Against the server each
client sends requests whose server side (what is stored, who ends a call) is modelled as far as the replies show it and
marked external.
`PROJECT.json` lists the hazards at their lines, with the properties that cover them.

## Modules

| Module | Models | Proofs |
|---|---|---|
| `RoomManager` | one call room and the WebSocket handlers on it | `RoomManagerProofs` |
| `RadioTurns` | abstract: people speak one after the other, each turn with its clip | |
| `RadioFloor` | push-to-talk: floor key, participants, bursts, handlers, reconciliation; implements `RadioTurns` | `RadioFloorProofs` |
| `RadioProcessing` | a speaker's closed bursts: clip upload, reservations, ledger | `RadioProcessingProofs` |
| `PhoneLine` | abstract: one line, taken, used and freed | |
| `CallClient` | the call-v1 client; implements `PhoneLine` | `CallClientProofs` |
| `CallTabs` | the tabs' election, ringtone and ringback | `MCCallsProofs` |
| `CallVoice` | mixer, Auto Read, muting, speeches | `MCCallsProofs` |
| `CallTranslation` | segments: realtime, drain, fallback, retries | `MCCallsProofs` |
| `MessagingEvents` | event stream, polls, cursor, reloads | `MCCallsProofs` |
| `MessagingThread`, `MailboxLock` | the open conversation; its settings and lock | `MCRecordersProofs`, `MCPagesProofs` |
| `MessagingSend` | typing, sending, sending again | `MCPagesProofs` |
| `VoiceNote`, `Contacts` | attachments and recordings; the contacts rail | `MCRecordersProofs`, `MCPagesProofs` |
| `AssistantCalls`, `AssistantNegotiation` | the assistant page's own calls, their descriptions and candidates | `MCPagesProofs` |
| `AssistantChat`, `AssistantPoll`, `AssistantAlerts` | chat history and spoken questions; poll, presence, intents; alerts | `MCRecordersProofs` (chat), `MCPagesProofs` |
| `Ringtone` | the ringtone controller | `MCPagesProofs` |
| `LiveTranslate`, `TranslateHistory` | the live translator; its history | `MCRecordersProofs` |
| `QrScanner` | the friend dialog and its camera | `MCPagesProofs` |
| `GroupRadioClient`, `GroupMediaClient` | Radio and call/video of the group page | `MCGroupProofs` |
| `GroupEvents`, `GroupTranslation`, `GroupSpeech`, `GroupDevices` | spaces and events; translation panel; speech queue; devices | `MCGroupProofs`, `MCRecordersProofs` (the last two) |
| `SecurityConsole`, `ServiceWorker` | the security console; the service worker | `MCPagesProofs` |
| `MCRoomManager`, `MCRadioFloor`, `MCRadioProcessing`, `MCCallClient` | the finite instances for TLC | |
| `MCCalls`, `MCPages` | unions of the clients' modules for TLC | |

`RadioFloor` ends where `RadioProcessing` begins: the first closes a burst as `finalizing` with a `ready` job (or as
`device_lost`, `failed`, ...), the second starts from exactly those pairs (`ClosedPairs`).

In each module the operators said to be mutants are deliberately wrong variants of a definition. They are not part of the
next-state relation; substituting one for its original makes TLC find the property it is listed with in `PROJECT.json`
violated, which shows that the property depends on the code it is about.

### RoomManager

A `RoomManager` method holds one `asyncio.Lock` and awaits nothing inside, so it is one action: `Connect` and
`Reconnect` (connect with and without token), `Disconnect`, `SessionEnding`, `SessionEnded`, `Cleanup`. A handler waits
at the places named by `pc`: the greeting, a broadcast (`relaying`, `ending`, `farewell`) and the receive loop; `targets`
is the list of connections a broadcast took under the lock. A member of `Conns` is at once the socket, its handler, its
`ConnectionState` and the reconnect token issued with it; a connection nothing refers to any more is used again, so
histories are not bounded by the number of connections.

Simplifications. Failed sends are decided when the broadcast ends, since that is when the code acts on them. The socket
of a replaced connection is closed with the replacement: whatever its handler does in between is refused as
`stale_connection`. Idempotency keys, sequence numbers and rate windows only refuse events, and a refused event changes
nothing modelled. Rooms share nothing, so one is modelled. `EndedCacheOutlivesTokens` is the relation of two settings
(600 and 300 seconds by default) that `config.py` does not enforce.

### RadioFloor

A handler is a record with its place, its actor and its token: places in `BeforeValkey` wait for a command to be
applied, places in `AfterValkey` have its answer and have not yet committed. `ValkeyFails` raises with the command
applied or not. `Crash` loses the handlers and the reconciliation pass and keeps rows and key. A token stands for a floor
token and its burst. `ReconcileStart/Look/Apply` are the three parts of `reconcile_device_loss`; which talking bursts are
old enough is left open, which includes every real choice.

Simplifications. The `GET` before a compare-and-delete script is merged with it, since a token that lost the floor never
holds it again. Session, space and role checks of a refused request are guards. The owner never leaves except by
deletion of the space. A membership removed becomes active again by an accepted invitation while the space exists.

The refinement mapping to `RadioTurns` (`Turns`) forgets the floor key, the handlers and the reconciliation: a turn is a
talking burst with its speaker, `spent` the tokens that have a burst, `waiting` the jobs that are `ready`, `present` the
active members who have joined with a working device. What remains is what the people of a group can rely on: the floor
only decides which transaction comes, and each transaction begins one turn, ends one, or leaves it alone.

### RadioProcessing

One speaker, her closed bursts, one reservation row per burst and target language, one month's ledger. A reservation's
`due` is `expires_at <= now`. `Claim`, `Transcribe`, `MakeSegment` and `UploadDone`/`UploadFails` are the parts of
`submit_radio_voice` between its awaits. Consent, an invalid clip and a provider error are all the nondeterministic
`UploadFails`. The handler of `client-secret` releases its reservation when the provider fails, by row id; `Release` is
enabled for every reserved row and so includes it, also when the row has meanwhile been reserved again.

### The browser's modules

In each of them the state is what the script keeps (and, marked external, what its server holds), an action is a handler or
the continuation of one promise, and a reply is split in two steps where it matters: the server serves the request, then
the page applies the answer, so that anything may happen in between. A generation counter of the code is modelled as a
number where it names things (`CallClient`, `Ringtone`, `LiveTranslate`) and by what it decides where it only makes others
stale (`over`, `spoiled`, `fresh`). Where the code lets a late answer or a failure do harm, the module keeps a history
variable with a name of its own (`late`, `missed`, `behind`, `crossed`, `wrong`, `replaced`): the action that does the harm sets
it, and the property says what holds otherwise, so that the exceptions are exactly the ones written down.

* `CallClient`: `op[g]` is what the set-up of session `g` awaits, `ses[g]` the session (state, stream, peer), `ring[g]` its ring
  with the claim of audio ownership, `poll` the one poll in flight. `Terminate` is called from every end. Its refinement
  mapping to `PhoneLine` (`Call!Line`) takes the line's holder from the current session, the microphone and the ring from
  all sessions.
* `CallTabs`: `lock` is the browser's, `tab[t]` holds leadership, what sounds, whether the ringtone's script was loaded or
  failed, and the polls: their timer does not wait for the last answer, so an answer may come after a newer one
  (`OvertakenPollApplied`). `TabRequests` bounds the requests of the lock, not the polls. Browsers without the Web Locks API
  use a storage lease, which is not modelled.
* `CallVoice`: handlers are functions of the plugin's `World`, since one handler calls many of the others; `Become` writes it
  back. `chain` is the queue of `replaceTrack` operations, one under way at a time.
* `CallTranslation`: `seg[s]` follows one text or recording, `sent` the ways it was translated by, `shows` how often a result
  was shown. `plug.gen` is the panel's generation.
* `MessagingEvents`: the log is its length; `stored`, `sync.cursor`, `sync.position` and `sync.after` are the four places a
  position in it is kept. `taken` is the history of the events some load of the page has taken.
* `MessagingThread`, `MessagingSend`, `MailboxLock`: one page, two conversations. `MessagingThread` keeps in `met` whether what
  is shown has been joined only with pages that share a message with it, of its own conversation and asked from its own
  cursor; where it is false there may be a hole, and nothing asks for it. `MailboxLock` models that the module and the
  page hold different objects of the open conversation, which is what its exceptions are about; its buttons ask whether or
  not an operation is under way, and the page locks the mailbox by itself when it is hidden or left.
* `SecurityConsole`: the page may be filtered, an answer holds no more than its limit and the table no more than its rows; a
  server that does not tell its time leaves the page with the browser's clock, which may be ahead or behind. `GroupSpeech`: an
  item is a segment in a language, since the key of what is read by itself has both.
* `AssistantCalls` counts attempts and keeps the `dead` calls as history; `AssistantNegotiation` models both pages of one call,
  because each reads what the other wrote into the call's record.
* `GroupRadioClient`, `GroupMediaClient`, `GroupEvents`: one page and its server's side of the floor, the session, the changes of
  the spaces. They are the clients of the server that `RadioFloor` models; they are not composed with it, since
  `RadioFloor` already allows any sequence of requests.
* `LiveTranslate` with `TranslateHistory`, `AssistantChat`, `AssistantPoll`, `AssistantAlerts`, `Contacts`, `SecurityConsole`,
  `ServiceWorker`, `VoiceNote`, `QrScanner`, `GroupDevices`, `GroupTranslation`, `GroupSpeech`, `Ringtone`: as their headers say.

`MCCalls` and `MCPages` check several modules in one run each. The modules share no state, so their product would only
multiply states: `which` picks, at the start, the one that runs, and the variables `v1`, `v2`, ... stand for that module's
variables (the others stay constant). A property of the union is the conjunction of the modules' properties on one theme,
each under its `which`; fairness is that of the part that runs.

## Runs

| Run | Question | Result |
|---|---|---|
| `room_safety` | three participants (capacity two), three connections: types, registry, capacity, ended rooms, late handlers | holds, 687,892 states |
| `room_liveness` | two of each, fair: closed sockets are evicted, empty rooms released | holds, 48,995 states |
| `radio_safety` | two members, two tokens, two handlers and the reconciliation: types, one talking burst, speaker present, jobs, first closer | holds, 1,419,373 states |
| `radio_liveness` | two members, two tokens, one handler and the reconciliation, fair: every burst ends; implements `RadioTurns` | holds, 173,012 states |
| `radio_end_for_all` | does end-for-all end the session only when no burst talks? | violated |
| `radio_processing` | one burst, two targets, two uploads, one or two seconds, limit three: types, ledger, quota, burst and job, one transcription, expiry | holds, 31,152 states |
| `radio_suppressed` | does a suppressed job stay suppressed? | violated |
| `calls_safety` | the call client with two sessions (and that it implements `PhoneLine`), two tabs, the voice, two segments, the event stream | holds, @CALLS@ states |
| `calls_liveness` | the same with one session, one tab, one segment, fair: rings and ended calls end, the leader rings unless its script failed to load, the control comes back, segments end, events refresh | holds, 26,595 states |
| `pages_safety` | twenty-one other clients: nothing stale comes back, no holes but those named, sent once, captures released, floors accounted for, settled pages true but for what is named, speech in turn | holds, 2,117,951 states |
| `media_safety` | the group page's call and video client, the twenty-second: does a refresh keep the session it connects to? | holds, 4,798,680 states |
| `call_answer_silent` | does answering silence the ring, as `js/call-v1/runtime.js:386` says? | violated |

What the violated runs show:

* `radio_end_for_all`: the handler awaits the snapshot of the floor and ends the session in a step of its own. In the trace
  the snapshot finds the floor free, another member's acquire then runs to its end - floor and burst -, and the commit,
  which looks at neither, ends the session over the talking burst. Only the reconciliation closes it.
* `radio_suppressed`: the upload's last transaction writes burst and job without reading them. If the speaker was
  removed while the providers were awaited, and is an active member again when they answer, the suppressed job becomes
  completed and the burst final.
* `call_answer_silent`: the ring claims the audio before it plays and does not look again; a call the page was opened for is
  answered at once, its silence finds nothing to stop, and the ring starts afterwards and plays through the set-up.

### Bounds, and why they are enough

* Rooms: three participants exceed the capacity of two; three connections let one be replaced while a second is in a
  broadcast and a third joins.
* Radio: two tokens give the old burst and the new one, two handlers with the reconciliation and the lease give every
  pair of closers; the same actor may hold both handlers. More handlers repeat pairs of closers on one of two bursts.
  `radio_liveness`, which also checks the refinement, has one handler, whose crash leaves what a second one would find (with
  three tokens, 466,775 states, and with translation disabled, when bursts end as `final`, 197,756 states, it was checked while
  developing); the theorem `FloorKeepsTurns` is for any number of handlers and either setting.
* Processing: `Limit = 3` with estimates of one and two lets two reservations fit exactly, exceed by one, and be made
  again with another amount; two targets share one burst and its job; two uploads race for one claim. Two bursts with one
  target were also checked while developing, with the same result.
* `Tokens` bounds how often the floor is acquired in a behaviour. No other counter is bounded: connections are used
  again, and `heard`, `held` and `used` are bounded by what the invariants say of them.

* Clients: two of whatever can overtake each other - sessions of a call, tabs, segments, loads, requests, recordings, intents,
  dialogs, polls, fetches - and one peer or call where a second one would only repeat the first. Histories have
  three items and pages of one, so that a page has a neighbour on each side. The liveness run has one session, tab and
  segment: what it shows is that each ends on its own. Candidates of the other party are modelled for the calls the page
  places (`Trickled`). `pages_safety` uses symmetry in the names of conversations, spaces, alerts and segments, which no
  module tells apart. The client of `media_safety` has more states than all the others, so it has a run of its own, in which
  its type is left to the theorem `PagesTyped`. The mailbox has two operations beside one change of its settings (with two changes as well,
  4,866,376 states, it was checked while developing). Each bound is named in its module and stops only the action that
  would begin one more.
* What is merged in the clients: of the search of the contacts, serving and showing (two searches' answers do not overtake one
  another); of the group's call page, leaving a space and what follows of its selection. It awaits one preparation of
  devices and reports one provider's end at a time. The scanner's timers that its stop has lost count with its frames.

The theorems below remove these bounds for the properties they prove.

### Fairness

* Rooms: the event loop runs what is ready, so greetings and broadcasts proceed (WF). What a client sent before its
  socket closed is finite, so a handler reaches the exception of `receive_text` although it may receive other events
  first (SF on `SocketClosed`). The 30-second loop and time (token expiry, the ended cache) advance (WF). Silence of a
  connection is assumed only when its handler is dead and nothing can refresh it.
* Radio: leases expire; the loop starts a pass for every burst that stays talking; a Valkey error ends a pass, so that
  its lookup succeeds in the end is strong fairness, the assumption that Valkey answers again. Handlers proceed. Nothing
  is assumed of clients: none has to stop, to send a heartbeat or to leave.
* Processing: only the sweep (WF). Clients and providers may stop at any point.

* Calls: promises of the browser settle and timers fire (WF on the set-up's steps, the ring, contexts, `replaceTrack`, the
  segments' settling, timers and stopping); polls are repeated by their interval (WF). That a poll settles is an assumption
  of the client too: a request that never settles stops all later polls, which `CallsMoveOn` allows for (`PollWaits`). A call
  that is not answered is missed by the server in the end (WF on `Missed`). Nothing makes a script's load succeed: a tab whose
  ringtone failed to load is excepted in `TabsMoveOn`, for the tab keeps the failure. A poll that is tried again and again succeeds at
  some time, and an open stream that delivers again and again delivers the event (SF). Nothing is assumed of the user or of
  the other person.

The runs assume `cleanup_loop` keeps running; it ends on an exception other than `GroupServiceError`.
Deadlock is checked in the server's runs; the clients' behaviours may stop, when their bounds are used up and nothing is under way.

## Theorems

All proofs are checked by TLAPS, for every value of the constants under the named assumptions.

**RoomManagerProofs.** `TypeCorrect`. `OneConnection` by `RegistryInv` (types, the property, and that an idle connection
is not registered, without which a join might reuse a registered one); the steps are first classified (`StepKinds`) as
registering one connection, unregistering some, dropping the room or leaving the registry alone. `Capacity`, under
`EndedCacheOutlivesTokens`: the token path of `connect` does not count participants, so the invariant must say that the
holder of a live token still has its entry (`CapacityInv`); that in turn needs that a room old enough to be dropped has no
live token. Without the assumption the property is false, which TLC shows (a trace of fifteen states) with the constant set to FALSE.
`EndedStaysEnded` is the action property `NoResurrection`, `LateHandlersAreHarmless` the action property
`LateHandlerHarmless`: each kind of step takes out its own connection, closed or silent ones, or the one it replaces.

**RadioFloorProofs.** `TypeCorrect`. `HandlersInv` says what a handler's place tells about its actor and token (a token
is issued once, the handler that will record a burst holds a token without one). On top of it `BurstInv` is the
conjunction of one talking burst, jobs matching bursts and speakers present; every step is first
classified (`StepKinds`) as quiet (bursts and jobs stay; people arrive, or the session ends), as closing some talking
bursts, or as recording one, and each kind has its lemma (`QuietStep`, `ClosingStep`, `RecordBurstBursts`). `OneTalking`,
`SpeakerPresent` (together `OneSpeakerThere`), `JobMatches` and the action property `FirstCloser` follow, and so does the
refinement `FloorKeepsTurns`: under `BurstInv` a quiet step is an arrival, a departure, the closing of the radio or a
stutter, a closing step a `Fall` or a `Depart`, and only recording a burst is a `Speak`; that the speaker of a turn never
merely departs is where presence of the speaker is needed.

**RadioProcessingProofs.** `TypeCorrect`. `SttOnce` by `ClaimInv`: an upload past its claim is the only one of its burst, a
burst that is `ready` was never claimed nor heard, and no step makes a job `ready` again. `FinalizingPending` needs no more
than the rows' types and `ClaimInv`, one lemma for the upload's steps and one for all others. `LedgerExact` and `QuotaKept` are
about sums over the rows of a reservation table of any size. A sum is a fold over a set, which recursion defines; what it
does when one row changes is shown by a smallest counterexample (the strict subsets of a finite set are well founded),
which needs no induction theorem with an operator parameter. With that lemma each of reserve, release, sweep and finalize
moves one row's seconds between two sums, or out of them.

**CallClientProofs** (`CallsAssumption`). `TypeCorrect`; `LateSettlementsAreHarmless`, by an invariant that says for every place a
session's set-up may wait at what the session may still hold there (microphone, peer, ring, claim of the audio); and
`ClientKeepsOneLine`, that every step of the client is a step of `PhoneLine` or leaves the line alone, under the same
invariant.

The other three modules prove what the runs check of the unions, so their theorems have no hypothesis on `which`. Each part
has its inductive invariant `XInv` over `v1`, `v2`, ..., the operator `XPart == which = "x" => XInv`, and two lemmas: `XStart`
(`Init => XPart`) and `XStep` (`XPart /\ [Next]_vars => XPart'`). The steps of the other parts keep `which`, and so `XPart`. A
theorem of the union is then the conjunction of the parts it names. The assumptions on constants are those the modules declare.

**MCCallsProofs.** `CallsEndClean` and `CallsKeepOneLine` carry the two results on `CallClient` to the union. `MutedIsSilent`: the
handlers of `CallVoice` are functions of a world, so there is one lemma per function that it starts no speech (`Quiet`), and that
muting and the end of the call leave none playing. `CursorSafe`: the page keeps three positions besides the saved cursor, and
any of them may become the saved one, so the invariant says of each that every event up to it was taken (`Covered`), and that
what the page remembers having seen was taken too (`Knows`). `TabsSoundOneByOne`: who rings or plays the ringback is the leader and
holds the lock, and a ringback that is being fetched belongs to the tab's present call. `TranslationsOnce`: what has been
shown, sent and is still awaited of a segment determine each other, path by path. `CallsTyped` is the type invariant of the
union. Four of its parts are inside the invariants above; that of `CallVoice` is not a matter of types, because its generation
must stay in its bound and a closing that awaits `replaceTrack` adds one when it settles, after the bound has stopped all new
ones: `VoiceTyped` counts the closings under way in the chain with the generations begun.

**MCPagesProofs**, **MCRecordersProofs** and **MCGroupProofs** share the twenty-two parts of `MCPages`, each module extending the one before.

**MCPagesProofs.** `TextStoredOnce`: that two stored copies never differ in their client id needs to know, of requests under way
as well as of stored messages, that a text which may be sent again is the pending one with the pending client id (`TextsKept`), and
that texts are numbered as they are typed. `CallsStayOver` is four parts: the assistant page's calls (an attempt that is over
owns nothing of the page, and whoever refreshes a call refreshes the one shown), the negotiation (an offer that is answered
was read from the record after it was written), the ringtone (what rings is of the current generation, and the run of the
call that rings is past its preferences; this is also a theorem of its own, `RingOfTheCall`) and the poll (an intent is taken by
the refresh that holds the one turn). It has besides the parts of six of the settled pages (see `MCGroupProofs`).

**MCRecordersProofs.** `CapturesStop` is five parts; the invariants name, for every permission under way, who stops what it
brings. `PagesFitTogether`: a list of the assistant's chat or of the
translator's history is an interval of what the server holds, down to its cursor, and a page under way begins at the cursor
or will be refused. Of the open conversation that is not true, and the theorem says what is: while `met` holds, every message
above one that is shown is shown or lies before the cursor of the next older page; so of a page under way the invariant
says the same about what was shown and the cursor when it was asked. `SpokenOnceInTurn`: what was read by itself in a language was
remembered when it began and is in one job at most, only the active job has an utterance, and what is queued waits for
something. `PartsTyped` is the type invariant of the thirteen parts that these theorems are about.

**MCGroupProofs.** `MediaSurvivesRefresh`: a load that is under way was asked before the connection, or its answer contains the
session; the flags the module keeps say which. `FloorKnownToPage`: each burst that talks at the server is the page's floor, is
on its way in an answer, or is given up by a request under way; the invariant counts who will do so.

`SettledPagesAreTrue` is about eleven parts, in the three modules. What a page shows is the server's truth only when nothing is under
way, so each invariant says, of every request, reply, timer and event that may be under way, how what it will write relates to
what the server holds now, and where the module's history variable records that it was overtaken:

* `SpaceInv`: while the stream is open, the selected space's last change is shown, or comes by an event not delivered, a refresh
  held back, or an operation that will still read it.
* `PanelInv`: what an event told is shown, or will be asked by the load that is last, the operation or recording that holds the
  refresh back, or the convergence timer.
* `RailInv` and `AlertsInv`: a read is the server's state if nothing has changed since (`ReadsOf`, `ReadIsOld`), and a rail or panel
  that is not behind is right or has a reload to come.
* `MailboxInv`: settings are numbered by their changes, and an object with the number of a conversation's settings is those
  settings, in whichever of the four places it is kept (`KeptKnown`, `OpenKnown`). Trying to prove it found the model wrong: the
  answer to an unlock, written over settings older than those that were unlocked, makes a mixture of the two, to which the
  model had given the newer number. Two operations after two changes are needed, which the run's bounds had excluded.
* `WorkerInv`: the newest answer of a version is in its cache or on its way, and after activation what other versions left is
  only what came late. `HeardInv` (with the poll's invariant): the server holds what the last heartbeat that came said.
  `SecurityInv`: unless the page is filtered or was excused (an answer cut at its limit, shown beside a poll that asks from
  later, or timed by the page's clock), the rows are as new as what the next poll, and every poll under way, asks from, or
  the table is full.
* The histories, the translator's wait and the message form's busy state follow from the invariants of `MCRecordersProofs`.

`PagesTyped`: the state of every one of the twenty-two parts keeps its type.

Every safety property, action property and refinement that the runs check is stated by a theorem. Only model-checked are the liveness
properties (`ClosedSocketEvicted`, `EmptyRoomReleased`, `OverdueReservationsEnd`, `EventsArrive`, `TabsMoveOn`, `CallsMoveOn`,
`TalkingEnds`, `StoppedSegmentEnds`, `ControlFreed`): they rest on fairness, and so on `ENABLED`, which is outside the prover's
reach. What a fold computes for every input is proved only where the argument above replaces the induction (`LedgerExact`).

## Observed while modelling

Behaviours of the code the models contain, which no document of the repository forbids, so that no run is about them:

* Rooms: `connect` enters the room before it refuses an unknown reconnect token (`communication/manager.py:137-157`). A client
  that comes back after a restart with the token it still holds leaves an empty room; the next cleanup ends that room
  (361-368), and the session cannot be joined until the ended-cache drops it.
* Radio: a pass of the reconciliation between a stop's release and its transaction turns the stop into a lost device
  (`radio_service.py:507`); `client-secret` gives back a reservation by its row, also one made again (`translation_router.py:236`); a
  process that stops during an upload leaves the job processing (`translation_service.py:1199`); an upload that fails after a
  finalize marks a burst failed whose job is completed (1209).
* Calls: a failed offer or answer is not sent again (`assistant.js:2740-2757`); the late failure of an older attempt closes the
  newer one's call (3088-3094); a slow answer to a rejection cleans up a call started meanwhile (3186-3201). Closing the
  panel while the audio context resumes leaves the sender on a stopped track (`translation_plugin.js:1536-1544`), and automatic
  speeches may overlap (1182, against the comment at 1180). A segment whose provider closed early is never
  completed (722). A ringtone script that failed to load is not asked for again (`timeblock_call_runtime.js:324-341`): the tab that
  leads stays silent. A missed call's chime that waits for its audio context may sound over the next call's ringtone (476-511).
* Messaging: the open conversation may keep a hole that nothing asks for: the latest page is joined with what was shown though
  the two no longer meet (`assistant.js:2057-2064`), a load is shown in the conversation selected since (2044-2073), and an older
  page, also one asked before the conversation was selected again or an old load was shown, is put before whatever is shown
  when it comes and leaves its cursor (2098-2112). A poll of several pages that fails loses its refresh (`messaging_core_v2.js:1736-1774`); the answers of settings, lock
  and unlock are written to the conversation open by then (747, 882, 905), and an unlock is written over the settings the page
  holds, however old (905); text typed while a message is sent is cleared
  (`assistant.js:2201`); the contacts rail shows answers out of order (`messaging_contact_v1.js:796-826`); an attachment chosen during
  a send is dropped (`messaging_composer_attachments_v2.js:918`).
* Assistant page: the call of the last attempt stays a live one when it is over (`assistant.js:239-255`), so a new incoming call
  told by an event is not shown until the next poll. Enter submits a question twice while one is asked (`assistant.js:1122-1149`), two taps on the recorder during the
  permission lose the first stream (968-1020), a hidden heartbeat may be overtaken by a visible one (1510-1520).
* Translator, scanner, console: a refused retry leaves the request id to be used again (`live_translate_history.js:422-434`), a listen
  that fails leaves the player loading (310-319); a camera granted after the dialog closed stays on
  (`qr_friend_scanner.js:101-113`); coming back to the console starts a second poll (`security.js:371-376`),
  whose older answer takes rows back. A console with a filter shows nothing new while its cursor and time go on (354-358); changes
  beyond the 100 of an answer (340) are passed by its time, rows beyond 200 are dropped (306-308), and an answer without the
  server's time is taken up from the page's clock (358).
* Ringtone: a late load or save of preferences overwrites a newer choice (`incoming_call_ringtone.js:136-187`), overlapping previews
  restore each other's temporary settings (483-497).
* Groups: late replies of a lost device, a heartbeat or a stop end a newer talk (`group_v3_app.js:2096-2184`); a failed refresh hides
  the session being connected (551-565); `loadSpace` looks neither at the space nor at the order (447-482); an event's refresh
  that fails is dropped (649-656); a permission granted after the prejoin was cancelled leaves the microphone and the camera on, and the
  next connection goes without the dialog (1879-1906); the disconnection after a provider's failure was posted may close a
  newer room (2572-2583); going back in the browser's history changes the surface and leaves the session connected
  (2767-2776). With Auto Read on, a change of the target language reads the eligible segments again
  (`group_v3_translation.js:273-276`); `docs/group-translation-v2.md:24-29` has the language in its key. Two
  pending permissions lose the first stream (`group_device_manager.js:107-109`).
* Service worker: a call that ends before its push is shown leaves a notification (`service-worker.js:153-181`); an older response
  may be stored over a newer one (103-110).

## Not modelled

`PROJECT.json` lists every part with its reason. Of the server: translation segments (V2), media sessions, the event outbox,
chat translation, app sessions, invitations - each a set of database transactions around one or two awaits. Their hazards
known so far: `publish` and `drain_outbox` may send one row twice (`events.py:252`) and the listener skips rows drained with this
instance as origin (284); a pending translation is taken over after 45 seconds while the first attempt still runs
(`chat_translation_service.py:299`); refresh of an app session replaces the token it awaited with (`bff/router.py:214`); submissions
and retries of one variant share a lock per key (`translation_service.py:1034`); `reject` ends a ringing session although another
invitee has joined (`session_service.py:317`); an invitation is accepted after the deletion of its space
(`invitation_service.py:326`); `cleanup_loop` ends on an exception other than `GroupServiceError` (`main.py:44`). Of the browser:
viewport, layout and presentation scripts, settings, image tools, the market and shop pages: rendering, or one request at a time.

## Plan

1. `EventOutbox`, with an abstract specification (every committed event is offered to the channel) it refines.
2. `TranslationSegments`: submissions, per-key locks, retries; the uploads of `RadioProcessing` as its clients.
3. `MediaSession` with membership removal, then composed with `GroupMediaClient`; `ChatTranslation`; `AppSessions`.
4. The storage lease of `CallTabs`.
5. `RadioTurns` as the server that `GroupRadioClient` sees, and an abstract presence implemented by `RoomManager`.
6. Proofs: the safety properties of each of these as it is written; the present ones are all proved.
