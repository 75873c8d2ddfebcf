------------------------------- MODULE MCPages -------------------------------
(***************************************************************************)
(* The other pages of the browser, checked by one run.  A behaviour is one   *)
(* of one part, chosen at the start: the parts share no state, and checking  *)
(* their product would multiply their states.                                *)
(***************************************************************************)
EXTENDS Integers, Sequences, FiniteSets, TLC

CONSTANTS
  Parts,  \* the parts this run checks
  CallsIn, CallsOut, None, Attempts, Offers, Rings, RingPreviews, RingSaves,
  PollBeats, PollRefreshes, Turns, Convs, PageSize, ThreadMessages,
  ThreadFlights, SendDrafts, SendKeys, SendFlights, AI_HISTORY_LIMIT,
  ChatMessages, ChatAsks, Records, NoteRecordings, Attachments, LiveGens,
  LiveVoices, Limit, HistoryItems, Edits, ScanResolves, Frames, ScanDialogs,
  Peers, RelationChanges, LockChanges, LockLoads, LockOps, AlertItems,
  AlertLoads, AlertChanges, SecurityEvents, SecurityChanges, SecurityPolls,
  SecurityRows, SecurityAnswer, WorkerVersions, WorkerFetches, RadioBursts, MediaSessions, SpaceChanges,
  SpaceLoads, PanelChanges, PanelLoads, Convergence, SpeechSegments,
  SpeechLanguages, SpeechJobs, DeviceSet, PageAcquires

VARIABLE which  \* the part that runs

\* Only one part runs: the parts' variables are the same ones, as many as it takes.
VARIABLES v1, v2, v3, v4, v5, v6, v7, v8, v9

vars == <<which, v1, v2, v3, v4, v5, v6, v7, v8, v9>>

Legacy == INSTANCE AssistantCalls WITH
  Incoming <- CallsIn, Outgoing <- CallsOut, MaxAttempts <- Attempts, server <- v1, page <- v2,
  att <- v3, dead <- v4, refresh <- v5, show <- v6, poll <- v7, asks <- v8
Negotiation == INSTANCE AssistantNegotiation WITH
  MaxOffers <- Offers, server <- v1, caller <- v2, callee <- v3, read <- v4, ice <- v5
Ringtone == INSTANCE Ringtone WITH
  Calls <- CallsIn, MaxGen <- Rings, MaxPreviews <- RingPreviews, MaxSaves <- RingSaves,
  prefs <- v1, sync <- v2, ring <- v3, run <- v4, previews <- v5
Poll == INSTANCE AssistantPoll WITH
  MaxBeats <- PollBeats, MaxRefreshes <- PollRefreshes, MaxTurns <- Turns, page <- v1, poll <- v2,
  refreshes <- v3, beats <- v4, server <- v5, missed <- v6, intents <- v7
Thread == INSTANCE MessagingThread WITH
  MaxMessages <- ThreadMessages, MaxFlights <- ThreadFlights, log <- v1, pinned <- v2, page <- v3,
  flights <- v4
Send == INSTANCE MessagingSend WITH
  MaxDrafts <- SendDrafts, MaxKeys <- SendKeys, MaxFlights <- SendFlights, stored <- v1,
  composer <- v2, sends <- v3
Chat == INSTANCE AssistantChat WITH
  MaxMessages <- ChatMessages, MaxAsks <- ChatAsks, MaxRecords <- Records, server <- v1,
  page <- v2, op <- v3, asks <- v4, audio <- v5, recorder <- v6, recs <- v7
Note == INSTANCE VoiceNote WITH
  MaxRecordings <- NoteRecordings, MaxAttachments <- Attachments, notes <- v1, form <- v2,
  call <- v3
Live == INSTANCE LiveTranslate WITH
  MaxGens <- LiveGens, MaxVoices <- LiveVoices, ui <- v1, ctl <- v2, intents <- v3, voices <- v4,
  ids <- v5
History == INSTANCE TranslateHistory WITH
  MaxItems <- HistoryItems, MaxEdits <- Edits, server <- v1, list <- v2, load <- v3, edits <- v4
Scanner == INSTANCE QrScanner WITH
  MaxResolves <- ScanResolves, MaxFrames <- Frames, MaxDialogs <- ScanDialogs, dialog <- v1,
  cam <- v2, resolves <- v3, late <- v4
Rail == INSTANCE Contacts WITH
  MaxChanges <- RelationChanges, server <- v1, shown <- v2, surface <- v3, ops <- v4, reload <- v5,
  behind <- v6
Mailbox == INSTANCE MailboxLock WITH
  MaxChanges <- LockChanges, MaxLoads <- LockLoads, MaxOps <- LockOps, server <- v1, list <- v2,
  open <- v3, dialogs <- v4, ops <- v5, loads <- v6, autoLock <- v7, behind <- v8
Alerts == INSTANCE AssistantAlerts WITH
  Items <- AlertItems, MaxLoads <- AlertLoads, MaxChanges <- AlertChanges, list <- v1,
  server <- v2, shown <- v3, loads <- v4, ops <- v5, behind <- v6
Security == INSTANCE SecurityConsole WITH
  Events <- SecurityEvents, MaxChanges <- SecurityChanges, MaxPolls <- SecurityPolls,
  MaxRows <- SecurityRows, MaxAnswer <- SecurityAnswer, log <- v1, rows <- v2, known <- v3, polls <- v4, page <- v5,
  excused <- v6
Worker == INSTANCE ServiceWorker WITH
  Calls <- CallsIn, MaxVersions <- WorkerVersions, MaxFetches <- WorkerFetches, site <- v1,
  worker <- v2, caches <- v3, fetches <- v4, newest <- v5, late <- v6, notes <- v7, front <- v8
Radio == INSTANCE GroupRadioClient WITH
  MaxBursts <- RadioBursts, bursts <- v1, page <- v2, op <- v3, stop <- v4, leave <- v5, lost <- v6,
  beat <- v7, unsure <- v8, late <- v9
Media == INSTANCE GroupMediaClient WITH
  MaxSessions <- MediaSessions, server <- v1, page <- v2, op <- v3, task <- v4, load <- v5
Space == INSTANCE GroupEvents WITH
  Spaces <- Convs, MaxChanges <- SpaceChanges, MaxLoads <- SpaceLoads, server <- v1, page <- v2,
  ev <- v3, ops <- v4
Panel == INSTANCE GroupTranslation WITH
  MaxChanges <- PanelChanges, MaxLoads <- PanelLoads, MaxAttempts <- Convergence, server <- v1,
  panel <- v2, op <- v3, loads <- v4, missed <- v5
Speech == INSTANCE GroupSpeech WITH
  Segments <- SpeechSegments, Languages <- SpeechLanguages, MaxJobs <- SpeechJobs, server <- v1,
  page <- v2, mgr <- v3, queue <- v4, active <- v5, jobs <- v6, started <- v7, said <- v8
Devices == INSTANCE GroupDevices WITH
  Devices <- DeviceSet, MaxAcquires <- PageAcquires, streams <- v1, manager <- v2, page <- v3,
  ghost <- v4

\* What the parts assume of the constants.
ASSUME PagesConstants ==
  /\ Legacy!CallsAssumption /\ Negotiation!NegotiationAssumption /\ Ringtone!RingtoneAssumption
  /\ Poll!PollAssumption /\ Thread!ThreadAssumption /\ Send!SendAssumption /\ Chat!ChatAssumption
  /\ Note!VoiceNoteAssumption /\ Live!TranslateAssumption /\ History!HistoryAssumption
  /\ Scanner!ScannerAssumption /\ Rail!ContactsAssumption /\ Mailbox!LockAssumption
  /\ Alerts!AlertsAssumption /\ Security!ConsoleAssumption /\ Worker!WorkerAssumption
  /\ Radio!RadioClientAssumption /\ Media!MediaAssumption /\ Space!EventsAssumption
  /\ Panel!PanelAssumption /\ Speech!SpeechAssumption /\ Devices!DevicesAssumption

\* The first n variables are the part's, the others have no value.
Unused(n) ==
  /\ n < 4 => v4 = None
  /\ n < 5 => v5 = None
  /\ n < 6 => v6 = None
  /\ n < 7 => v7 = None
  /\ n < 8 => v8 = None
  /\ n < 9 => v9 = None
Stay(n) ==
  /\ n < 4 => UNCHANGED v4
  /\ n < 5 => UNCHANGED v5
  /\ n < 6 => UNCHANGED v6
  /\ n < 7 => UNCHANGED v7
  /\ n < 8 => UNCHANGED v8
  /\ n < 9 => UNCHANGED v9

Init ==
  \/ which = "legacy" /\ "legacy" \in Parts /\ Legacy!Init /\ Unused(8)
  \/ which = "negotiation" /\ "negotiation" \in Parts /\ Negotiation!Init /\ Unused(5)
  \/ which = "ringtone" /\ "ringtone" \in Parts /\ Ringtone!Init /\ Unused(5)
  \/ which = "poll" /\ "poll" \in Parts /\ Poll!Init /\ Unused(7)
  \/ which = "thread" /\ "thread" \in Parts /\ Thread!Init /\ Unused(4)
  \/ which = "send" /\ "send" \in Parts /\ Send!Init /\ Unused(3)
  \/ which = "chat" /\ "chat" \in Parts /\ Chat!Init /\ Unused(7)
  \/ which = "note" /\ "note" \in Parts /\ Note!Init /\ Unused(3)
  \/ which = "live" /\ "live" \in Parts /\ Live!Init /\ Unused(5)
  \/ which = "history" /\ "history" \in Parts /\ History!Init /\ Unused(4)
  \/ which = "scanner" /\ "scanner" \in Parts /\ Scanner!Init /\ Unused(4)
  \/ which = "contacts" /\ "contacts" \in Parts /\ Rail!Init /\ Unused(6)
  \/ which = "mailbox" /\ "mailbox" \in Parts /\ Mailbox!Init /\ Unused(8)
  \/ which = "alerts" /\ "alerts" \in Parts /\ Alerts!Init /\ Unused(6)
  \/ which = "security" /\ "security" \in Parts /\ Security!Init /\ Unused(6)
  \/ which = "worker" /\ "worker" \in Parts /\ Worker!Init /\ Unused(8)
  \/ which = "radio" /\ "radio" \in Parts /\ Radio!Init /\ Unused(9)
  \/ which = "media" /\ "media" \in Parts /\ Media!Init /\ Unused(5)
  \/ which = "space" /\ "space" \in Parts /\ Space!Init /\ Unused(4)
  \/ which = "panel" /\ "panel" \in Parts /\ Panel!Init /\ Unused(5)
  \/ which = "speech" /\ "speech" \in Parts /\ Speech!Init /\ Unused(8)
  \/ which = "devices" /\ "devices" \in Parts /\ Devices!Init /\ Unused(4)

Step(part, n) == which = part /\ UNCHANGED which /\ Stay(n)

Next ==
  \/ Step("legacy", 8) /\ Legacy!Next
  \/ Step("negotiation", 5) /\ Negotiation!Next
  \/ Step("ringtone", 5) /\ Ringtone!Next
  \/ Step("poll", 7) /\ Poll!Next
  \/ Step("thread", 4) /\ Thread!Next
  \/ Step("send", 3) /\ Send!Next
  \/ Step("chat", 7) /\ Chat!Next
  \/ Step("note", 3) /\ Note!Next
  \/ Step("live", 5) /\ Live!Next
  \/ Step("history", 4) /\ History!Next
  \/ Step("scanner", 4) /\ Scanner!Next
  \/ Step("contacts", 6) /\ Rail!Next
  \/ Step("mailbox", 8) /\ Mailbox!Next
  \/ Step("alerts", 6) /\ Alerts!Next
  \/ Step("security", 6) /\ Security!Next
  \/ Step("worker", 8) /\ Worker!Next
  \/ Step("radio", 9) /\ Radio!Next
  \/ Step("media", 5) /\ Media!Next
  \/ Step("space", 4) /\ Space!Next
  \/ Step("panel", 5) /\ Panel!Next
  \/ Step("speech", 8) /\ Speech!Next
  \/ Step("devices", 4) /\ Devices!Next

Spec == Init /\ [][Next]_vars

\* What a page does depends on no name of a conversation, a space, an alert or a
\* segment; the run gives all of them the same names.
Symmetric == Permutations(Convs \cup AlertItems \cup SpeechSegments)

-----------------------------------------------------------------------------
(* Properties: those of the parts, under their names. *)

\* The state of the part that runs is well-formed.
PagesTypeOK ==
  /\ which \in Parts
  /\ which = "legacy" => Legacy!TypeOK
  /\ which = "negotiation" => Negotiation!TypeOK
  /\ which = "ringtone" => Ringtone!TypeOK
  /\ which = "poll" => Poll!TypeOK
  /\ which = "thread" => Thread!TypeOK
  /\ which = "send" => Send!TypeOK
  /\ which = "chat" => Chat!TypeOK
  /\ which = "note" => Note!TypeOK
  /\ which = "live" => Live!TypeOK
  /\ which = "history" => History!TypeOK
  /\ which = "scanner" => Scanner!TypeOK
  /\ which = "contacts" => Rail!TypeOK
  /\ which = "mailbox" => Mailbox!TypeOK
  /\ which = "alerts" => Alerts!TypeOK
  /\ which = "security" => Security!TypeOK
  /\ which = "worker" => Worker!TypeOK
  /\ which = "radio" => Radio!TypeOK
  /\ which = "media" => Media!TypeOK
  /\ which = "space" => Space!TypeOK
  /\ which = "panel" => Panel!TypeOK
  /\ which = "speech" => Speech!TypeOK
  /\ which = "devices" => Devices!TypeOK

\* The assistant page's own calls: what was cleaned up is never shown, rung or active
\* again, no old answer is taken for a restarted offer, the ringtone that plays is the
\* current call's, and a link's call is placed once.
NoStaleCall ==
  /\ which = "legacy" => Legacy!NoCallReturns /\ Legacy!MicrophoneAccounted
  /\ which = "negotiation" => Negotiation!AnswerMatchesOffer
  /\ which = "ringtone" => Ringtone!RingIsOfTheCall
  /\ which = "poll" => Poll!IntentsOnce

\* The pages of a list fit together, whatever loads overlap: no message of the assistant's
\* chat and no translation is missing between two that are shown, nor any message of the
\* open conversation from its oldest shown to its newest - but for the holes, left by a
\* latest page that no longer meets what is shown or by a reply of another moment, that
\* MessagingThread names - and the pins are the open conversation's.
HistoriesWhole ==
  /\ which = "thread" => Thread!NoOlderSkipped /\ Thread!PinsOfConversation
  /\ which = "chat" => Chat!NoHole
  /\ which = "history" => History!NoHole

\* A text sent again after a failure, or submitted twice at once, is stored once
\* in its conversation - unless another message was submitted in between, which
\* takes the client id of the first from the page.
SentOnce == which = "send" => Send!SentOnce

\* No microphone or camera is left on: what is on is the current recording's, intent's,
\* dialog's or device's, but for the orphans each module names.
CapturesAccounted ==
  /\ which = "note" => Note!MicWhileRecording
  /\ which = "chat" => Chat!RecorderAccounted
  /\ which = "live" => Live!MicrophoneOfIntent
  /\ which = "scanner" => Scanner!CameraOfDialog
  /\ which = "devices" => Devices!DeviceAccounted

\* A burst that talks at the server is one the page can end, but for the failures and late
\* replies the module names, and the recorder runs only for the floor the page holds.
FloorAccounted == which = "radio" => Radio!FloorAccounted /\ Radio!RecordsItsFloor

\* A refresh does not cancel a connection: while one is made to a session that is
\* live and joined at the server, the page shows that session, however late the
\* loads asked before it come.  A load that fails is left out: optional() answers
\* for it with no session, which hides the session that is connecting.
RefreshKeepsConnection == which = "media" => Media!RefreshKeepsConnection

\* Once nothing is under way, what a page shows is what its server holds, but for the
\* failures, the overtaken answers, and the filter, limit and full table of the security
\* console, that each module names: spaces, translations, their
\* history, the microphone's phase, the message form, contacts, the mailbox lock, alerts,
\* the worker's cache and notifications, the presence and the security events.
SettledPageIsTrue ==
  /\ which = "space" => Space!QuietPageIsCurrent
  /\ which = "panel" => Panel!ToldIsShown
  /\ which = "history" => History!ListFollows
  /\ which = "live" => Live!WaitHasCause
  /\ which = "note" => Note!BusyHasCause
  /\ which = "contacts" => Rail!ShownIsTrue
  /\ which = "mailbox" => Mailbox!LockIsTold
  /\ which = "alerts" => Alerts!PanelIsTrue
  /\ which = "worker" => Worker!WorkerSettled
  /\ which = "poll" => Poll!HiddenIsTold
  /\ which = "security" => Security!ConsoleFollows

\* What is read aloud by itself is read once in each language it is shown in, one at a
\* time, and the queue of what is to be spoken does not stall.
SpokenInTurn ==
  /\ which = "speech" => Speech!SpokenOnce /\ Speech!OneVoice /\ Speech!QueueMoves
  /\ which = "live" => Live!OneVoice
=============================================================================
