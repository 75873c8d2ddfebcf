SPECIFICATION Spec
CONSTANTS
  Parts = {"media"}
  CallsIn = {i1}
  CallsOut = {o1}
  None = None
  Attempts = 1
  Offers = 3
  Rings = 3
  RingPreviews = 1
  RingSaves = 1
  PollBeats = 2
  PollRefreshes = 2
  Turns = 2
  Convs = {x, y}
  PageSize = 1
  ThreadMessages = 3
  ThreadFlights = 2
  SendDrafts = 2
  SendKeys = 2
  SendFlights = 2
  AI_HISTORY_LIMIT = 1
  ChatMessages = 3
  ChatAsks = 1
  Records = 2
  NoteRecordings = 2
  Attachments = 2
  LiveGens = 2
  LiveVoices = 2
  Limit = 1
  HistoryItems = 3
  Edits = 1
  ScanResolves = 2
  Frames = 2
  ScanDialogs = 2
  Peers = {p1}
  RelationChanges = 2
  LockChanges = 1
  LockLoads = 1
  LockOps = 2
  AlertItems = {x, y}
  AlertLoads = 2
  AlertChanges = 2
  SecurityEvents = {1, 2}
  SecurityChanges = 2
  SecurityPolls = 2
  SecurityRows = 1
  SecurityAnswer = 1
  WorkerVersions = 2
  WorkerFetches = 2
  RadioBursts = 1
  MediaSessions = 1
  SpaceChanges = 1
  SpaceLoads = 1
  PanelChanges = 1
  PanelLoads = 2
  Convergence = 1
  SpeechSegments = {x, y}
  SpeechLanguages = {1, 2}
  SpeechJobs = 3
  DeviceSet = {1, 2}
  PageAcquires = 2
INVARIANTS
  RefreshKeepsConnection
SYMMETRY Symmetric
CHECK_DEADLOCK FALSE
