SPECIFICATION Spec
CONSTANTS
  Parts = {"call", "tabs", "voice", "translation", "events"}
  CallsOut = {o1}
  CallsIn = {i1}
  None = None
  CallGens = 2
  CallTabSet = {t1, t2}
  Nobody = Nobody
  Assistant = Assistant
  TabRequests = 1
  VoiceMixers = 2
  VoiceSends = 1
  VoiceGens = 1
  VoiceOps = 2
  Segments = {s1, s2}
  PeerResults = {p1}
  PluginGens = 2
  MaxShown = 2
  MaxEvents = 2
  MaxLoads = 2
INVARIANTS
  CallsTypeOK
  NothingOutlivesItsCall
  TabsSoundInTurn
  MutedSpeaksNothing
  TranslatedOnce
  NothingSkipped
PROPERTIES
  OneLine
CHECK_DEADLOCK FALSE
