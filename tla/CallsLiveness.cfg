SPECIFICATION FairSpec
CONSTANTS
  Parts = {"call", "tabs", "voice", "translation", "events"}
  CallsOut = {o1}
  CallsIn = {i1}
  None = None
  CallGens = 1
  CallTabSet = {t1}
  Nobody = Nobody
  Assistant = Assistant
  TabRequests = 1
  VoiceMixers = 2
  VoiceSends = 1
  VoiceGens = 1
  VoiceOps = 2
  Segments = {s1}
  PeerResults = {p1}
  PluginGens = 2
  MaxShown = 2
  MaxEvents = 1
  MaxLoads = 1
PROPERTIES
  CallsMoveOn
  TabsMoveOn
  ControlFreed
  StoppedSegmentEnds
  EventsArrive
CHECK_DEADLOCK FALSE
