SPECIFICATION FairSpec
CONSTANTS
    p1 = p1
    p2 = p2
    p3 = p3
    c1 = c1
    c2 = c2
    c3 = c3
    None = None
    Absent = Absent
    Participants <- TwoParticipants
    Conns <- TwoConns
    MaxRoomParticipants = 2
    EndedCacheOutlivesTokens = TRUE
PROPERTIES
    ClosedSocketEvicted
    EmptyRoomReleased
