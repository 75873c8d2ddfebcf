SPECIFICATION Spec
CONSTANTS
    p1 = p1
    p2 = p2
    p3 = p3
    c1 = c1
    c2 = c2
    c3 = c3
    None = None
    Absent = Absent
    Participants <- ThreeParticipants
    Conns <- ThreeConns
    MaxRoomParticipants = 2
    EndedCacheOutlivesTokens = TRUE
SYMMETRY Symmetric
INVARIANTS
    TypeOK
    OneConnectionPerParticipant
    RoomWithinCapacity
PROPERTIES
    NoResurrection
    LateHandlerHarmless
