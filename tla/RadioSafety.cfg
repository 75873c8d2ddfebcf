SPECIFICATION Spec
CONSTANTS
    m1 = m1
    m2 = m2
    t1 = t1
    t2 = t2
    r1 = r1
    r2 = r2
    None = None
    Members <- TwoMembers
    Owner = m1
    Creator = m2
    Tokens <- TwoTokens
    Requests <- TwoRequests
    MaxParticipants = 2
    TranslationEnabled = TRUE
SYMMETRY Symmetric
INVARIANTS
    TypeOK
    OnePresentSpeaker
    JobMatchesBurst
PROPERTIES
    FirstCloserDecides
