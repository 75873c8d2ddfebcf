SPECIFICATION Spec
CONSTANTS
    b1 = b1
    t1 = t1
    t2 = t2
    u1 = u1
    u2 = u2
    None = None
    Bursts <- OneBurst
    Targets <- OneTarget
    Uploads <- OneUpload
    Seconds <- ShortAndLong
    Limit = 3
PROPERTIES
    SuppressedStays
