SPECIFICATION WsFairSpec
CONSTANTS
    Sessions = {s1, s2}
    RingSize = 4
    Serials = 5
INVARIANT PayloadExact
PROPERTIES
    ImplementsBroadcast
    Delivered
