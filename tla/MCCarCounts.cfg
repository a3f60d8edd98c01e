CONSTANTS
    LIST_IN_OUT_MAX = 2
    MaxCars = 2
SPECIFICATION Spec
INVARIANTS
    StatisExact
    UploadedOnce
    JieruiExact
    RingExact
    EntriesAlternate
