SPECIFICATION FairSpec
CONSTANTS
    Protocols = {"NANJING"}
    Fds = {1, 2, 3}
    MaxResets = 1
    MaxBreaks = 1
INVARIANTS OneSocket ForeignUntouched
PROPERTY LinkRecovers
