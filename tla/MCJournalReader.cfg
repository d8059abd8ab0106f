SPECIFICATION FairSpec
CONSTANTS
    Event = {e1, e2}
    Inode = {i1, i2, i3}
    None = None
    Backups = 1
    Failures = 1
    Rotations = 2
INVARIANTS OffsetsAreEarned
PROPERTIES LinesAreApplied
