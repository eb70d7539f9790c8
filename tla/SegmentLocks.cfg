CONSTANTS
  Threads = {t1, t2}
  NoThread = NoThread
  segment_count = 4
  Inserts = 2
SYMMETRY ThreadSymmetry
SPECIFICATION LocksSpec
INVARIANTS LocksTypeOK DataExclusive HoldsWhatItUses
PROPERTY OwnerReleases
CHECK_DEADLOCK FALSE
