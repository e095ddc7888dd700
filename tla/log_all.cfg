CONSTANTS
  Threads = {t1, t2, t3}
  NoThread = NoThread
  MaxLogs = 3
SPECIFICATION FairSpec
INVARIANT TypeOK SlotOwned LinesArrive EnoughSlots
PROPERTY LocksReleased
