SPECIFICATION FairSpec
CONSTANTS
  MaxFd = 1
  TimesOut = FALSE
INVARIANTS
  TableMirrorsItems
  OneJobPerWaiter
PROPERTY JobsDelivered
CHECK_DEADLOCK FALSE
