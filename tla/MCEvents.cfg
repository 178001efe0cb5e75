\* Two pages, and every kind of fault.
SPECIFICATION FairSpec
CONSTANTS
  Pages = {p1, p2}
  MaxEvents = 3
  MaxDrops = 1
  MaxRestarts = 1
  MaxCancels = 1
INVARIANTS IInv PagesHaveNoHoles ToldPagesShowTheEnd
PROPERTY PagesAreTold
\* Every page may have been closed for good.
CHECK_DEADLOCK FALSE
