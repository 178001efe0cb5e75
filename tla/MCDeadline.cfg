\* A phase that may finish, hang or swallow every cancellation.
SPECIFICATION FairSpec
CONSTANT Attempts = 3
\* The watchdog has returned and the task has ended or hangs.
CHECK_DEADLOCK FALSE
INVARIANT IInv
PROPERTY WatchdogReturns
PROPERTY MeetsContract
