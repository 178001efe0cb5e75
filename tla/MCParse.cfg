\* A submission: every way the worker and its caller can meet.
SPECIFICATION FairSpec
\* The call is over.
CHECK_DEADLOCK FALSE
INVARIANT IInv
PROPERTY CallReturns
PROPERTY MeetsContract
