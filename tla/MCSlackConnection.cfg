\* Six faults of any kinds, in any order.
CONSTANT MaxFaults = 6
SPECIFICATION Spec
INVARIANT UpIsWatched
PROPERTY HealthyIsKept
PROPERTY EventuallyOnline
