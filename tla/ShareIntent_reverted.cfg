\* One share, made before the catalog is read, and one crash.
SPECIFICATION Spec
CONSTANTS
    MaxChanges = 1
    MaxAuto = 0
    MaxFaults = 0
    MaxCrashes = 1
    MaxDamage = 0
CHECK_DEADLOCK FALSE
INVARIANTS AcknowledgedShareIsKept
