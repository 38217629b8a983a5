SPECIFICATION Spec
CONSTANTS
    MaxRequests = 3
    MaxQuotes = 2
    MaxAttempts = 1
    MaxRestarts = 1
INVARIANTS ReadOnlyWhenPaid GatesRestOnCharges ChargesAreFollowed
PROPERTY SettlesAsCoreExpects
\* Requests are finite; the system may stop.
CHECK_DEADLOCK FALSE
