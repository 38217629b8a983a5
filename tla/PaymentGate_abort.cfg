SPECIFICATION Spec
CONSTANTS
    MaxRequests = 2
    MaxQuotes = 1
    MaxAttempts = 2
    MaxRestarts = 1
INVARIANT AbortLosesNoRecord
\* Requests are finite; the system may stop.
CHECK_DEADLOCK FALSE
