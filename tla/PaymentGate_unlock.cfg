SPECIFICATION Spec
CONSTANTS
    MaxRequests = 3
    MaxQuotes = 1
    MaxAttempts = 2
    MaxRestarts = 0
PROPERTY CompletedNotChargedAgain
\* Requests are finite; the system may stop.
CHECK_DEADLOCK FALSE
