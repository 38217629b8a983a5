CONSTANTS
    alert = alert
    Alerts <- OneAlert
    LastRow = 2
    CheckLimit = 1
    Interval = 2
    MaxFaults = 2
SPECIFICATION FairSpec
INVARIANTS VerdictsFounded MissingToldOnce AlertsThrottled
PROPERTIES JournalChecked OperatorTold
