SPECIFICATION Spec
CONSTANTS
    MaxSegments = 5
    Window = 2
    Retention = 5
    Gap = 2
    Lag = 1
PROPERTIES
    CleanerSparesListed
    DeletedStaysDeleted
