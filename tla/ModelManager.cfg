CONSTANTS
    m1 = m1  m2 = m2
    None = None
    AutoUpdate = TRUE
    MaxChanges = 3
    Models <- MCModels
    Folders <- MCFolders

SPECIFICATION FairSpec

INVARIANTS
    QuietScanReconciles
    PlansStayTrue
    StopOvertakesUpdater
PROPERTIES
    EventuallyInSync
    StopReturns
