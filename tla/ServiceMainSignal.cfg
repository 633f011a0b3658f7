CONSTANTS
    term1 = term1  term2 = term2  int1 = int1
    other = other
    Main = Main
    Nobody = Nobody
    Missing = Missing
    SigTerms <- MCSigTerms
    SigInts <- MCSigInts
    OtherThreads <- MCOthers
    Files <- CompleteFile
SPECIFICATION FairSpec
PROPERTY
    CaughtSignalEndsService
