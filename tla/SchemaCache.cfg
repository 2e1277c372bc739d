SPECIFICATION FairSpec
CONSTANTS
    p1 = p1
    p2 = p2
    installed = installed
    user = user
    NoFile = NoFile
    Sidecar = Sidecar
    r1 = r1
    r2 = r2
    Stocks <- MCStocks
    Procs <- TwoProcs
    Dirs <- TwoDirs
    SearchPath <- TwoPaths
    Releases = {r1, r2}
    Importers = {r1}
    Blocks = 2
    MaxCalls = 3
    MaxEvents = 2
INVARIANTS
    TypeOK
    CacheNeverTorn
    NothingStray
    UndisturbedMissServes
    HalfPopulatedOnlyByLoss
PROPERTIES
    AtomicReplace
    CallsEnd
CHECK_DEADLOCK FALSE
