SPECIFICATION ExportSpec
CONSTANTS
    Names <- MCNames
    IntMax <- MCIntMax
    Inputs <- MCInputs
    PduName = "p"
    PduNames = {"p", "q"}
    Frames <- MCFrames
    Ports <- MCPorts
    Ecus <- MCEcus
    Paths <- MCPaths
    Networks <- MCNetworks
INVARIANTS
    ExportTypeOK
    SilentIffLegal
    FindingsTrue
    NothingDroppedSilently
    ExportKeepsLayout
    PartiesAsStated
CHECK_DEADLOCK FALSE
