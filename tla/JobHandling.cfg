CONSTANTS
    Uploads <- MCUploads
    EtaFiles <- MCEtaFiles
    Pictures <- MCPictures
    Operations <- MCOperations
    IntMax = 7
    MaxAlpha = 2
    SomeAlpha = 1
    EtaSlots = 4
    MaxUnits = 4
SPECIFICATION FairSpec
INVARIANTS
    EncodersOutlived
    StreamMatchesResult
    VerdictIgnoresTiming
    AcceptedTuneRuns
    EtaSurvivesRestart
    PreparedAsAsked
PROPERTY EventuallyJudged
CHECK_DEADLOCK FALSE
