SPECIFICATION FairSpec
CONSTANTS
    s1 = s1
    f1 = f1
    f2 = f2
    Sources = {s1}
    NoSource = NoSource
    Files = {f1, f2}
    SourceOf <- MCOneSource
    Contents <- MCContents
    Absent = Absent
    SizeOf <- MCSizeOf
    MaxEvents = 2
INVARIANTS
    IndexedFilesHaveTheirState
    SwitchedOffKeepsOneFile
PROPERTIES
    PurgedUnlessMixedUp
    GrowingLogsGetTheirTurn
