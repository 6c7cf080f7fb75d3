\* Three files with clone counts 12, 11 or 0 (so that ties and the cut at
\* two hot spots both happen), possibly one unreadable file: main either
\* crashes or writes the closed-form report, and it always ends.
CONSTANTS
    f1 = f1
    f2 = f2
    f3 = f3
    Files <- MCFiles
    FileOrder <- MCFileOrder
    PathChoices <- MCPaths
    ContentChoices <- MCContents
    HotSpotLimit = 2
SPECIFICATION FairSpec
INVARIANT TypeOK
PROPERTY ReportImplemented
CHECK_DEADLOCK FALSE
