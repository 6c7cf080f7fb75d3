\* Three files, each test or production code, with up to two occurrences
\* of two kinds and one of two whole-file profiles, and top_files cut after
\* two entries (20 in the code): the report is checked against the corpus
\* after every run of main that does not crash, ties and the cut included.
CONSTANTS
    f1 = f1
    f2 = f2
    f3 = f3
    Files <- MCFiles3
    FileOrder <- MCFileOrder3
    PathChoices <- MCPaths
    OccChoices <- MCOccs
    FileChoices <- MCFileSigs
    MaxOcc = 2
    TopFilesLimit = 2
SPECIFICATION Spec
INVARIANT TypeOK
INVARIANT ReportMatchesCorpus
INVARIANT ProductionUsagesInCorpusOrder
CHECK_DEADLOCK FALSE
