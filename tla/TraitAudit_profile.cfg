\* One single-method trait, two files, every count on either side of the
\* classifier's thresholds.
CONSTANTS
    f1 = f1
    f2 = f2
    t1 = t1
    t2 = t2
    NoTrait = NoTrait
    Files <- MCFiles
    FileOrder <- MCFileOrder
    Traits = {t1}
    MethodCounts = {1, 2}
    AssocCounts = {0, 1}
    GenericChoices = {FALSE, TRUE}
    ImplCounts = {0, 1, 2}
    DynCounts = {0, 1}
    BoundCounts = {0, 1, 2}
SPECIFICATION Spec
INVARIANT TypeOK
INVARIANT ProfileIsOfReadFiles
INVARIANT SkippedFilesOnlyLeanTowardsRemoval
INVARIANT ReportCoversSingleMethodTraits
CHECK_DEADLOCK FALSE
