\* Two traits in two files: the per-trait scans must not leak into each
\* other and every single-method trait must be filed exactly once.
CONSTANTS
    f1 = f1
    f2 = f2
    t1 = t1
    t2 = t2
    NoTrait = NoTrait
    Files <- MCFiles
    FileOrder <- MCFileOrder
    Traits = {t1, t2}
    MethodCounts = {0, 1}
    AssocCounts = {0}
    GenericChoices = {FALSE}
    ImplCounts = {0, 1}
    DynCounts = {0, 1}
    BoundCounts = {0}
SPECIFICATION Spec
INVARIANT ProfileIsOfReadFiles
INVARIANT SkippedFilesOnlyLeanTowardsRemoval
INVARIANT ReportCoversSingleMethodTraits
CHECK_DEADLOCK FALSE
