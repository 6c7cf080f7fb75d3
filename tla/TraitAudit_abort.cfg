\* Violation run: RunNeverAborts (spec says it, the code does not).
CONSTANTS
    f1 = f1
    f2 = f2
    t1 = t1
    t2 = t2
    NoTrait = NoTrait
    Files <- MCFiles
    FileOrder <- MCFileOrder
    Traits = {t1}
    MethodCounts = {1}
    AssocCounts = {0}
    GenericChoices = {FALSE}
    ImplCounts = {0, 1}
    DynCounts = {0}
    BoundCounts = {0}
SPECIFICATION Spec
INVARIANT RunNeverAborts
CHECK_DEADLOCK FALSE
