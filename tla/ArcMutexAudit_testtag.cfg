\* Files of a production module named latest_value.rs: is_test_file's
\* 'test_' substring test files their occurrences as test code.
CONSTANTS
    f1 = f1
    f2 = f2
    f3 = f3
    Files <- MCFiles
    FileOrder <- MCFileOrder
    PathChoices <- MCPathsLatest
    OccChoices <- MCOccs
    FileChoices <- MCFileSigs
    MaxOcc = 1
    TopFilesLimit = 20
SPECIFICATION Spec
INVARIANT TestTagFollowsPathConvention
CHECK_DEADLOCK FALSE
