SPECIFICATION FairSpec
CONSTANTS
    None = None
    a1 = a1
    a2 = a2
    other = other
    DefaultPath = DefaultPath
    Cpus = 1
    MaxDeploys = 1
    Call <- SmallCalls
    Path <- SmallPaths
    Disks <- SmallDisks
    Builders <- SmallBuilders
    Literals <- SmallLiterals
    Strings <- SmallStrings
    Url <- SmallUrls
    Files <- SmallFiles
    Stacks <- SmallStacks
INVARIANTS TypeOK OneBundle EnginesFindBundle SequentialInitsAgree RepliesFitUrl BodyAsDeclared
PROPERTIES RequestsEnd
VIEW Essence
CHECK_DEADLOCK FALSE
