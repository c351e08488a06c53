SPECIFICATION FairSpec
CONSTANTS
    Lines <- SomeLines
    MaxLines = 4
    MaxItems = 5
INVARIANTS NothingSkipped DoneIsWhole
PROPERTY OwnLinesParse
