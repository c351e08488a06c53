SPECIFICATION FairSpec
CONSTANTS
    Files <- SomeFiles
    Root <- SomeRoot
    Names <- SomeNames
    Bad = bad
    MaxItems = 2
    MaxPath = 4
INVARIANTS ContextFollows ResolvedRelative DoneComplete ReadOnce
PROPERTY Terminates
