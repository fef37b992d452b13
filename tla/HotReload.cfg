SPECIFICATION Spec

CONSTANTS
    runner1 = runner1
    runner2 = runner2
    editor1 = editor1
    row1 = row1
    row2 = row2
    Runner <- MCRunner
    Main = main
    Editor <- MCEditor
    Id <- MCId
    EmptyConfig = empty
    MaxVersion = 1
    MaxCrash = 2
    None = nothing

INVARIANTS
    TypeOK
    Agreement

PROPERTIES
    NothingStaleSaved
    RestoreSettles
    LockComesBack
