SPECIFICATION Spec
CONSTANTS
    Scripts <- MCScripts
    Contents <- MCContents
    Main = "main"
    Blank = "blank"
INVARIANTS
    SkippedWritesAreStored
    SavedIsStored
    HoldIsExact
    WorkspaceInv
