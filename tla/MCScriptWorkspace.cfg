SPECIFICATION DeskSpec
CONSTANTS
    s1 = s1
    s2 = s2
    f1 = f1
    f2 = f2
    f3 = f3
    f4 = f4
    Scripts <- MCScripts
    Folders <- MCFolders
    Contents <- MCContents
    Typed <- MCTyped
    Stored <- MCStored
    Blank = 0
    MaxFolderDepth = 2
    MaxEntries = 3
SYMMETRY MCSymmetry
INVARIANTS
    DeskIsSound
PROPERTIES
    RepairsOnlyTheBroken
    NoNewClash
    UnsavedWorkIsKept
    NewEntriesAreShown
