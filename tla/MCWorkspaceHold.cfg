SPECIFICATION Spec
CONSTANTS
    Scripts <- MCScripts
    Contents <- MCContents
    Main = "main"
    Blank = "blank"
PROPERTY
    AutosaveSparesTheOnlyCopy
