SPECIFICATION Spec
CONSTANTS
    Paths <- MCPaths
    Portable <- MCPortable
    Contents <- MCContents
    Size <- MCSize
    RequiredDirectories <- MCRequiredDirectories
    RequiredFiles <- MCRequiredFiles
    Executables <- MCExecutables
    Scripts <- MCScripts
    MaxEntries = 4
    MaxFileBytes = 2
    MaxReleaseBytes = 4
    Releases <- MCReleases
INVARIANTS
    AcceptedIsExact
    RefusedHasCause
CHECK_DEADLOCK FALSE
