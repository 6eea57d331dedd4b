SPECIFICATION Spec
CONSTANTS
  Root <- MCRoot
  NoPath = NoPath
  Gone = Gone
  Urls <- MCUrls
  Dirs <- MCDirs
  Files <- MCFiles
  IndexFiles <- MCIndexFiles
  Contents = {"old", "new", "none"}
  Lengths <- MCLengths
  Unreadable = "none"
  MaxTime = 2
  TPS = 2
  Segments <- MCSegments
  MaxSegments = 4
INVARIANT TypeOK
INVARIANT NotModifiedIsTrue
INVARIANT NotModifiedSinceIsTrue
INVARIANT SteadyIsServed
INVARIANT SafePathExact
INVARIANT ClimbsAreRefusedFirst
