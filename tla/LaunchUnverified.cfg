SPECIFICATION Spec
CONSTANTS
  beta = beta
  Channels = {stable, beta}
  MaxVersion = 4
  Release <- MCRelease
  Named <- MCNamed
  MaxThreads = 2
  Parts = 2
  MaxEvents = 8
  None = None
INVARIANT LaunchedIsVerified
