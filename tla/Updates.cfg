SPECIFICATION Spec
CONSTANTS
  beta = beta
  Channels = {stable, beta}
  MaxVersion = 4
  Release <- MCRelease
  Named <- MCNamed
  MaxThreads = 2
  Parts = 1
  MaxEvents = 8
  None = None
INVARIANT TypeOK
INVARIANT SpinnersTellTruth
INVARIANT InstallerIsVerified
PROPERTY NeverDowngrades
PROPERTY SpinnersEnd
