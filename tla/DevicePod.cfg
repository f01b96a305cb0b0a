SPECIFICATION FairSpec
CONSTANTS
  Worlds <- Lives
  RetryTries = 3
  KeptVersions = 2
INVARIANT PodIsSound
INVARIANT DeclaredContent
INVARIANT AcceptedIsPerformed
INVARIANT BinaryIntact
PROPERTY DeviceStateKept
PROPERTY Converges
CHECK_DEADLOCK FALSE
