\* Two descriptors with one callback and the common one, no bound on the calls; seven tests
CONSTANTS
  Fds = {"fd1", "fd2"}
  Kinds <- MCKinds
  Masks <- MCMasks
  Modes <- MCModes
  Callbacks = {"c1"}
  Default = "default"
SPECIFICATION MCSpec
PROPERTIES CallsRight ServedInUse StopEndsWaitInUse TestsPass
CHECK_DEADLOCK FALSE
