SPECIFICATION Spec
CONSTANTS
  GPUs = {1, 2, 3}
  NumLayers = 4
  MoEStart = 1
  DenseMB = 1
  HeadMB = 1
  KVMB = 2
  RoutedMB <- MCRouted
  SharedMB <- MCShared
  SplitFixedMB = 2
  ExpertOnlyFixedMB = 1
  FreeMB = {4, 8, 14}
  Bandwidths = {1, 4}
  RamMB = {2, 3, 6, 10}
  RuntimeMB = 1
  CheckpointMB = 1
  Qualities <- MCQualities
  FloorContext = 1
  NativeContext = 3
  MaxSlots = 2
  SlotTargets = {2, 4}
  ContextLimits = {0, 4}
  MaxContradictions = 1
  DeviceSet = {1, 2}
  ExpertLayers = 3
  ExpertPerLayerMB = 100
  UBatches = {512, 256, 64}
  Deficits = {5, 40, 700}
  Allocations = {100, 1000}
  MinMarginMB = 64
  MaxFailures = 2
INVARIANTS NoDeviceOvercommitted HostHolds BestIsTaken
PROPERTY DerateSuffices
CHECK_DEADLOCK FALSE
