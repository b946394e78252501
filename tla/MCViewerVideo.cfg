SPECIFICATION ViewerSpec
CONSTANTS
  d1 = d1
  d2 = d2
  x = x
  Devices = {d1, d2, x}
  D3D11Devices = {d1, d2}
  NoDevice = NoDevice
  MaxDecodes = 3
  MaxDetached = 1
  MaxEpochs = 2
  Sizes = {1, 2}
  SoftwareFormats = {"yuv420p", "other"}
SYMMETRY Symmetry
INVARIANTS DeviceRefsAccounted WrongDeviceOnlyWhenReopened FramesAccounted DarkOnlyAs SDLWindowOwned
CHECK_DEADLOCK FALSE
