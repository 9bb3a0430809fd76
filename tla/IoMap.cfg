\* Pages of 8 bytes; one more page than the devices need.
CONSTANTS
  Byte = {0, 1}
  Word <- MCWord
  ScreenSize <- MCScreenSize
  Lens = {4}
  Data <- MCData
  Devices <- MCDevices
  Page = 8
  SpaceMax = 56
  NrMap = 6
  PortMax = 44
  PmemSize = 4
  MaxWrites = 2
SPECIFICATION Spec
INVARIANTS SpacesDisjoint WindowsAgree HostInTouch
\* An assertion may end NEMU.
CHECK_DEADLOCK FALSE
