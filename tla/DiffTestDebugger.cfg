\* A correct DUT and a debugger that looks at a device.
CONSTANTS
  PCs <- MCPCs
  GPRs <- Bit
  FLAGS <- Bit
  RAMs <- Bit
  Ops <- MCOps
  DeviceOps <- MCDeviceOps
  isa <- MCisa
  device <- MCdevice
SPECIFICATION Spec
INVARIANTS LookingIsHarmless
\* The program traps, or the first difference stops it.
CHECK_DEADLOCK FALSE
