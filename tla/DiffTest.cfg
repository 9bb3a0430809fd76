\* A DUT that may get any instruction wrong, and a debugger that may look at devices.
CONSTANTS
  PCs <- MCPCs
  GPRs <- Bit
  FLAGS <- Bit
  RAMs <- Bit
  Ops <- MCOps
  DeviceOps <- MCDeviceOps
  isa <- MCisa
  device <- MCdevice
SPECIFICATION Spec
INVARIANTS TypeOK Lockstep NoFalseAlarm FaultReported NoSilentDrift
\* The program traps, or the first difference stops it.
CHECK_DEADLOCK FALSE
