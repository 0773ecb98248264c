SPECIFICATION PlanCheckSpec
CONSTANTS
  GRAN = 4
  ECAM_SIZE = 8
  SERIAL_SIZE = 2
  VIRTIO_SIZE = 1
  U64_MAX = 255
  PAGE = 2
  U32_MAX = 100
  Inputs <- MCInputs
  FixedDevices <- MCFixedDevices
INVARIANTS
  WindowIsTopOfSpace
