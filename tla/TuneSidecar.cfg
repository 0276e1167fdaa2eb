CONSTANTS
    DeviceNames <- MCDeviceNames
    Shapes <- MCShapes
    MaxProcesses = 3
SPECIFICATION TunerSpec
INVARIANT TuneDecisionsPersist
CHECK_DEADLOCK FALSE
