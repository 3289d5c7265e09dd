SPECIFICATION Spec
CONSTANTS
  Power <- MCPower
  Ratio <- MCRatio
  Rotation <- MCRotation
  RegMode = {0, 2}
  RunState = {"idle", "running"}
INVARIANTS TypeOK InStep
PROPERTIES IsDrive
