SPECIFICATION MeasuresSpec
CONSTANTS
  NumFeatures = 2
  WindowValues <- MCWindows
  AlphaNum = 1
  AlphaDen = 5
  MinReference = 2
  MinComparison = 3
  MaxReference = 3
  MaxComparison = 4
INVARIANTS PValuesAreExact HolmControlsTheFamily NoDriftHadPower CalibrationIsTight GateIsStrict
CHECK_DEADLOCK FALSE
