SPECIFICATION Spec
CONSTANTS
  a1 = a1
  a2 = a2
  b1 = b1
  ab = ab
  moved = moved
  x = x
  y = y
  s1 = s1
  s2 = s2
  d1 = d1
  d2 = d2
  p1 = p1
  p2 = p2
  db1 = db1
  db2 = db2
  Captures <- SingleSession
  Boots <- MCBoots
  Ids <- MCIds
  RowsIn <- MCRowsIn
  Datasets <- MCDatasets
  StoreOf <- TwoStores
  Promoters <- TwoPromoters
  MinTraining = 1
  MaxWindows = 4
  MaxEdits = 1
INVARIANTS NoSessionIsOnBothSides HoldoutPromotedOnce TrialsAreIndependent MeasuredAsPromoted NothingIsServedTwice ToolsAgree
CHECK_DEADLOCK FALSE
