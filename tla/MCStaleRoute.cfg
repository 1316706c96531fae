SPECIFICATION WorkspaceSpec
CONSTANTS
  ann = ann
  Routed = {ann}
  Filed = {r1}
  filedBy <- MCFiledBy
  Reading = {load1, load2}
  MaxEdition = 2
  Unloaded = Unloaded
PROPERTY RouteSavedAsSeen
CHECK_DEADLOCK FALSE
