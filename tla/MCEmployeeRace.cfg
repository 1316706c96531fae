SPECIFICATION LifecycleSpec
CONSTANTS
  Profiles = {ann}
  Units = {main, side}
  Editors = {c1, c2}
  FinalDay = 1
  MaxHomes = 2
  NoProfile = NoProfile
INVARIANT ProfileAndAccountAgree
CHECK_DEADLOCK FALSE
