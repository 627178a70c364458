CONSTANTS
  Tokens = {t1, t2}
  Resources = {service, volume, helper}
  Expected = {service, volume}
  Volumes = {volume}
  Helper = helper
  MaxForeign = 1
SPECIFICATION Spec
SYMMETRY Symmetry
INVARIANTS NothingForeignTouched ResourcesStayClaimed RemovedIsDown
CHECK_DEADLOCK FALSE
