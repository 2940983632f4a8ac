SPECIFICATION Spec
CONSTANTS
  Refcounting = FALSE
  Keys = {1, 2, 3, 4}
  Trees = {t1}
  Ops = {"insert", "remove"}
  Finders <- PointsAndRange
  MaxUpdates = 7
INVARIANT Balanced
