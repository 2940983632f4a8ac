SPECIFICATION Spec
CONSTANTS
  Refcounting = TRUE
  Keys = {1, 2, 3, 4}
  Trees = {t1, t2}
  Ops = {"insert", "clone", "remove", "free"}
  Finders <- PointsAndRange
  MaxUpdates = 6
SYMMETRY Symmetry
INVARIANT InsertionsBalance
INVARIANT InsertionsUnseen
INVARIANT CountsExact
