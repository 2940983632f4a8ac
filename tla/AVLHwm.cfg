SPECIFICATION Spec
CONSTANTS
  Refcounting = FALSE
  Keys = {1, 2, 3, 4}
  Trees = {t1}
  Ops = {"insert", "remove", "commit"}
  Finders <- PointsAndRange
  MaxUpdates = 7
INVARIANT TypeOK
INVARIANT SavedTreesFrozen
INVARIANT AnswersTrue
PROPERTY ImplementsSets
PROPERTY CommittedFrozen
