SPECIFICATION Spec
CONSTANTS
  c1 = c1
  c2 = c2
  s1 = s1
  s2 = s2
  m1 = m1
  Conns = {c1, c2}
  Scores = {s2}
  Matches = {}
  ClientTypes = {"subscribe_scores", "identify", "set_restricted_visibility"}
  Filters <- FewFilters
  ScoreUser <- MCScoreUser
  ScoreMode <- MCScoreMode
  Restricted <- MCRestricted
CHECK_DEADLOCK FALSE
SYMMETRY Symmetry
INVARIANTS TypeOK OneEntry OnlyWhatWasAsked RestrictedHidden
