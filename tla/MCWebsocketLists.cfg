SPECIFICATION FairSpec
CONSTANTS
  c1 = c1
  c2 = c2
  s1 = s1
  s2 = s2
  m1 = m1
  Conns = {c1, c2}
  Scores = {s1}
  Matches = {m1}
  ClientTypes = {"subscribe_scores", "subscribe_mp_complete_match"}
  Filters <- AllScores
  ScoreUser <- MCScoreUser
  ScoreMode <- MCScoreMode
  Restricted <- MCRestricted
CHECK_DEADLOCK FALSE
INVARIANTS NoEntryLeft WrittenOnce
PROPERTIES SubscriptionLasts Delivered
