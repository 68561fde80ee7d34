SPECIFICATION Spec
CONSTANTS
  r1 = r1
  r2 = r2
  u1 = u1
  u2 = u2
  key = key
  oauth = oauth
  private = private
  old = old
  c1 = c1
  c2 = c2
  Requests = {r1, r2}
  Users = {u1, u2}
  Nobody = Nobody
  Tokens = {key, oauth, private}
  NoToken = NoToken
  Bearers = {oauth}
  Owner <- MCOwner
  Granted <- MCGranted
  Private = {private}
  Headers <- MCHeaders
  Managers = {u2}
  Ranks <- MCRanks
  Scores = {1, 2, 3}
  Player <- MCPlayer
  ScoreTable <- MCScoreTable
  ScoreMode <- MCScoreMode
  Completed <- MCCompleted
  Firsts = {1}
  Anticheats = {"flip"}
  OldComments = {old}
  Texts = {"", "text"}
  CanBadge = {u1}
  Boards <- MCBoards
  Maps = {1, 2}
  SetOf <- MCSetOf
  OtherStatus <- MCStatuses
  ClanIds = {c1, c2}
  NoClan = NoClan
  PP <- MCPP
  MaxInt = 3
  PageSizes = {1, 2}
  Starts <- MCStarts
CHECK_DEADLOCK FALSE
SYMMETRY Symmetry
INVARIANTS TypeOK Entitled
PROPERTIES SocialSpec AnswersHeld RestrictedUnseen
