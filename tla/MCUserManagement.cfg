SPECIFICATION Spec
CONSTANTS
  r1 = r1
  r2 = r2
  t1 = t1
  Requests = {r1, r2}
  Endpoints = {"set_allowed", "edit", "fix_privileges"}
  Tokens = {t1}
  UserPrivs = {"UserPublic", "UserNormal", "AdminManageUsers"}
  TokenPrivs = {"Write", "ManageUser"}
CHECK_DEADLOCK FALSE
SYMMETRY Symmetry
INVARIANTS TypeOK OthersGiven BanIsTold BanIsDated FixComplete
