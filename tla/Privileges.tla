----------------------------- MODULE Privileges ----------------------------
(***************************************************************************)
(* common/privileges.go and common/user_privileges.go: what an API token   *)
(* may do, and what its owner must be for it.  A bitwise enum is the set   *)
(* of its members.                                                         *)
(***************************************************************************)
EXTENDS Naturals, FiniteSets

UserPrivilege == {
  "UserPublic", "UserNormal", "UserDonor", "AdminAccessRAP", "AdminManageUsers",
  "AdminBanUsers", "AdminSilenceUsers", "AdminWipeUsers", "AdminManageBeatmap",
  "AdminManageServer", "AdminManageSetting", "AdminManageBetaKey", "AdminManageReport",
  "AdminManageDocs", "AdminManageBadges", "AdminViewRAPLogs", "AdminManagePrivilege",
  "AdminSendAlerts", "AdminChatMod", "AdminKickUsers", "UserPendingVerification",
  "UserTournamentStaff", "AdminCaker"}

\* What the owner of a token needs for each of its privileges.  Read asks for
\* bit 30, which is no privilege of UserPrivilege.
privilegeMustBe == [
  Read             |-> {"bit 30"},
  ReadConfidential |-> {"UserNormal"},
  Write            |-> {"UserNormal"},
  ManageBadges     |-> {"AdminAccessRAP", "AdminManageBadges"},
  BetaKeys         |-> {"AdminAccessRAP", "AdminManageBetaKey"},
  ManageSettings   |-> {"AdminAccessRAP", "AdminManageSetting"},
  ViewUserAdvanced |-> {"AdminAccessRAP"},
  ManageUser       |-> {"AdminAccessRAP", "AdminManageUsers", "AdminBanUsers"},
  ManageRoles      |-> {"AdminAccessRAP", "AdminManageUsers", "AdminManagePrivilege"},
  ManageAPIKeys    |-> {"AdminAccessRAP", "AdminManageUsers", "AdminManageServer"},
  Blog             |-> {"AdminChatMod"},
  APIMeta          |-> {"AdminManageServer"},
  Beatmap          |-> {"AdminAccessRAP", "AdminManageBeatmap"},
  Bancho           |-> {"UserNormal"}]

Privilege == DOMAIN privilegeMustBe

\* The scopes of OAuth, and what each of them stands for.
privilegeMap == [read_confidential |-> "ReadConfidential", write |-> "Write", bancho |-> "Bancho"]

\* OAuthPrivileges: scopes that are not known stand for nothing.
OAuthPrivileges(scopes) == {privilegeMap[x] : x \in scopes \cap DOMAIN privilegeMap}

\* CanOnly: of the privileges p of a token, those that its owner can have.
CanOnly(p, userPrivs) == {x \in p \cap Privilege : privilegeMustBe[x] \subseteq userPrivs}
=============================================================================
