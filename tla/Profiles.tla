------------------------------ MODULE Profiles -----------------------------
(***************************************************************************)
(* Users as others see them, and what they say of themselves:              *)
(* app/v1/user.go, app/v1/self.go and app/v1/leaderboard.go, on users,     *)
(* users_stats and the leaderboards in Redis, which pep.py keeps.          *)
(***************************************************************************)
EXTENDS Comments, Sequences

CONSTANTS
  Texts,     \* what a userpage and the other settings may be
  CanBadge,  \* the users with can_custom_badge
  Boards     \* a bound: what a leaderboard may be, the best user first

ASSUME ProfilesAssumption ==
  /\ CanBadge \subseteq Users
  /\ \A b \in Boards : b \in Seq(Users)
                       /\ \A i, j \in DOMAIN b : b[i] = b[j] => i = j

VARIABLES
  page,   \* users_stats.userpage_content
  aka,    \* users_stats.username_aka, which stands for the settings like it
  badge,  \* users_stats.custom_badge_name
  board   \* a leaderboard; the other ones are keys of the same kind

profile == <<page, aka, badge, board>>

Email(u) == <<"email", u, u>>
Donor(u) == <<"donor", u, "UserDonor" \in privileges[u]>>

\* A user may be on a board, and has then a position.
Listed == {<<"listed", board[n], board[n]>> : n \in DOMAIN board}
Position == {<<"position", board[n], n>> : n \in DOMAIN board}

ProfileFacts ==
  {<<"page", u, page[u]>> : u \in Users} \cup {<<"aka", u, aka[u]>> : u \in Users}
  \cup {<<"badge", u, badge[u]>> : u \in Users} \cup {Donor(u) : u \in Users}
  \cup {<<"badger", u, u>> : u \in CanBadge} \cup Listed \cup Position

ProfilesTypeOK ==
  /\ page \in [Users -> Texts]
  /\ aka \in [Users -> Texts]
  /\ badge \in [Users -> Texts]
  /\ board \in Boards

-----------------------------------------------------------------------------
(* Users.                                                                   *)

User(u) == <<"user", u, u>>

\* What UserFullGET and UserLookupGET do with an e-mail address.
UserAndEmail(r, u) == {User(u)} \cup (IF "ManageUser" \in md[r].privs THEN {Email(u)} ELSE {})

\* UsersGET and userPutsSingle: one user, or the users of userPutsMulti.
UsersGET(r) ==
  /\ Serves(r, "users")
  /\ ReplyRows(r, {User(u) : u \in {u \in Users : Visible(r, u, TRUE)}}) \/ Refuse(r)
  /\ UNCHANGED <<comments, disabled, profile>>

UserSelfGET(r) ==
  /\ Serves(r, "users/self")
  /\ \/ md[r].id # Nobody /\ Reply(r, {User(md[r].id)})
     \/ Refuse(r)
  /\ UNCHANGED <<comments, disabled, profile>>

\* UserWhatsTheIDGET, which has a check of its own: no user sees himself here
\* who is not public.
UserWhatsTheIDGET(r) ==
  /\ Serves(r, "users/whatid")
  /\ \/ \E u \in Users : /\ "UserPublic" \in privileges[u] \/ ManagesUsers(md[r])
                         /\ Reply(r, {User(u)})
     \/ Refuse(r)
  /\ UNCHANGED <<comments, disabled, profile>>

\* UserFullGET: the row; notes, ban date and e-mail are for tokens that manage users.
UserFullGET(r) ==
  /\ Serves(r, "users/full")
  /\ \/ \E u \in Users :
          Visible(r, u, TRUE) /\ Continue(r, "users/full:positions", u, UserAndEmail(r, u))
     \/ Refuse(r)
  /\ UNCHANGED <<comments, disabled, profile>>

\* _position: an error of Redis other than Nil makes the user the first.
positionsOf(u) == {{p \in Position : p[2] = u}, {<<"position", u, 1>>}}

\* UserFullGET: the positions on the boards, one of which is here, then badges,
\* clan and names, whose errors are logged.
UserFullGETPositions(r) ==
  /\ pc[r] = "users/full:positions"
  /\ \E positions \in positionsOf(arg[r]) : Reply(r, seen[r] \cup positions)
  /\ UNCHANGED <<comments, disabled, profile>>

UserLookupGET(r) ==
  /\ Serves(r, "users/lookup")
  /\ \/ \E some \in SUBSET {u \in Users : Visible(r, u, TRUE)} :
          Reply(r, UNION {UserAndEmail(r, u) : u \in some})
     \/ Refuse(r)
  /\ UNCHANGED <<comments, disabled, profile>>

-----------------------------------------------------------------------------
(* Userpages and settings.                                                  *)

\* The page of anybody is shown, public or not.
userpage(r, u) == Reply(r, {<<"page", u, page[u]>>}) \/ Refuse(r)

UserUserpageGET(r) ==
  /\ Serves(r, "users/userpage")
  /\ \E u \in Users : userpage(r, u)
  /\ UNCHANGED <<comments, disabled, profile>>

\* UserSelfUserpagePOST: the UPDATE, whose error is logged.
UserSelfUserpagePOST(r) ==
  /\ Serves(r, "self/userpage")
  /\ \/ Refuse(r) /\ UNCHANGED page
     \/ /\ page' \in {page} \cup {[page EXCEPT ![md[r].id] = text] : text \in Texts}
        /\ Continue(r, "self/userpage:get", Nobody, {})
  /\ UNCHANGED <<comments, disabled, aka, badge, board>>

\* UserSelfUserpagePOST ends with the page as it is then.
UserSelfUserpagePOSTGet(r) ==
  /\ pc[r] = "self/userpage:get"
  /\ userpage(r, md[r].id)
  /\ UNCHANGED <<comments, disabled, profile>>

\* UsersSelfSettingsPOST: may the user have a badge?  An error means no.
UsersSelfSettingsPOST(r) ==
  /\ Serves(r, "self/settings/post")
  /\ \E can \in SUBSET ({md[r].id} \cap CanBadge) :
       Continue(r, "self/settings/post:update", Nobody, {<<"badger", u, u>> : u \in can})
  /\ UNCHANGED <<comments, disabled, profile>>

\* UsersSelfSettingsPOST: one UPDATE of the settings that are given, and none
\* when nothing is given; the badge is left out for those who may not have one.
UsersSelfSettingsPOSTUpdate(r) ==
  /\ pc[r] = "self/settings/post:update"
  /\ LET me == md[r].id IN
     \/ /\ aka' \in {aka} \cup {[aka EXCEPT ![me] = text] : text \in Texts}
        /\ \/ badge' = badge
           \/ seen[r] # {} /\ badge' \in {[badge EXCEPT ![me] = text] : text \in Texts}
        /\ disabled' \in {disabled, disabled \cup {me}, disabled \ {me}}
        /\ Continue(r, "self/settings/post:get", Nobody, {})
     \/ Refuse(r) /\ UNCHANGED <<aka, badge, disabled>>
  /\ UNCHANGED <<comments, page, board>>

\* UsersSelfSettingsGET, with which the POST ends: the badge is left out as well.
UsersSelfSettingsGET(r) ==
  /\ Serves(r, "self/settings") \/ pc[r] = "self/settings/post:get"
  /\ LET me == md[r].id IN
     \/ Reply(r, {User(me), Email(me), <<"aka", me, aka[me]>>}
                 \cup {IF me \in disabled THEN <<"disabled", me, me>> ELSE Open(me)}
                 \cup {<<"badge", u, badge[u]>> : u \in {me} \cap CanBadge})
     \/ Refuse(r)
  /\ UNCHANGED <<comments, disabled, profile>>

\* UsersSelfDonorInfoGET: from the privileges as they are now.
UsersSelfDonorInfoGET(r) ==
  /\ Serves(r, "self/donor_info")
  /\ Reply(r, {Donor(md[r].id)}) \/ Refuse(r)
  /\ UNCHANGED <<comments, disabled, profile>>

-----------------------------------------------------------------------------
(* LeaderboardGET.                                                          *)

\* getScoreLb and getCoinLb, where an error makes an empty list; or, sorted by
\* pp, the users on a page of the board.
LeaderboardGET(r) ==
  /\ Serves(r, "leaderboard")
  /\ \/ ReplyRows(r, {User(u) : u \in {u \in Users : {"UserPublic", "UserNormal"} \subseteq privileges[u]}})
     \/ \E some \in SUBSET Listed :
          IF some = {} THEN Reply(r, {}) ELSE Continue(r, "leaderboard:rows", Nobody, some)
     \/ Refuse(r)
  /\ UNCHANGED <<comments, disabled, profile>>

\* LeaderboardGET: their rows, public or not; those that cannot be read are left out.
LeaderboardGETRows(r) ==
  /\ pc[r] = "leaderboard:rows"
  /\ Continue(r, "leaderboard:ranks", Nobody, {}) \/ Refuse(r)
  /\ UNCHANGED <<comments, disabled, profile>>

\* fillLeaderboardRanks: the positions as they are by then, or none after an error.
fillLeaderboardRanks(r) ==
  /\ pc[r] = "leaderboard:ranks"
  /\ \E some \in SUBSET seen[r], ranks \in {{}, Position} :
       Reply(r, some \cup {p \in ranks : <<"listed", p[2], p[2]>> \in some})
  /\ UNCHANGED <<comments, disabled, profile>>

\* pep.py moves users on the board, and takes those off that it bans.
MoveBoard ==
  /\ changes > 0
  /\ changes' = changes - 1
  /\ board' \in Boards
  /\ said' = {}
  /\ UNCHANGED <<calls, privileges, live, requestVars, comments, disabled, page, aka, badge>>

profileHandlers(r) ==
  \/ UsersGET(r) \/ UserSelfGET(r) \/ UserWhatsTheIDGET(r)
  \/ UserFullGET(r) \/ UserFullGETPositions(r) \/ UserLookupGET(r)
  \/ UserUserpageGET(r) \/ UserSelfUserpagePOST(r) \/ UserSelfUserpagePOSTGet(r)
  \/ UsersSelfSettingsPOST(r) \/ UsersSelfSettingsPOSTUpdate(r) \/ UsersSelfSettingsGET(r)
  \/ UsersSelfDonorInfoGET(r)
  \/ LeaderboardGET(r) \/ LeaderboardGETRows(r) \/ fillLeaderboardRanks(r)
=============================================================================
