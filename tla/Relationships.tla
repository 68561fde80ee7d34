--------------------------- MODULE Relationships ---------------------------
(***************************************************************************)
(* Friends and followers: app/v1/friend.go and app/mitsuha/followers.go,   *)
(* on the table users_relationships.  Nothing keeps a pair from having     *)
(* several rows.                                                           *)
(***************************************************************************)
EXTENDS Caretaker, Functions

VARIABLE rows  \* users_relationships: how many rows user1, user2 has

Befriended(a, b) == rows[<<a, b>>] > 0
Friend(a, b) == <<"friend", a, b>>

\* Whether a has b as a friend, as a fact.
Relation(a, b) == IF Befriended(a, b) THEN Friend(a, b) ELSE <<"stranger", a, b>>

Followers(u) == {a \in Users : Befriended(a, u)}
NotFollowed(u) == {a \in Followers(u) : ~Befriended(u, a)}

\* myFriendsCount and allFriendedCount count rows, not users.
RowsOf(u, from) == SumFunctionOnSet([a \in Users |-> rows[<<a, u>>]], from)
NotFollowedCount(u) == <<"not followed", u, RowsOf(u, NotFollowed(u))>>
FollowersCount(u) == <<"followers", u, RowsOf(u, Users)>>

RelationshipFacts ==
  {Relation(p[1], p[2]) : p \in Users \X Users}
  \cup {NotFollowedCount(u) : u \in Users} \cup {FollowersCount(u) : u \in Users}

RelationshipsTypeOK == rows \in [Users \X Users -> Nat]

-----------------------------------------------------------------------------
(* friend.go.                                                               *)

\* FriendsGET: who has the user as a friend.  Rows that cannot be read are passed
\* over, and then it is not known who does not.
FriendsGET(r) ==
  /\ Serves(r, "friends")
  /\ LET me == md[r].id IN
     \/ Continue(r, "friends:mine", Nobody, {Relation(b, me) : b \in Users})
     \/ \E some \in SUBSET Followers(me) :
          Continue(r, "friends:mine", Nobody, {Friend(b, me) : b \in some} \cup {Unread})
     \/ Refuse(r)
  /\ UNCHANGED rows

\* What friends says of whether b has the user as a friend.
Mutual(r, b) == seen[r] \cap {Friend(b, md[r].id), <<"stranger", b, md[r].id>>, Unread}

\* FriendsGET: the friends, each with whether it was among the first; a row that
\* cannot be read is the user 0.
FriendsGETMine(r) ==
  /\ pc[r] = "friends:mine"
  /\ LET me == md[r].id
         mine == {b \in Users : Befriended(me, b)} IN
     \/ \E some \in SUBSET mine, gap \in Gaps(mine) :
          Reply(r, {Friend(me, b) : b \in some} \cup gap \cup UNION {Mutual(r, b) : b \in some})
     \/ Refuse(r)
  /\ UNCHANGED rows

\* FriendsWithGET: the friendship is mutual only when there is one.
FriendsWithGET(r) ==
  /\ Serves(r, "friends/with")
  /\ \/ \E u \in Users :
          Reply(r, {Relation(md[r].id, u)}
                   \cup (IF Befriended(md[r].id, u) THEN {Relation(u, md[r].id)} ELSE {}))
     \/ Reply(r, {})
     \/ Refuse(r)
  /\ UNCHANGED rows

\* FriendsAddPOST and userExists.
FriendsAddPOST(r) ==
  /\ Serves(r, "friends/add")
  /\ \/ \E u \in Users \ {md[r].id} :
          Visible(r, u, TRUE) /\ Continue(r, "friends/add:relation", u, {<<"user", u, u>>})
     \/ Refuse(r)
  /\ UNCHANGED rows

\* addFriend: is there a row already, and is there one the other way?
AddFriendExists(r) ==
  /\ pc[r] = "friends/add:relation"
  /\ LET me == md[r].id
         u == arg[r] IN
     \/ Befriended(me, u) /\ Reply(r, seen[r] \cup {Friend(me, u), Relation(u, me)})
     \/ ~Befriended(me, u) /\ Continue(r, "friends/add:insert", u, {Relation(u, me)})
     \/ Refuse(r)
  /\ UNCHANGED rows

\* addFriend: the INSERT.
AddFriendInsert(r) ==
  /\ pc[r] = "friends/add:insert"
  /\ LET me == md[r].id
         u == arg[r] IN
     \/ /\ rows' = [rows EXCEPT ![<<me, u>>] = @ + 1]
        /\ Reply(r, seen[r] \cup {Friend(me, u)})
     \/ Refuse(r) /\ UNCHANGED rows

\* FriendsDelPOST and delFriend: every row of the pair goes; an id of no user has none.
FriendsDelPOST(r) ==
  /\ Serves(r, "friends/del")
  /\ \/ \E u \in Users :
          /\ rows' = [rows EXCEPT ![<<md[r].id, u>>] = 0]
          /\ Reply(r, {<<"stranger", md[r].id, u>>})
     \/ (Refuse(r) \/ Reply(r, {})) /\ UNCHANGED rows

-----------------------------------------------------------------------------
(* followers.go.                                                            *)

\* FollowersGET: for donors and managers; whom the user follows, all of them.
FollowersGET(r) ==
  /\ Serves(r, "followers_friends")
  /\ \/ /\ md[r].user \cap {"UserDonor", "AdminManageUsers"} # {}
        /\ Continue(r, "followers_friends:rows", Nobody, {Relation(md[r].id, b) : b \in Users})
     \/ Refuse(r)
  /\ UNCHANGED rows

\* What followers_friends says of b, whom the user does not follow now: whether
\* the user followed b a statement ago.
Subbed(r, b) ==
  {<<"stranger", md[r].id, b>>}
  \cup (seen[r] \cap {Friend(md[r].id, b), <<"stranger", md[r].id, b>>})

\* FollowersGET: the followers that the user does not follow; a row that cannot
\* be read is the user 0.
FollowersGETRows(r) ==
  /\ pc[r] = "followers_friends:rows"
  /\ LET me == md[r].id IN
     \/ \E some \in SUBSET NotFollowed(me), gap \in Gaps(NotFollowed(me)) :
          Reply(r, {Friend(b, me) : b \in some} \cup gap \cup UNION {Subbed(r, b) : b \in some})
     \/ Refuse(r)
  /\ UNCHANGED rows

\* FollowersGetResponse: the first count.
FollowersGetResponse(r) ==
  /\ Serves(r, "followers")
  /\ \/ \E u \in Users : Continue(r, "followers:all", u, {NotFollowedCount(u)})
     \/ Refuse(r)
  /\ UNCHANGED rows

\* FollowersGetResponse: the second count.
FollowersGetResponseAll(r) ==
  /\ pc[r] = "followers:all"
  /\ \/ Reply(r, seen[r] \cup {FollowersCount(arg[r])})
     \/ Refuse(r)
  /\ UNCHANGED rows

relationshipHandlers(r) ==
  \/ FriendsGET(r) \/ FriendsGETMine(r) \/ FriendsWithGET(r)
  \/ FriendsAddPOST(r) \/ AddFriendExists(r) \/ AddFriendInsert(r) \/ FriendsDelPOST(r)
  \/ FollowersGET(r) \/ FollowersGETRows(r)
  \/ FollowersGetResponse(r) \/ FollowersGetResponseAll(r)
=============================================================================
