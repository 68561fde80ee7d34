----------------------------- MODULE MCService -----------------------------
(* Service with two requests and two users for TLC: u1 is a player, and u2  *)
(* manages users.                                                          *)
EXTENDS Service, TLC

CONSTANTS r1, r2, u1, u2, key, oauth, private, old, c1, c2

Symmetry == Permutations(Requests)

\* The key is one of the table tokens, and so is the private one.
MCOwner == key :> u1 @@ oauth :> u1 @@ private :> u2
MCGranted ==
  key :> {"ReadConfidential", "Write"} @@ oauth :> {"write", "identify"} @@ private :> {}
\* A banned user, a restricted one, a player, and a manager.
Player0 == {"UserPublic", "UserNormal"}
Manager0 == Player0 \cup {"AdminManageUsers", "AdminAccessRAP", "AdminBanUsers", "AdminManageBeatmap"}
MCRanks == {{}, {"UserNormal"}, Player0, Manager0}

\* Two scores of u1, one on a table that a wipe does not see, and one of u2.
MCPlayer == 1 :> u1 @@ 2 :> u1 @@ 3 :> u2
MCScoreTable == 1 :> 0 @@ 2 :> 1 @@ 3 :> 0
MCScoreMode == [s \in 1..3 |-> 0]
MCCompleted == [s \in 1..3 |-> 3]

MCBoards == {<<>>, <<u1>>, <<u1, u2>>, <<u2, u1>>}
MCSetOf == 1 :> 10 @@ 2 :> 20
Pending == [ranked |-> 0, frozen |-> 0]
Ranked == [ranked |-> 2, frozen |-> 1]
MCStatuses == {Ranked, [ranked |-> 3, frozen |-> 1]}
MCPP == u1 :> 100 @@ u2 :> 90

\* A token next to the one of OAuth is not looked at.
None == <<>>
Key == [k |-> key]
OAuth == [Authorization |-> oauth, token |-> private]
Cookie == [rt |-> private]
MCHeaders == {None, Key, OAuth, Cookie}

\* A start with the calls, n changes, and nothing in the tables but what other says.
Start(these, n, other) ==
  other @@ [calls |-> these,
            changes |-> n,
            privileges |-> u1 :> Player0 @@ u2 :> Manager0,
            rows |-> [p \in Users \X Users |-> 0],
            scores |-> {},
            pinRows |-> [p \in Users \X Scores |-> 0],
            comments |-> {},
            disabled |-> {},
            text |-> "",
            board |-> <<>>,
            mapStatus |-> [m \in Maps |-> Pending],
            clanOf |-> [u \in Users |-> NoClan],
            admins |-> {}]

Nothing == [r \in {} |-> r]
RowsOfPair(a, b, n) == [rows |-> [p \in Users \X Users |-> IF p = <<a, b>> THEN n ELSE 0]]
Restricted == [privileges |-> u1 :> {"UserNormal"} @@ u2 :> Manager0]
Remark(op, prof) == [comments |-> {[id |-> old, op |-> op, prof |-> prof]}]

MCStarts == {
  \* The pipeline and the tokens, with every header.
  Start({"tokens/self/delete", "users/self"} \X MCHeaders
        \cup {"tokens", "tokens/self"} \X {OAuth}, 1, Nothing),
  \* Friends.
  Start({"friends", "friends/add", "friends/del"} \X {Key}
        \cup {"friends/add", "friends/with"} \X {Cookie}, 1, RowsOfPair(u2, u1, 1)),
  Start({"followers", "friends/del"} \X {Key} \cup {"followers_friends"} \X {Cookie}, 1, RowsOfPair(u1, u2, 2)),
  \* Scores.
  Start({"scores", "scores/best", "scores/recent"} \X {None, Cookie}, 1, [scores |-> Scores]),
  Start({"scores/first", "first/oldest"} \X {None}, 1, [scores |-> {1, 2}]),
  Start({"scores", "scores/best", "pinned"} \X {None, Key}, 1, [scores |-> Scores] @@ Restricted),
  Start({"pin"} \X {Key, OAuth} \cup {"wipe"} \X {Cookie}
        \cup {"pinned"} \X {None}, 0, [scores |-> {1, 2}]),
  Start({"unpin"} \X {Key} \cup {"pinned/info", "wipe", "pin"} \X {Cookie}, 0,
        [scores |-> {1, 3},
         pinRows |-> [p \in Users \X Scores |-> IF p = <<u1, 1>> THEN 2 ELSE 0]]),
  Start({"scores/reports"} \X {Cookie}, 1, Nothing),
  \* Comments.
  Start({"comments/post", "comments/delete", "self/settings/post"} \X {Key}
        \cup {"comments"} \X {None}, 1, Remark(u1, u2)),
  Start({"comments", "comments/info", "comments/delete"} \X {Cookie}, 1,
        Remark(u1, u1) @@ Restricted @@ [disabled |-> {u1}]),
  \* Profiles.
  Start({"users", "leaderboard"} \X {None} \cup {"users/full"} \X {Cookie}, 1, [board |-> <<u1, u2>>]),
  Start({"users/userpage"} \X {None} \cup {"users/whatid", "users/lookup"} \X {Cookie}, 1, Nothing),
  Start({"users", "users/full", "users/whatid"} \X {Key}, 1, Restricted @@ [board |-> <<u1>>]),
  Start({"self/userpage", "users/userpage", "self/donor_info"} \X {Key}, 1, Nothing),
  Start({"self/settings/post", "self/settings"} \X {Key}, 0, Nothing),
  \* Maps and clans.
  Start({"beatmaps", "beatmaps/set_status", "beatmaps/search", "beatmaps/ranked_frozen_full"}
        \X {Cookie}, 0, Nothing),
  Start({"clans", "clans/members", "clans/isclan"} \X {None}
        \cup {"clans/getinvite"} \X {Key}, 1,
        [clanOf |-> [u \in Users |-> IF u = u1 THEN c1 ELSE c2], admins |-> {u1}]),
  Start({"clans/stats"} \X {None}, 1,
        [clanOf |-> [u \in Users |-> IF u = u1 THEN c1 ELSE c2], admins |-> {u1}]),
  Start({"clans/stats/all"} \X {None}, 1,
        [clanOf |-> [u \in Users |-> IF u = u1 THEN c1 ELSE c2], admins |-> {u1}])}
=============================================================================
