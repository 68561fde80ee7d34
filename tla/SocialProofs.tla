---------------------------- MODULE SocialProofs ---------------------------
(* Service implements Social, for every number of requests, users, scores and *)
(* comments.                                                                *)
EXTENDS ServiceProofs

\* What Service shows to Social.
callers == [r \in Requests |-> md[r].id]
friendships == {p \in Users \X Users : Befriended(p[1], p[2])}
pinned == {p \in Users \X Scores : Pinned(p[1], p[2])}
recorded == <<rows, pinRows, comments, reports>>

-----------------------------------------------------------------------------
(* The invariant: a comment that is about to be deleted is its caller's, and *)
(* who is about to pin or unpin has read of that score alone.               *)

CommentsInv ==
  /\ \A c, d \in comments : c.id = d.id => c = d
  /\ \A c \in comments : c.id \in Requests => answer[c.id] # "none"
  /\ \A r \in Requests : pc[r] = "comments/delete:row" =>
       /\ arg[r] \in Requests => answer[arg[r]] # "none"
       /\ \A c \in comments : c.id = arg[r] => md[r].id \in {c.op, c.prof} \cup Managers

\* What the call of user me with x has read, at the statement l.
HasRead(l, x, me, facts) ==
  /\ l \in Looking \cup {"handler"} => facts = {}
  /\ l \in {"pin:pinned", "pin:insert"} => facts = {Score(x)}
  /\ l = "unpin:delete" => facts = {Pin(me, x)}

ReadInv ==
  /\ DOMAIN seen = Requests
  /\ \A r \in Requests : HasRead(pc[r], arg[r], md[r].id, seen[r])

SocialInv == ServiceInv /\ CommentsInv /\ ReadInv

\* A step of r leaves other requests alone, and no answer is taken back.
LEMMA OthersStay ==
  ASSUME ServiceInv, NEW r \in Requests, Moves(r) \/ caretaker(r)
  PROVE  /\ \A q \in Requests \ {r} : pc'[q] = pc[q] /\ arg'[q] = arg[q] /\ md'[q] = md[q]
         /\ \A q \in Requests : answer[q] # "none" => answer'[q] # "none"
<1>1. CASE \E l, x, facts : Continue(r, l, x, facts)
  BY <1>1 DEF Continue, ServiceInv, PipelineInv, Located
<1>2. CASE \E status \in {"ok", "no", "pls200"} : \E facts : Finish(r, status, facts)
  BY <1>2 DEF Finish, ServiceInv, PipelineInv, CaretakerTypeOK, Located
<1>3. CASE Receive(r)
  BY <1>3 DEF Receive, ServiceInv, PipelineInv, Located
<1>4. CASE \E user, l : LogIn(r, user, l)
  BY <1>4 DEF LogIn, ServiceInv, PipelineInv, CaretakerTypeOK, Located
<1> QED BY <1>1, <1>2, <1>3, <1>4
        DEF Moves, caretaker, GetTokenFull, BearerScope, BearerUser, Check, Reject

\* A step that neither posts a comment nor finds one to delete.
LEMMA CommentsStay ==
  ASSUME SocialInv, NEW r \in Requests, Moves(r) \/ caretaker(r),
         comments' \subseteq comments, pc'[r] # "comments/delete:row"
  PROVE  CommentsInv'
<1>1. /\ \A q \in Requests \ {r} : pc'[q] = pc[q] /\ arg'[q] = arg[q] /\ md'[q] = md[q]
      /\ \A q \in Requests : answer[q] # "none" => answer'[q] # "none"
  BY OthersStay DEF SocialInv
<1> QED BY <1>1 DEF SocialInv, CommentsInv

-----------------------------------------------------------------------------
(* Which endpoints the handlers of a module are of.                         *)

LEMMA RelationshipEndpoints ==
  ASSUME ServiceInv, NEW r \in Requests, relationshipHandlers(r), Serving(r)
  PROVE  endpoint[r] \in OnRelationships
<1>1. \/ \E e \in OnRelationships : Serves(r, e)
      \/ pc[r] \in {"friends:mine", "friends/add:relation", "friends/add:insert",
                    "followers_friends:rows", "followers:all"}
  BY DEF relationshipHandlers, FriendsGET, FriendsGETMine, FriendsWithGET, FriendsAddPOST,
         AddFriendExists, AddFriendInsert, FriendsDelPOST, FollowersGET, FollowersGETRows,
         FollowersGetResponse, FollowersGetResponseAll, OnRelationships
<1>2. ASSUME pc[r] # "handler"
      PROVE  StepOf(pc[r], endpoint[r])
  BY <1>2, HandlerSteps DEF ServiceInv
<1> QED BY <1>1, <1>2 DEF Serves, StepOf, OnRelationships

LEMMA ScoreEndpoints ==
  ASSUME ServiceInv, NEW r \in Requests, scoreHandlers(r), Serving(r)
  PROVE  endpoint[r] \in OnScores
<1>1. \/ \E e \in OnScores : Serves(r, e)
      \/ pc[r] \in {"scores:rows", "scores/first:rows", "first/oldest:rows", "pin:pinned",
                    "pin:insert", "unpin:delete", "wipe:tx", "wipe:user", "reports:anticheat",
                    "reports:new", "reports:insert", "reports:commit", "reports:commit new"}
  BY DEF scoreHandlers, ScoresGET, ScoresGETRows, UserScoresBestGET, UserScoresRecentGET,
         UserFirstGET, UserFirstGETRows, OldestFirstGET, OldestFirstGETRows, UserPinnedGET,
         PinnedScoreGET, UserPinnedPOST, UserPinnedPOSTPinned, UserPinnedPOSTInsert, UserPinnedDeletePOST,
         UserPinnedDeletePOSTDelete, WipeUserPOST, WipeUserPOSTCommit, WipeUserPOSTAnswer,
         ScoreReportPOST, ScoreReportPOSTAnticheat, ScoreReportPOSTInsert, ScoreReportPOSTCommit,
         OnScores
<1>2. ASSUME pc[r] # "handler"
      PROVE  StepOf(pc[r], endpoint[r])
  BY <1>2, HandlerSteps DEF ServiceInv
<1> QED BY <1>1, <1>2 DEF Serves, StepOf, OnScores

OnProfiles == {"users", "users/self", "users/whatid", "users/full", "users/lookup",
               "users/userpage", "self/userpage", "self/settings/post", "self/settings",
               "self/donor_info", "leaderboard"}

LEMMA ProfileEndpoints ==
  ASSUME ServiceInv, NEW r \in Requests, profileHandlers(r), Serving(r)
  PROVE  endpoint[r] \in OnProfiles
<1>1. \/ \E e \in OnProfiles : Serves(r, e)
      \/ pc[r] \in {"users/full:positions", "self/userpage:get", "self/settings/post:update",
                    "self/settings/post:get", "leaderboard:rows", "leaderboard:ranks"}
  BY DEF profileHandlers, UsersGET, UserSelfGET, UserWhatsTheIDGET, UserFullGET,
         UserFullGETPositions, UserLookupGET, UserUserpageGET, UserSelfUserpagePOST,
         UserSelfUserpagePOSTGet, UsersSelfSettingsPOST, UsersSelfSettingsPOSTUpdate,
         UsersSelfSettingsGET, UsersSelfDonorInfoGET, LeaderboardGET, LeaderboardGETRows,
         fillLeaderboardRanks, OnProfiles
<1>2. ASSUME pc[r] # "handler"
      PROVE  StepOf(pc[r], endpoint[r])
  BY <1>2, HandlerSteps DEF ServiceInv
<1> QED BY <1>1, <1>2 DEF Serves, StepOf, OnProfiles

LEMMA BeatmapEndpoints ==
  ASSUME ServiceInv, NEW r \in Requests, beatmapHandlers(r), Serving(r)
  PROVE  endpoint[r] \in OnBeatmaps
<1>1. \/ \E e \in OnBeatmaps : Serves(r, e)
      \/ pc[r] \in {"beatmaps/set_status:update", "beatmaps/set_status:get"}
  BY DEF beatmapHandlers, BeatmapSetStatusPOST, BeatmapSetStatusPOSTUpdate,
         BeatmapSetStatusPOSTGet, BeatmapGET, BeatmapRankedFrozenFullGET, BeatmapSearchGET,
         OnBeatmaps
<1>2. ASSUME pc[r] # "handler"
      PROVE  StepOf(pc[r], endpoint[r])
  BY <1>2, HandlerSteps DEF ServiceInv
<1> QED BY <1>1, <1>2 DEF Serves, StepOf, OnBeatmaps

LEMMA ClanEndpoints ==
  ASSUME ServiceInv, NEW r \in Requests, clanHandlers(r), Serving(r)
  PROVE  endpoint[r] \in OnClans
<1>1. \/ \E e \in OnClans : Serves(r, e)
      \/ pc[r] \in {"clans/getinvite:invite", "clans/stats:members"}
  BY DEF clanHandlers, ClansGET, ClanMembersGET, IsInClanGET, ClanInviteGET, ClanInviteGETInvite,
         ClanStatsGET, TotalClanStatsGET, AllClanStatsGET, OnClans
<1>2. ASSUME pc[r] # "handler"
      PROVE  StepOf(pc[r], endpoint[r])
  BY <1>2, HandlerSteps DEF ServiceInv
<1> QED BY <1>1, <1>2 DEF Serves, StepOf, OnClans

-----------------------------------------------------------------------------
(* The invariant is kept.                                                   *)

LEMMA ElsewhereNoDelete ==
  ASSUME SocialInv, NEW r \in Requests, Moves(r), endpoint[r] # "comments/delete",
         comments' \subseteq comments
  PROVE  CommentsInv'
<1>1. pc'[r] # "comments/delete:row"
  <2>1. CASE \E l, x, facts : Continue(r, l, x, facts) /\ StepOf(l, endpoint[r])
    BY <2>1 DEF Continue, StepOf, SocialInv, ServiceInv, PipelineInv, Located
  <2>2. CASE \E status \in {"ok", "no", "pls200"} : \E facts : Finish(r, status, facts)
    BY <2>2 DEF Finish, SocialInv, ServiceInv, PipelineInv, Located
  <2> QED BY <2>1, <2>2 DEF Moves
<1> QED BY <1>1, CommentsStay

LEMMA CaretakerComments ==
  ASSUME SocialInv, NEW r \in Requests, Caretaking(r)
  PROVE  CommentsInv'
<1>1. CASE caretaker(r)
  <2>1. pc'[r] # "comments/delete:row"
    <3>1. CASE Receive(r)
      BY <3>1 DEF Receive, SocialInv, ServiceInv, PipelineInv, Located
    <3>2. CASE \E user : LogIn(r, user, "check")
      BY <3>2 DEF LogIn, SocialInv, ServiceInv, PipelineInv, Located
    <3>3. CASE \E l \in {"bearer:user", "handler"} : \E x, facts : Continue(r, l, x, facts)
      BY <3>3 DEF Continue, SocialInv, ServiceInv, PipelineInv, Located
    <3>4. CASE Reject(r)
      BY <3>4 DEF Reject, Finish, SocialInv, ServiceInv, PipelineInv, Located
    <3> QED BY <1>1, <3>1, <3>2, <3>3, <3>4
            DEF caretaker, GetTokenFull, BearerScope, BearerUser, Check
  <2> QED BY <1>1, <2>1, CommentsStay DEF Caretaking
<1>2. CASE tokenHandlers(r)
  <2>1. Moves(r)
    BY <1>2, TokenHandlersMove
  <2>2. endpoint[r] # "comments/delete"
    BY <1>2 DEF tokenHandlers, TokenSelfDeletePOST, TokenSelfGET, TokenGET, Serves
  <2> QED BY <2>1, <2>2, ElsewhereNoDelete DEF Caretaking
<1> QED BY <1>1, <1>2 DEF Caretaking

LEMMA HandlerComments ==
  ASSUME SocialInv, NEW r \in Requests, commentHandlers(r)
  PROVE  CommentsInv'
<1>1. Serving(r) /\ Moves(r)
  BY CommentHandlersMove DEF SocialInv, ServiceInv, TablesTypeOK
<1>2. /\ \A q \in Requests \ {r} : pc'[q] = pc[q] /\ arg'[q] = arg[q] /\ md'[q] = md[q]
      /\ \A q \in Requests : answer[q] # "none" => answer'[q] # "none"
  BY <1>1, OthersStay DEF SocialInv
<1>3. CASE CommentPOSTInsert(r)
  <2>1. answer[r] = "none"
    BY <1>1 DEF SocialInv, ServiceInv, PipelineInv, Located, Serving
  <2>2. pc'[r] = "done" /\ answer'[r] # "none"
    BY <1>3 DEF CommentPOSTInsert, Reply, Refuse, Finish, SocialInv, ServiceInv, PipelineInv,
                CaretakerTypeOK, Located
  <2>3. comments' \subseteq comments \cup {[id |-> r, op |-> md[r].id, prof |-> arg[r]]}
    BY <1>3 DEF CommentPOSTInsert
  <2>4. \A c \in comments : c.id # r
    BY <2>1 DEF SocialInv, CommentsInv
  <2> QED BY <1>2, <2>1, <2>2, <2>3, <2>4 DEF SocialInv, CommentsInv
<1>4. CASE CommentDELETE(r)
  <2>1. CASE Refuse(r)
    <3>1. pc'[r] = "done"
      BY <2>1 DEF Refuse, Finish, SocialInv, ServiceInv, PipelineInv, Located
    <3> QED BY <1>1, <1>4, <3>1, CommentsStay DEF CommentDELETE
  <2>2. ASSUME NEW c \in comments, md[r].id \in {c.op, c.prof} \/ ManagesUsers(md[r]),
               Continue(r, "comments/delete:row", c.id, {})
        PROVE  CommentsInv'
    <3>1. /\ UNCHANGED <<md, answer>> /\ arg'[r] = c.id /\ UNCHANGED comments
          /\ pc' = [pc EXCEPT ![r] = "comments/delete:row"]
      BY <1>4, <2>2 DEF Continue, CommentDELETE, SocialInv, ServiceInv, PipelineInv, Located
    <3>2. ManagesUsers(md[r]) => md[r].id \in Managers
      BY DEF SocialInv, ServiceInv, PipelineInv, Trusted, UserOK
    <3>3. \A d \in comments : d.id = c.id => md[r].id \in {d.op, d.prof} \cup Managers
      BY <2>2, <3>2 DEF SocialInv, CommentsInv
    <3> QED BY <1>2, <3>1, <3>3 DEF SocialInv, CommentsInv
  <2> QED BY <1>4, <2>1, <2>2 DEF CommentDELETE
<1>5. CASE /\ comments' \subseteq comments /\ pc'[r] # "comments/delete:row"
  BY <1>1, <1>5, CommentsStay
<1>6. ASSUME NEW l, NEW x, NEW facts, Continue(r, l, x, facts), l # "comments/delete:row"
      PROVE  pc'[r] # "comments/delete:row"
  BY <1>6 DEF Continue, SocialInv, ServiceInv, PipelineInv, Located
<1>7. ASSUME NEW facts, Reply(r, facts) \/ Refuse(r)
      PROVE  pc'[r] # "comments/delete:row"
  BY <1>7 DEF Reply, Refuse, Finish, SocialInv, ServiceInv, PipelineInv, Located
<1>8. CASE CommentPOST(r) \/ CommentPOSTMe(r) \/ CommentPOSTOpen(r)
  BY <1>5, <1>6, <1>7, <1>8 DEF CommentPOST, CommentPOSTMe, CommentPOSTOpen
<1>9. CASE CommentGET(r) \/ CommentInfoGET(r)
  BY <1>5, <1>6, <1>7, <1>9 DEF CommentGET, CommentInfoGET
<1>10. CASE CommentGETRows(r) \/ CommentDELETERow(r) \/ CommentInfoGETProfile(r)
  BY <1>5, <1>7, <1>10 DEF CommentGETRows, CommentDELETERow, CommentInfoGETProfile
<1> QED BY <1>3, <1>4, <1>8, <1>9, <1>10 DEF commentHandlers

LEMMA ProfilesKeepComments ==
  ASSUME NEW r, profileHandlers(r)
  PROVE  comments' = comments
BY DEF profileHandlers, UsersGET, UserSelfGET, UserWhatsTheIDGET, UserFullGET, UserFullGETPositions,
       UserLookupGET, UserUserpageGET, UserSelfUserpagePOST, UserSelfUserpagePOSTGet,
       UsersSelfSettingsPOST, UsersSelfSettingsPOSTUpdate, UsersSelfSettingsGET,
       UsersSelfDonorInfoGET, LeaderboardGET, LeaderboardGETRows, fillLeaderboardRanks

LEMMA StepComments ==
  ASSUME SocialInv, Next
  PROVE  CommentsInv'
<1>1. ASSUME NEW r \in Requests, Caretaking(r)
      PROVE  CommentsInv'
  BY <1>1, CaretakerComments
<1>2. ASSUME NEW r \in Requests, ServeRelationships(r)
      PROVE  CommentsInv'
  <2>1. Moves(r) /\ endpoint[r] \in OnRelationships /\ comments' = comments
    BY <1>2, RelationshipHandlersMove, RelationshipEndpoints
       DEF ServeRelationships, SocialInv, ServiceInv, TablesTypeOK
  <2> QED BY <2>1, ElsewhereNoDelete DEF OnRelationships
<1>3. ASSUME NEW r \in Requests, ServeScores(r)
      PROVE  CommentsInv'
  <2>1. Moves(r) /\ endpoint[r] \in OnScores /\ comments' = comments
    BY <1>3, ScoreHandlersMove, ScoreEndpoints DEF ServeScores, SocialInv, ServiceInv, TablesTypeOK
  <2> QED BY <2>1, ElsewhereNoDelete DEF OnScores
<1>4. ASSUME NEW r \in Requests, ServeComments(r)
      PROVE  CommentsInv'
  BY <1>4, HandlerComments DEF ServeComments
<1>5. ASSUME NEW r \in Requests, ServeProfiles(r)
      PROVE  CommentsInv'
  <2>1. Moves(r) /\ endpoint[r] \in OnProfiles
    BY <1>5, ProfileHandlersMove, ProfileEndpoints DEF ServeProfiles, SocialInv, ServiceInv
  <2>2. comments' = comments
    BY <1>5, ProfilesKeepComments DEF ServeProfiles
  <2> QED BY <2>1, <2>2, ElsewhereNoDelete DEF OnProfiles
<1>6. ASSUME NEW r \in Requests, ServeBeatmaps(r)
      PROVE  CommentsInv'
  <2>1. Moves(r) /\ endpoint[r] \in OnBeatmaps /\ comments' = comments
    BY <1>6, BeatmapHandlersMove, BeatmapEndpoints
       DEF ServeBeatmaps, SocialInv, ServiceInv, TablesTypeOK
  <2> QED BY <2>1, ElsewhereNoDelete DEF OnBeatmaps
<1>7. ASSUME NEW r \in Requests, ServeClans(r)
      PROVE  CommentsInv'
  <2>1. Moves(r) /\ endpoint[r] \in OnClans /\ comments' = comments
    BY <1>7, ClanHandlersMove, ClanEndpoints DEF ServeClans, SocialInv, ServiceInv, TablesTypeOK
  <2> QED BY <2>1, ElsewhereNoDelete DEF OnClans
<1>8. CASE World
  <2>1. UNCHANGED <<comments, pc, arg, md, answer>>
    BY <1>8 DEF World, ChangeUser, DropToken, MoveBoard, ChangeClan, requestVars
  <2> QED BY <2>1 DEF SocialInv, CommentsInv
<1> QED BY <1>1, <1>2, <1>3, <1>4, <1>5, <1>6, <1>7, <1>8 DEF Next

\* What others have read stays.
LEMMA OthersRead ==
  ASSUME SocialInv, NEW r \in Requests, Moves(r) \/ caretaker(r),
         HasRead(pc[r], arg[r], md[r].id, seen[r])'
  PROVE  ReadInv'
<1>1. \A q \in Requests \ {r} : pc'[q] = pc[q] /\ arg'[q] = arg[q] /\ md'[q] = md[q]
  BY OthersStay DEF SocialInv
<1>2. DOMAIN seen' = Requests /\ \A q \in Requests \ {r} : seen'[q] = seen[q]
  <2>1. CASE \E facts : \/ seen' = [seen EXCEPT ![r] = @ \cup facts]
                       \/ seen' = [seen EXCEPT ![r] = {}] \/ seen' = seen
    BY <2>1 DEF SocialInv, ReadInv
  <2> QED BY <2>1 DEF Moves, caretaker, Receive, GetTokenFull, BearerScope, BearerUser, Check,
                      Reject, Continue, Finish, LogIn
<1> QED BY <1>1, <1>2 DEF SocialInv, ReadInv, HasRead

\* The pipeline reads nothing that is kept.
LEMMA CaretakerReads ==
  ASSUME SocialInv, NEW r \in Requests, caretaker(r)
  PROVE  ReadInv'
<1>1. seen[r] = {}
  BY DEF caretaker, Receive, GetTokenFull, BearerScope, BearerUser, Check, SocialInv, ReadInv,
         HasRead, Looking
<1>2. seen'[r] = {}
  BY <1>1 DEF caretaker, Receive, GetTokenFull, BearerScope, BearerUser, Check, Reject, Continue,
              Finish, LogIn, SocialInv, ReadInv
<1>3. pc'[r] \in Looking \cup {"handler", "done"}
  BY DEF caretaker, Receive, GetTokenFull, BearerScope, BearerUser, Check, Reject, Continue,
         Finish, LogIn, Looking, SocialInv, ServiceInv, PipelineInv, Located
<1>4. HasRead(pc[r], arg[r], md[r].id, seen[r])'
  BY <1>2, <1>3 DEF HasRead, Looking
<1> QED BY <1>4, OthersRead

\* Where a request is after a step of its handler.
LEMMA MovesTo ==
  ASSUME SocialInv, NEW r \in Requests, Moves(r)
  PROVE  pc'[r] = "done" \/ StepOf(pc'[r], endpoint[r])
BY DEF Moves, Continue, Finish, SocialInv, ServiceInv, PipelineInv, Located

\* Handlers that neither pin nor unpin.
LEMMA ElsewhereReads ==
  ASSUME SocialInv, NEW r \in Requests, Moves(r), endpoint[r] \notin {"pin", "unpin"}
  PROVE  ReadInv'
<1>1. pc'[r] \notin Looking \cup {"handler", "pin:pinned", "pin:insert", "unpin:delete"}
  BY MovesTo DEF StepOf, Looking
<1>2. HasRead(pc[r], arg[r], md[r].id, seen[r])'
  BY <1>1 DEF HasRead
<1> QED BY <1>2, OthersRead

\* Those that do.
LEMMA PinsRead ==
  ASSUME SocialInv, NEW r \in Requests, scoreHandlers(r), Serving(r), Moves(r)
  PROVE  ReadInv'
<1>1. CASE endpoint[r] \notin {"pin", "unpin"}
  BY <1>1, ElsewhereReads
<1>2. pc[r] # "handler" => StepOf(pc[r], endpoint[r])
  BY HandlerSteps DEF SocialInv, ServiceInv
<1>3. ASSUME NEW l, NEW x, NEW facts, Continue(r, l, x, facts),
             HasRead(l, x, md[r].id, seen[r] \cup facts)
      PROVE  ReadInv'
  <2>1. /\ pc'[r] = l /\ arg'[r] = x /\ seen'[r] = seen[r] \cup facts /\ md' = md
    BY <1>3 DEF Continue, SocialInv, ServiceInv, PipelineInv, Located, ReadInv
  <2>2. HasRead(pc[r], arg[r], md[r].id, seen[r])'
    BY <1>3, <2>1 DEF HasRead
  <2> QED BY <2>2, OthersRead
<1>4. ASSUME NEW facts, Reply(r, facts) \/ Refuse(r)
      PROVE  ReadInv'
  <2>1. pc'[r] = "done"
    BY <1>4 DEF Reply, Refuse, Finish, SocialInv, ServiceInv, PipelineInv, Located
  <2>2. HasRead(pc[r], arg[r], md[r].id, seen[r])'
    BY <2>1 DEF HasRead, Looking
  <2> QED BY <2>2, OthersRead
<1>5. HasRead(pc[r], arg[r], md[r].id, seen[r])
  BY DEF SocialInv, ReadInv
<1>6. CASE UserPinnedPOST(r)
  <2>1. ASSUME NEW s, Continue(r, "pin:pinned", s, {Score(s)})
        PROVE  ReadInv'
    <3>1. seen[r] \cup {Score(s)} = {Score(s)}
      BY <1>5, <1>6 DEF UserPinnedPOST, Serves, HasRead
    <3>2. HasRead("pin:pinned", s, md[r].id, seen[r] \cup {Score(s)})
      BY <3>1 DEF HasRead, Looking
    <3> QED BY <1>3, <2>1, <3>2
  <2> QED BY <1>4, <1>6, <2>1 DEF UserPinnedPOST
<1>7. CASE UserPinnedPOSTPinned(r)
  <2>1. HasRead("pin:insert", arg[r], md[r].id, seen[r] \cup {})
    BY <1>5, <1>7 DEF UserPinnedPOSTPinned, HasRead, Looking
  <2> QED BY <1>3, <1>4, <1>7, <2>1 DEF UserPinnedPOSTPinned
<1>8. CASE UserPinnedDeletePOST(r)
  <2>1. ASSUME NEW s, Continue(r, "unpin:delete", s, {Pin(md[r].id, s)})
        PROVE  ReadInv'
    <3>1. seen[r] \cup {Pin(md[r].id, s)} = {Pin(md[r].id, s)}
      BY <1>5, <1>8 DEF UserPinnedDeletePOST, Serves, HasRead
    <3>2. HasRead("unpin:delete", s, md[r].id, seen[r] \cup {Pin(md[r].id, s)})
      BY <3>1 DEF HasRead, Looking
    <3> QED BY <1>3, <2>1, <3>2
  <2> QED BY <1>4, <1>8, <2>1 DEF UserPinnedDeletePOST
<1>9. CASE UserPinnedPOSTInsert(r) \/ UserPinnedDeletePOSTDelete(r)
  BY <1>4, <1>9 DEF UserPinnedPOSTInsert, UserPinnedDeletePOSTDelete
<1>10. ASSUME \/ ScoresGET(r) \/ ScoresGETRows(r) \/ UserScoresBestGET(r) \/ UserScoresRecentGET(r)
              \/ UserFirstGET(r) \/ UserFirstGETRows(r) \/ OldestFirstGET(r)
              \/ OldestFirstGETRows(r) \/ UserPinnedGET(r) \/ PinnedScoreGET(r)
       PROVE  endpoint[r] \notin {"pin", "unpin"}
  BY <1>2, <1>10 DEF ScoresGET, ScoresGETRows, UserScoresBestGET, UserScoresRecentGET, UserFirstGET,
         UserFirstGETRows, OldestFirstGET, OldestFirstGETRows, UserPinnedGET, PinnedScoreGET,
         Serves, StepOf
<1>11. ASSUME \/ WipeUserPOST(r) \/ WipeUserPOSTCommit(r) \/ WipeUserPOSTAnswer(r)
              \/ ScoreReportPOST(r) \/ ScoreReportPOSTAnticheat(r) \/ ScoreReportPOSTInsert(r)
              \/ ScoreReportPOSTCommit(r)
       PROVE  endpoint[r] \notin {"pin", "unpin"}
  BY <1>2, <1>11 DEF WipeUserPOST, WipeUserPOSTCommit, WipeUserPOSTAnswer, ScoreReportPOST,
         ScoreReportPOSTAnticheat, ScoreReportPOSTInsert, ScoreReportPOSTCommit, Serves, StepOf
<1> QED BY <1>1, <1>6, <1>7, <1>8, <1>9, <1>10, <1>11 DEF scoreHandlers

LEMMA StepReads ==
  ASSUME SocialInv, Next
  PROVE  ReadInv'
<1>1. ASSUME NEW r \in Requests, Caretaking(r)
      PROVE  ReadInv'
  <2>1. CASE caretaker(r)
    BY <2>1, CaretakerReads
  <2>2. CASE tokenHandlers(r)
    <3>1. endpoint[r] \notin {"pin", "unpin"}
      BY <2>2 DEF tokenHandlers, TokenSelfDeletePOST, TokenSelfGET, TokenGET, Serves
    <3> QED BY <2>2, <3>1, TokenHandlersMove, ElsewhereReads
  <2> QED BY <1>1, <2>1, <2>2 DEF Caretaking
<1>2. ASSUME NEW r \in Requests, ServeRelationships(r)
      PROVE  ReadInv'
  <2>1. Moves(r) /\ endpoint[r] \in OnRelationships
    BY <1>2, RelationshipHandlersMove, RelationshipEndpoints
       DEF ServeRelationships, SocialInv, ServiceInv, TablesTypeOK
  <2> QED BY <2>1, ElsewhereReads DEF OnRelationships
<1>3. ASSUME NEW r \in Requests, ServeScores(r)
      PROVE  ReadInv'
  BY <1>3, PinsRead, ScoreHandlersMove DEF ServeScores, SocialInv, ServiceInv, TablesTypeOK
<1>4. ASSUME NEW r \in Requests, ServeComments(r)
      PROVE  ReadInv'
  <2>1. Moves(r) /\ Serving(r) /\ commentHandlers(r)
    BY <1>4, CommentHandlersMove DEF ServeComments, SocialInv, ServiceInv, TablesTypeOK
  <2>2. endpoint[r] \notin {"pin", "unpin"}
    <3>1. pc[r] # "handler" => StepOf(pc[r], endpoint[r])
      BY <2>1, HandlerSteps DEF SocialInv, ServiceInv
    <3> QED BY <2>1, <3>1 DEF commentHandlers, CommentPOST, CommentPOSTMe, CommentPOSTOpen,
              CommentPOSTInsert, CommentGET, CommentGETRows, CommentDELETE, CommentDELETERow,
              CommentInfoGET, CommentInfoGETProfile, Serves, StepOf
  <2> QED BY <2>1, <2>2, ElsewhereReads
<1>5. ASSUME NEW r \in Requests, ServeProfiles(r)
      PROVE  ReadInv'
  <2>1. Moves(r) /\ endpoint[r] \in OnProfiles
    BY <1>5, ProfileHandlersMove, ProfileEndpoints DEF ServeProfiles, SocialInv, ServiceInv
  <2> QED BY <2>1, ElsewhereReads DEF OnProfiles
<1>6. ASSUME NEW r \in Requests, ServeBeatmaps(r)
      PROVE  ReadInv'
  <2>1. Moves(r) /\ endpoint[r] \in OnBeatmaps
    BY <1>6, BeatmapHandlersMove, BeatmapEndpoints
       DEF ServeBeatmaps, SocialInv, ServiceInv, TablesTypeOK
  <2> QED BY <2>1, ElsewhereReads DEF OnBeatmaps
<1>7. ASSUME NEW r \in Requests, ServeClans(r)
      PROVE  ReadInv'
  <2>1. Moves(r) /\ endpoint[r] \in OnClans
    BY <1>7, ClanHandlersMove, ClanEndpoints DEF ServeClans, SocialInv, ServiceInv, TablesTypeOK
  <2> QED BY <2>1, ElsewhereReads DEF OnClans
<1>8. CASE World
  <2>1. UNCHANGED <<pc, arg, md, seen>>
    BY <1>8 DEF World, ChangeUser, DropToken, MoveBoard, ChangeClan, requestVars
  <2> QED BY <2>1 DEF SocialInv, ReadInv, HasRead
<1> QED BY <1>1, <1>2, <1>3, <1>4, <1>5, <1>6, <1>7, <1>8 DEF Next

\* The invariant holds.
THEOREM SocialInvariance == Spec => []SocialInv
<1>1. Init => CommentsInv
  <2> SUFFICES ASSUME Init PROVE CommentsInv
    OBVIOUS
  <2>1. PICK start \in Starts : comments = start.comments
    BY DEF Init
  <2>2. /\ comments \subseteq [id : OldComments, op : Users, prof : Users]
        /\ \A c, d \in comments : c.id = d.id => c = d
    BY <2>1, StartsAssumption
  <2>3. \A r \in Requests : pc[r] = "new"
    BY DEF Init, CaretakerInit
  <2> QED BY <2>2, <2>3, CommentsAssumption DEF CommentsInv
<1>2. Init => ReadInv
  BY DEF Init, CaretakerInit, ReadInv, HasRead, Looking
<1>3. SocialInv /\ [Next]_vars => CommentsInv' /\ ReadInv'
  <2>1. SocialInv /\ UNCHANGED vars => CommentsInv'
    BY DEF SocialInv, CommentsInv, vars, requestVars
  <2>2. SocialInv /\ UNCHANGED vars => ReadInv'
    BY DEF SocialInv, ReadInv, HasRead, vars, requestVars
  <2> QED BY <2>1, <2>2, StepComments, StepReads
<1>4. ServiceInv /\ CommentsInv /\ ReadInv /\ [Next]_vars => CommentsInv' /\ ReadInv'
  BY <1>3 DEF SocialInv
<1> QED BY <1>1, <1>2, <1>4, Invariance, PTL DEF Spec, SocialInv

-----------------------------------------------------------------------------
(* Steps of Service as steps of Social.                                     *)

LEMMA ShownStays ==
  ASSUME UNCHANGED <<md, rows, pinRows>>
  PROVE  UNCHANGED <<callers, friendships, pinned>>
BY DEF callers, friendships, pinned, Befriended, Pinned

LEMMA StutterShown ==
  ASSUME UNCHANGED <<endpoint, md, answer, recorded>>
  PROVE  UNCHANGED Promised!vars
<1>1. UNCHANGED <<callers, friendships, pinned>>
  BY ShownStays DEF recorded
<1> QED BY <1>1 DEF callers, friendships, pinned, recorded, Promised!vars, Promised!records

\* An answer ends the call, and forgets its caller.
LEMMA FinishAnswers ==
  ASSUME SocialInv, NEW r \in Requests, Serving(r) \/ pc[r] = "check",
         NEW status \in {"ok", "no", "pls200"}, NEW facts, Finish(r, status, facts)
  PROVE  Promised!Answer(r, status)
<1>1. answer[r] = "none"
  BY DEF SocialInv, ServiceInv, PipelineInv, Located, Serving
<1>2. answer' = [answer EXCEPT ![r] = status] /\ endpoint' = endpoint
      /\ md' = [md EXCEPT ![r] = Anonymous]
  BY DEF Finish
<1>3. callers' = [callers EXCEPT ![r] = Nobody]
  <2>1. \A q \in Requests : md'[q].id = IF q = r THEN Nobody ELSE md[q].id
    BY <1>2 DEF Anonymous, SocialInv, ServiceInv, PipelineInv, CaretakerTypeOK
  <2> QED BY <2>1 DEF callers
<1> QED BY <1>1, <1>2, <1>3 DEF Promised!Answer, callers

\* A handler goes on, or fails.
LEMMA PauseShown ==
  ASSUME SocialInv, NEW r \in Requests, Serving(r), UNCHANGED recorded,
         \/ \E l, x, facts : Continue(r, l, x, facts)
         \/ \E status \in {"no", "pls200"} : \E facts : Finish(r, status, facts)
  PROVE  Promised!Next \/ UNCHANGED Promised!vars
<1>1. CASE \E l, x, facts : Continue(r, l, x, facts)
  BY <1>1, StutterShown DEF Continue
<1>2. ASSUME NEW status \in {"no", "pls200"}, NEW facts, Finish(r, status, facts)
      PROVE  Promised!Next
  <2>1. Promised!Answer(r, status)
    BY <1>2, FinishAnswers
  <2>2. UNCHANGED <<friendships, pinned, comments, reports>>
    BY DEF friendships, pinned, Befriended, Pinned, recorded
  <2>3. Promised!Fail(r)
    BY <2>1, <2>2 DEF Promised!Fail, Promised!records, friendships, pinned
  <2> QED BY <2>3 DEF Promised!Next
<1> QED BY <1>1, <1>2

\* The handler of a call that only reads.
LEMMA ReadShown ==
  ASSUME SocialInv, NEW r \in Requests, Serving(r), Moves(r), UNCHANGED recorded,
         endpoint[r] \notin Promised!Writes
  PROVE  Promised!Next \/ UNCHANGED Promised!vars
<1>1. ASSUME NEW facts, Finish(r, "ok", facts)
      PROVE  Promised!Next
  <2>1. Promised!Answer(r, "ok")
    BY <1>1, FinishAnswers
  <2>2. UNCHANGED <<friendships, pinned, comments, reports>>
    BY DEF friendships, pinned, Befriended, Pinned, recorded
  <2>3. Promised!Read(r)
    BY <2>1, <2>2 DEF Promised!Read, Promised!records, friendships, pinned
  <2> QED BY <2>3 DEF Promised!Next
<1>2. ASSUME NEW status \in {"ok", "no", "pls200"}, NEW facts, Finish(r, status, facts)
      PROVE  Promised!Next \/ UNCHANGED Promised!vars
  <2>1. CASE status = "ok"
    BY <1>1, <1>2, <2>1
  <2>2. CASE status # "ok"
    BY <1>2, <2>2, PauseShown
  <2> QED BY <2>1, <2>2
<1> QED BY <1>2, PauseShown DEF Moves

\* A handler that answers with a 200 and takes effect.
LEMMA EffectShown ==
  ASSUME SocialInv, NEW r \in Requests, Serving(r), NEW facts, Reply(r, facts), Promised!Effect(r)
  PROVE  Promised!Next
<1>1. Promised!Answer(r, "ok")
  BY FinishAnswers DEF Reply
<1> QED BY <1>1 DEF Promised!Succeed, Promised!Next

\* The pipeline.
LEMMA CaretakingShown ==
  ASSUME SocialInv, NEW r \in Requests, Caretaking(r)
  PROVE  Promised!Next \/ UNCHANGED Promised!vars
<1>1. UNCHANGED recorded
  BY DEF Caretaking, tables, recorded
<1>2. CASE Receive(r)
  <2>1. PICK call \in calls : endpoint' = [endpoint EXCEPT ![r] = call[1]]
    BY <1>2 DEF Receive
  <2>2. call[1] \in Endpoint
    BY DEF SocialInv, ServiceInv, PipelineInv, CaretakerTypeOK
  <2>3. endpoint[r] = "none" /\ UNCHANGED <<md, answer>>
    BY <1>2 DEF Receive, SocialInv, ServiceInv, PipelineInv, Located
  <2>4. UNCHANGED <<callers, friendships, pinned, comments, reports>>
    BY <1>1, <2>3, ShownStays DEF recorded
  <2>5. Promised!Call(r)
    BY <2>1, <2>2, <2>3, <2>4 DEF Promised!Call, Promised!records, callers, friendships, pinned
  <2> QED BY <2>5 DEF Promised!Next
<1>3. ASSUME NEW user \in MethodUser, LogIn(r, user, "check"), pc[r] \in Looking, pc[r] # "new"
      PROVE  Promised!Next
  <2>1. answer[r] = "none" /\ user.id \in Users \cup {Nobody}
    BY <1>3 DEF SocialInv, ServiceInv, PipelineInv, Located, Looking, MethodUser
  <2>2. md' = [md EXCEPT ![r] = user] /\ UNCHANGED <<endpoint, answer>>
    BY <1>3 DEF LogIn
  <2>3. callers' = [callers EXCEPT ![r] = user.id]
    <3>1. \A q \in Requests : md'[q].id = IF q = r THEN user.id ELSE md[q].id
      BY <2>2 DEF SocialInv, ServiceInv, PipelineInv, CaretakerTypeOK
    <3> QED BY <3>1 DEF callers
  <2>4. UNCHANGED <<friendships, pinned, comments, reports>>
    BY <1>1 DEF friendships, pinned, Befriended, Pinned, recorded
  <2>5. Promised!Identify(r)
    BY <2>1, <2>2, <2>3, <2>4 DEF Promised!Identify, Promised!records, callers, friendships, pinned
  <2> QED BY <2>5 DEF Promised!Next
<1>4. CASE GetTokenFull(r) \/ BearerUser(r)
  <2>1. PICK user : LogIn(r, user, "check") /\ pc[r] \in Looking /\ pc[r] # "new"
    BY <1>4 DEF GetTokenFull, BearerUser, Looking
  <2>2. user \in MethodUser
    <3>1. md'[r] = user
      BY <2>1 DEF LogIn, SocialInv, ServiceInv, PipelineInv, CaretakerTypeOK
    <3>2. PipelineInv'
      BY CaretakingKeeps DEF SocialInv, ServiceInv
    <3> QED BY <3>1, <3>2 DEF PipelineInv, CaretakerTypeOK
  <2> QED BY <1>3, <2>1, <2>2
<1>5. CASE BearerScope(r)
  <2>1. CASE LogIn(r, Anonymous, "check")
    BY <1>3, <1>5, <2>1, AnonymousTyped DEF BearerScope, Looking
  <2>2. CASE Continue(r, "bearer:user", Nobody, {})
    BY <1>1, <2>2, StutterShown DEF Continue
  <2> QED BY <1>5, <2>1, <2>2 DEF BearerScope
<1>6. CASE Check(r)
  <2>1. CASE Continue(r, "handler", Nobody, {})
    BY <1>1, <2>1, StutterShown DEF Continue
  <2>2. CASE Reject(r)
    <3>1. Promised!Answer(r, "no")
      BY <1>6, <2>2, FinishAnswers DEF Check, Reject
    <3>2. UNCHANGED <<friendships, pinned, comments, reports>>
      BY <1>1 DEF friendships, pinned, Befriended, Pinned, recorded
    <3>3. Promised!Fail(r)
      BY <3>1, <3>2 DEF Promised!Fail, Promised!records, friendships, pinned
    <3> QED BY <3>3 DEF Promised!Next
  <2> QED BY <1>6, <2>1, <2>2 DEF Check
<1>7. CASE tokenHandlers(r)
  <2>1. endpoint[r] \notin Promised!Writes
    BY <1>7 DEF tokenHandlers, TokenSelfDeletePOST, TokenSelfGET, TokenGET, Serves, Promised!Writes
  <2> QED BY <1>1, <1>7, <2>1, TokenHandlersMove, ReadShown
<1> QED BY <1>2, <1>4, <1>5, <1>6, <1>7 DEF Caretaking, caretaker

-----------------------------------------------------------------------------
(* The handlers that write.                                                 *)

\* At an endpoint of Write the caller is a user.
LEMMA CallerIsUser ==
  ASSUME SocialInv, NEW r \in Requests, Serving(r), endpoint[r] \in Write
  PROVE  md[r].id \in Users
BY WriterIsUser DEF SocialInv, ServiceInv

LEMMA Pairs ==
  /\ friendships \subseteq Users \X Users
  /\ \A a, b \in Users : <<a, b>> \in friendships <=> rows[<<a, b>>] > 0
  /\ pinned \subseteq Users \X Scores
  /\ \A a \in Users, b \in Scores : <<a, b>> \in pinned <=> pinRows[<<a, b>>] > 0
BY DEF friendships, Befriended, pinned, Pinned

LEMMA PairsPrimed ==
  /\ friendships' \subseteq Users \X Users
  /\ \A a, b \in Users : <<a, b>> \in friendships' <=> rows'[<<a, b>>] > 0
  /\ pinned' \subseteq Users \X Scores
  /\ \A a \in Users, b \in Scores : <<a, b>> \in pinned' <=> pinRows'[<<a, b>>] > 0
BY DEF friendships, Befriended, pinned, Pinned

\* A row more, and no row, of a pair: what a relation of pairs becomes.
LEMMA OneMore ==
  ASSUME NEW S, NEW T, NEW f \in [S \X T -> Nat], NEW g, NEW a \in S, NEW b \in T,
         g = [f EXCEPT ![<<a, b>>] = @ + 1], NEW F, NEW G,
         F \subseteq S \X T, \A x \in S, y \in T : <<x, y>> \in F <=> f[<<x, y>>] > 0,
         G \subseteq S \X T, \A x \in S, y \in T : <<x, y>> \in G <=> g[<<x, y>>] > 0
  PROVE  G = F \cup {<<a, b>>}
<1>1. ASSUME NEW x \in S, NEW y \in T
      PROVE  <<x, y>> \in G <=> <<x, y>> \in F \cup {<<a, b>>}
  <2>1. g[<<x, y>>] = IF x = a /\ y = b THEN f[<<x, y>>] + 1 ELSE f[<<x, y>>]
    OBVIOUS
  <2>2. f[<<x, y>>] \in Nat
    OBVIOUS
  <2>3. g[<<x, y>>] > 0 <=> f[<<x, y>>] > 0 \/ (x = a /\ y = b)
    BY <2>1, <2>2
  <2> QED BY <2>3
<1> QED BY <1>1

LEMMA NoneLeft ==
  ASSUME NEW S, NEW T, NEW f \in [S \X T -> Nat], NEW g, NEW a, NEW b,
         g = [f EXCEPT ![<<a, b>>] = 0], NEW F, NEW G,
         F \subseteq S \X T, \A x \in S, y \in T : <<x, y>> \in F <=> f[<<x, y>>] > 0,
         G \subseteq S \X T, \A x \in S, y \in T : <<x, y>> \in G <=> g[<<x, y>>] > 0
  PROVE  G = F \ {<<a, b>>}
<1>1. ASSUME NEW x \in S, NEW y \in T
      PROVE  <<x, y>> \in G <=> <<x, y>> \in F \ {<<a, b>>}
  <2>1. g[<<x, y>>] = IF x = a /\ y = b THEN 0 ELSE f[<<x, y>>]
    OBVIOUS
  <2>2. g[<<x, y>>] > 0 <=> f[<<x, y>>] > 0 /\ ~(x = a /\ y = b)
    BY <2>1
  <2> QED BY <2>2
<1> QED BY <1>1

LEMMA RelationshipsShown ==
  ASSUME SocialInv, NEW r \in Requests, ServeRelationships(r)
  PROVE  Promised!Next \/ UNCHANGED Promised!vars
<1>1. relationshipHandlers(r) /\ Serving(r) /\ Moves(r) /\ endpoint[r] \in OnRelationships
  BY RelationshipHandlersMove, RelationshipEndpoints
     DEF ServeRelationships, SocialInv, ServiceInv, TablesTypeOK
<1>2. UNCHANGED <<pinRows, comments, reports>> /\ pinned' = pinned
  BY DEF ServeRelationships, tables, pinned, Pinned
<1>3. pc[r] # "handler" => StepOf(pc[r], endpoint[r]) /\ Names(pc[r], arg[r], md[r].id)
  BY <1>1, HandlerSteps DEF SocialInv, ServiceInv
<1>4. rows \in [Users \X Users -> Nat]
  BY DEF SocialInv, ServiceInv, TablesTypeOK, RelationshipsTypeOK
<1>5. CASE FriendsAddPOST(r)
  <2>1. UNCHANGED recorded
    BY <1>2, <1>5 DEF FriendsAddPOST, recorded
  <2>2. (\E l, x, facts : Continue(r, l, x, facts)) \/ Refuse(r)
    BY <1>5 DEF FriendsAddPOST
  <2> QED BY <1>1, <2>1, <2>2, PauseShown DEF Refuse
<1>6. CASE AddFriendExists(r) \/ AddFriendInsert(r)
  <2>1. endpoint[r] = "friends/add" /\ arg[r] \in Users \ {md[r].id} /\ md[r].id \in Users
    <3>1. endpoint[r] = "friends/add" /\ arg[r] \in Users \ {md[r].id}
      BY <1>3, <1>6 DEF AddFriendExists, AddFriendInsert, StepOf, Names
    <3> QED BY <1>1, <3>1, CallerIsUser DEF Write
  <2>2. ASSUME NEW facts, Reply(r, facts), Friend(md[r].id, arg[r]) \in facts,
               friendships' = friendships \cup {<<md[r].id, arg[r]>>}
        PROVE  Promised!Next
    <3>1. <<"friend", md[r].id, arg[r]>> \in said'
      BY <2>2 DEF Reply, Finish, Friend
    <3>2. Promised!AddFriend(r)
      BY <1>2, <2>1, <2>2, <3>1 DEF Promised!AddFriend, friendships, pinned
    <3> QED BY <1>1, <2>2, <3>2, EffectShown DEF Promised!Effect
  <2>3. CASE UNCHANGED rows /\ ((\E l, x, facts : Continue(r, l, x, facts)) \/ Refuse(r))
    BY <1>1, <1>2, <2>3, PauseShown DEF Refuse, recorded
  <2>4. CASE /\ UNCHANGED rows /\ Befriended(md[r].id, arg[r])
             /\ \E facts : Reply(r, facts) /\ Friend(md[r].id, arg[r]) \in facts
    <3>1. friendships' = friendships \cup {<<md[r].id, arg[r]>>}
      <4>1. friendships' = friendships
        BY <2>4 DEF friendships, Befriended
      <4>2. <<md[r].id, arg[r]>> \in friendships
        BY <2>1, <2>4, Pairs DEF Befriended
      <4> QED BY <4>1, <4>2
    <3> QED BY <2>2, <2>4, <3>1
  <2>5. CASE /\ rows' = [rows EXCEPT ![<<md[r].id, arg[r]>>] = @ + 1]
             /\ \E facts : Reply(r, facts) /\ Friend(md[r].id, arg[r]) \in facts
    <3>1. friendships' = friendships \cup {<<md[r].id, arg[r]>>}
      BY <1>4, <2>1, <2>5, OneMore, Pairs, PairsPrimed
    <3> QED BY <2>2, <2>5, <3>1
  <2> QED BY <1>6, <2>3, <2>4, <2>5 DEF AddFriendExists, AddFriendInsert
<1>7. CASE FriendsDelPOST(r)
  <2>1. endpoint[r] = "friends/del" /\ md[r].id \in Users
    BY <1>1, <1>7, CallerIsUser DEF FriendsDelPOST, Serves, Write
  <2>2. CASE UNCHANGED rows /\ Refuse(r)
    BY <1>1, <1>2, <2>2, PauseShown DEF Refuse, recorded
  <2>3. CASE UNCHANGED rows /\ Reply(r, {})
    <3>1. friendships' = friendships
      BY <2>3 DEF friendships, Befriended
    <3>2. Promised!DeleteFriend(r)
      BY <1>2, <2>1, <2>3, <3>1 DEF Promised!DeleteFriend, Reply, Finish, friendships, pinned
    <3> QED BY <1>1, <2>3, <3>2, EffectShown DEF Promised!Effect
  <2>4. ASSUME NEW u \in Users, Reply(r, {<<"stranger", md[r].id, u>>}),
               rows' = [rows EXCEPT ![<<md[r].id, u>>] = 0]
        PROVE  Promised!Next
    <3>1. friendships' = friendships \ {<<md[r].id, u>>}
      BY <1>4, <2>4, NoneLeft, Pairs, PairsPrimed
    <3>2. said' = {<<"stranger", md[r].id, u>>}
      BY <2>4 DEF Reply, Finish
    <3>3. Promised!DeleteFriend(r)
      BY <1>2, <2>1, <3>1, <3>2 DEF Promised!DeleteFriend, friendships, pinned
    <3> QED BY <1>1, <2>4, <3>3, EffectShown DEF Promised!Effect
  <2> QED BY <1>7, <2>2, <2>3, <2>4 DEF FriendsDelPOST
<1>8. CASE /\ UNCHANGED rows /\ endpoint[r] \notin Promised!Writes
  BY <1>1, <1>2, <1>8, ReadShown DEF recorded
<1>9. ASSUME \/ FriendsGET(r) \/ FriendsGETMine(r) \/ FriendsWithGET(r) \/ FollowersGET(r)
             \/ FollowersGETRows(r) \/ FollowersGetResponse(r) \/ FollowersGetResponseAll(r)
      PROVE  UNCHANGED rows /\ endpoint[r] \notin Promised!Writes
  <2>1. UNCHANGED rows
    BY <1>9 DEF FriendsGET, FriendsGETMine, FriendsWithGET, FollowersGET, FollowersGETRows,
                FollowersGetResponse, FollowersGetResponseAll
  <2>2. endpoint[r] \in {"friends", "friends/with", "followers_friends", "followers"}
    BY <1>3, <1>9 DEF FriendsGET, FriendsGETMine, FriendsWithGET, FollowersGET, FollowersGETRows,
                      FollowersGetResponse, FollowersGetResponseAll, Serves, StepOf
  <2> QED BY <2>1, <2>2 DEF Promised!Writes
<1> QED BY <1>1, <1>5, <1>6, <1>7, <1>8, <1>9 DEF relationshipHandlers

\* A token with ManageUser is of somebody who manages users.
LEMMA ManagerCalls ==
  ASSUME SocialInv, NEW r \in Requests, Serving(r), endpoint[r] \in ManageUser
  PROVE  md[r].id \in Managers
<1>1. privilegesNeeded(endpoint[r]) = {"ManageUser"}
  BY DEF privilegesNeeded, ReadConfidential, Write, Beatmap, ManageUser, Free
<1>2. "ManageUser" \in md[r].privs
  BY <1>1 DEF SocialInv, ServiceInv, PipelineInv, Trusted, Serving
<1>3. "ManageUser" \in CanOnly(Privilege, md[r].user)
  BY <1>2 DEF SocialInv, ServiceInv, PipelineInv, Trusted, UserOK
<1>4. "AdminManageUsers" \in privilegeMustBe["ManageUser"]
  BY DEF privilegeMustBe
<1>5. ManagesUsers(md[r])
  BY <1>3, <1>4 DEF CanOnly, ManagesUsers
<1> QED BY <1>5 DEF SocialInv, ServiceInv, PipelineInv, Trusted, UserOK

LEMMA ScoresShown ==
  ASSUME SocialInv, NEW r \in Requests, ServeScores(r)
  PROVE  Promised!Next \/ UNCHANGED Promised!vars
<1>1. scoreHandlers(r) /\ Serving(r) /\ Moves(r)
  BY ScoreHandlersMove DEF ServeScores, SocialInv, ServiceInv, TablesTypeOK
<1>2. UNCHANGED <<rows, comments>> /\ friendships' = friendships
  BY DEF ServeScores, friendships, Befriended
<1>3. pc[r] # "handler" => StepOf(pc[r], endpoint[r]) /\ Names(pc[r], arg[r], md[r].id)
  BY <1>1, HandlerSteps DEF SocialInv, ServiceInv
<1>4. pinRows \in [Users \X Scores -> Nat]
  BY DEF SocialInv, ServiceInv, TablesTypeOK, ScoresTypeOK
<1>5. CASE /\ UNCHANGED <<pinRows, reports>>
           /\ (\E l, x, facts : Continue(r, l, x, facts)) \/ Refuse(r)
  BY <1>1, <1>2, <1>5, PauseShown DEF Refuse, recorded
<1>6. ASSUME \/ UserPinnedPOST(r) \/ UserPinnedPOSTPinned(r) \/ UserPinnedDeletePOST(r)
             \/ ScoreReportPOST(r) \/ ScoreReportPOSTAnticheat(r) \/ ScoreReportPOSTInsert(r)
      PROVE  /\ UNCHANGED <<pinRows, reports>>
             /\ (\E l, x, facts : Continue(r, l, x, facts)) \/ Refuse(r)
  BY <1>6 DEF UserPinnedPOST, UserPinnedPOSTPinned, UserPinnedDeletePOST, ScoreReportPOST,
              ScoreReportPOSTAnticheat, ScoreReportPOSTInsert, tables
<1>7. CASE UserPinnedPOSTInsert(r)
  <2>1. endpoint[r] = "pin" /\ arg[r] \in Scores /\ Player[arg[r]] = md[r].id
    BY <1>3, <1>7 DEF UserPinnedPOSTInsert, StepOf, Names
  <2>2. md[r].id \in Users
    BY <1>1, <2>1, CallerIsUser DEF Write
  <2>3. UNCHANGED reports
    BY <1>7 DEF UserPinnedPOSTInsert
  <2>4. CASE /\ pinRows' = [pinRows EXCEPT ![<<md[r].id, arg[r]>>] = @ + 1]
             /\ Reply(r, seen[r])
    <3>1. pinned' = pinned \cup {<<md[r].id, arg[r]>>}
      BY <1>4, <2>1, <2>2, <2>4, OneMore, Pairs, PairsPrimed
    <3>2. seen[r] = {Score(arg[r])}
      BY <1>7 DEF UserPinnedPOSTInsert, SocialInv, ReadInv, HasRead
    <3>3. said' = {<<"score", md[r].id, arg[r]>>}
      BY <2>1, <2>4, <3>2 DEF Reply, Finish, Score
    <3>4. Promised!Pin(r)
      BY <1>2, <2>1, <2>3, <3>1, <3>3 DEF Promised!Pin, friendships, pinned
    <3> QED BY <1>1, <2>4, <3>4, EffectShown DEF Promised!Effect
  <2> QED BY <1>5, <1>7, <2>3, <2>4 DEF UserPinnedPOSTInsert
<1>8. CASE UserPinnedDeletePOSTDelete(r)
  <2>1. endpoint[r] = "unpin" /\ arg[r] \in Scores
    BY <1>3, <1>8 DEF UserPinnedDeletePOSTDelete, StepOf, Names
  <2>2. UNCHANGED reports
    BY <1>8 DEF UserPinnedDeletePOSTDelete
  <2>3. CASE /\ pinRows' = [pinRows EXCEPT ![<<md[r].id, arg[r]>>] = 0]
             /\ Reply(r, seen[r])
    <3>1. pinned' = pinned \ {<<md[r].id, arg[r]>>}
      BY <1>4, <2>3, NoneLeft, Pairs, PairsPrimed
    <3>2. seen[r] = {Pin(md[r].id, arg[r])}
      BY <1>8 DEF UserPinnedDeletePOSTDelete, SocialInv, ReadInv, HasRead
    <3>3. said' = {<<"pin", md[r].id, arg[r]>>}
      BY <2>3, <3>2 DEF Reply, Finish, Pin
    <3>4. Promised!Unpin(r)
      BY <1>2, <2>1, <2>2, <3>1, <3>3 DEF Promised!Unpin, friendships, pinned
    <3> QED BY <1>1, <2>3, <3>4, EffectShown DEF Promised!Effect
  <2> QED BY <1>5, <1>8, <2>2, <2>3 DEF UserPinnedDeletePOSTDelete
<1>9. CASE ScoreReportPOSTCommit(r)
  <2>1. endpoint[r] = "scores/reports"
    BY <1>3, <1>9 DEF ScoreReportPOSTCommit, StepOf
  <2>2. md[r].id \in Managers
    BY <1>1, <2>1, ManagerCalls DEF ManageUser
  <2>3. UNCHANGED pinRows /\ pinned' = pinned
    BY <1>9 DEF ScoreReportPOSTCommit, pinned, Pinned
  <2>4. CASE reports' = reports \cup {r} /\ Reply(r, {})
    <3>1. Promised!Report(r)
      BY <1>2, <2>1, <2>2, <2>3, <2>4 DEF Promised!Report, friendships, pinned
    <3> QED BY <1>1, <2>4, <3>1, EffectShown DEF Promised!Effect
  <2> QED BY <1>5, <1>9, <2>3, <2>4 DEF ScoreReportPOSTCommit
<1>10. CASE UNCHANGED <<pinRows, reports>> /\ endpoint[r] \notin Promised!Writes
  BY <1>1, <1>2, <1>10, ReadShown DEF recorded
<1>11. ASSUME \/ ScoresGET(r) \/ ScoresGETRows(r) \/ UserScoresBestGET(r) \/ UserScoresRecentGET(r)
              \/ UserFirstGET(r) \/ UserFirstGETRows(r) \/ OldestFirstGET(r)
              \/ OldestFirstGETRows(r) \/ UserPinnedGET(r) \/ PinnedScoreGET(r)
              \/ WipeUserPOST(r) \/ WipeUserPOSTCommit(r) \/ WipeUserPOSTAnswer(r)
       PROVE  UNCHANGED <<pinRows, reports>> /\ endpoint[r] \notin Promised!Writes
  <2>1. UNCHANGED <<pinRows, reports>>
    BY <1>11 DEF ScoresGET, ScoresGETRows, UserScoresBestGET, UserScoresRecentGET, UserFirstGET,
                 UserFirstGETRows, OldestFirstGET, OldestFirstGETRows, UserPinnedGET, PinnedScoreGET, WipeUserPOST, WipeUserPOSTCommit,
                 WipeUserPOSTAnswer, tables
  <2>2. endpoint[r] \in {"scores", "scores/best", "scores/recent", "scores/first", "first/oldest",
                         "pinned", "pinned/info", "wipe"}
    BY <1>3, <1>11 DEF ScoresGET, ScoresGETRows, UserScoresBestGET, UserScoresRecentGET,
                       UserFirstGET, UserFirstGETRows, OldestFirstGET, OldestFirstGETRows,
                       UserPinnedGET, PinnedScoreGET, WipeUserPOST,
                       WipeUserPOSTCommit, WipeUserPOSTAnswer, Serves, StepOf
  <2> QED BY <2>1, <2>2 DEF Promised!Writes
<1> QED BY <1>1, <1>5, <1>6, <1>7, <1>8, <1>9, <1>10, <1>11 DEF scoreHandlers

LEMMA CommentsShown ==
  ASSUME SocialInv, NEW r \in Requests, ServeComments(r)
  PROVE  Promised!Next \/ UNCHANGED Promised!vars
<1>1. commentHandlers(r) /\ Serving(r) /\ Moves(r)
  BY CommentHandlersMove DEF ServeComments, SocialInv, ServiceInv, TablesTypeOK
<1>2. UNCHANGED <<rows, pinRows, reports>> /\ friendships' = friendships /\ pinned' = pinned
  BY DEF ServeComments, tables, friendships, Befriended, pinned, Pinned
<1>3. pc[r] # "handler" => StepOf(pc[r], endpoint[r]) /\ Names(pc[r], arg[r], md[r].id)
  BY <1>1, HandlerSteps DEF SocialInv, ServiceInv
<1>4. CASE UNCHANGED comments /\ ((\E l, x, facts : Continue(r, l, x, facts)) \/ Refuse(r))
  BY <1>1, <1>2, <1>4, PauseShown DEF Refuse, recorded
<1>5. CASE CommentPOST(r) \/ CommentPOSTMe(r) \/ CommentPOSTOpen(r) \/ CommentDELETE(r)
  BY <1>4, <1>5 DEF CommentPOST, CommentPOSTMe, CommentPOSTOpen, CommentDELETE
<1>6. CASE CommentPOSTInsert(r)
  <2>1. endpoint[r] = "comments/post" /\ arg[r] \in Users
    BY <1>3, <1>6 DEF CommentPOSTInsert, StepOf, Names
  <2>2. CASE /\ comments' = comments \cup {[id |-> r, op |-> md[r].id, prof |-> arg[r]]}
             /\ Reply(r, seen[r])
    <3>1. Promised!PostComment(r)
      BY <1>2, <2>1, <2>2 DEF Promised!PostComment, friendships, pinned
    <3> QED BY <1>1, <2>2, <3>1, EffectShown DEF Promised!Effect
  <2> QED BY <1>4, <1>6, <2>2 DEF CommentPOSTInsert
<1>7. CASE CommentDELETERow(r)
  <2>1. endpoint[r] = "comments/delete" /\ arg[r] \in CommentIds
    BY <1>3, <1>7 DEF CommentDELETERow, StepOf, Names
  <2>2. CASE comments' = {c \in comments : c.id # arg[r]} /\ Reply(r, {NoComment(arg[r])})
    <3>1. said' = {<<"no comment", Nobody, arg[r]>>}
      BY <2>2 DEF Reply, Finish, NoComment
    <3>2. \A c \in comments \ comments' : md[r].id \in {c.op, c.prof} \cup Managers
      BY <1>7, <2>2 DEF CommentDELETERow, SocialInv, CommentsInv
    <3>3. Promised!DeleteComment(r)
      BY <1>2, <2>1, <2>2, <3>1, <3>2 DEF Promised!DeleteComment, friendships, pinned
    <3> QED BY <1>1, <2>2, <3>3, EffectShown DEF Promised!Effect
  <2> QED BY <1>4, <1>7, <2>2 DEF CommentDELETERow
<1>8. CASE CommentGET(r) \/ CommentGETRows(r) \/ CommentInfoGET(r) \/ CommentInfoGETProfile(r)
  <2>1. UNCHANGED comments
    BY <1>8 DEF CommentGET, CommentGETRows, CommentInfoGET, CommentInfoGETProfile
  <2>2. endpoint[r] \in {"comments", "comments/info"}
    BY <1>3, <1>8 DEF CommentGET, CommentGETRows, CommentInfoGET, CommentInfoGETProfile, Serves, StepOf
  <2> QED BY <1>1, <1>2, <2>1, <2>2, ReadShown DEF recorded, Promised!Writes
<1> QED BY <1>1, <1>5, <1>6, <1>7, <1>8 DEF commentHandlers

-----------------------------------------------------------------------------
(* The theorem.                                                             *)

LEMMA NextShown ==
  ASSUME SocialInv, Next
  PROVE  Promised!Next \/ UNCHANGED Promised!vars
<1>1. ASSUME NEW r \in Requests, Caretaking(r) \/ ServeRelationships(r) \/ ServeScores(r) \/ ServeComments(r)
      PROVE  Promised!Next \/ UNCHANGED Promised!vars
  BY <1>1, CaretakingShown, RelationshipsShown, ScoresShown, CommentsShown
<1>2. ASSUME NEW r \in Requests, ServeProfiles(r)
      PROVE  Promised!Next \/ UNCHANGED Promised!vars
  <2>1. Serving(r) /\ Moves(r) /\ endpoint[r] \in OnProfiles
    BY <1>2, ProfileHandlersMove, ProfileEndpoints DEF ServeProfiles, SocialInv, ServiceInv
  <2>2. UNCHANGED recorded
    BY <1>2, ProfilesKeepComments DEF ServeProfiles, tables, recorded
  <2> QED BY <2>1, <2>2, ReadShown DEF OnProfiles, Promised!Writes
<1>3. ASSUME NEW r \in Requests, ServeBeatmaps(r)
      PROVE  Promised!Next \/ UNCHANGED Promised!vars
  <2>1. Serving(r) /\ Moves(r) /\ endpoint[r] \in OnBeatmaps
    BY <1>3, BeatmapHandlersMove, BeatmapEndpoints
       DEF ServeBeatmaps, SocialInv, ServiceInv, TablesTypeOK
  <2>2. UNCHANGED recorded
    BY <1>3 DEF ServeBeatmaps, tables, recorded
  <2> QED BY <2>1, <2>2, ReadShown DEF OnBeatmaps, Promised!Writes
<1>4. ASSUME NEW r \in Requests, ServeClans(r)
      PROVE  Promised!Next \/ UNCHANGED Promised!vars
  <2>1. Serving(r) /\ Moves(r) /\ endpoint[r] \in OnClans
    BY <1>4, ClanHandlersMove, ClanEndpoints DEF ServeClans, SocialInv, ServiceInv, TablesTypeOK
  <2>2. UNCHANGED recorded
    BY <1>4 DEF ServeClans, tables, recorded
  <2> QED BY <2>1, <2>2, ReadShown DEF OnClans, Promised!Writes
<1>5. CASE World
  <2>1. UNCHANGED <<endpoint, md, answer, recorded>>
    BY <1>5 DEF World, ChangeUser, DropToken, MoveBoard, ChangeClan, requestVars, tables, recorded
  <2> QED BY <2>1, StutterShown
<1> QED BY <1>1, <1>2, <1>3, <1>4, <1>5 DEF Next

\* Every behaviour of the service is one of Social: friends, pins, comments and
\* score reports change once per call, when it is answered with the code 200, and
\* only what belongs to the caller.  What an answer of 200 says has been done is
\* done: the friend, the pin or the comment that was named is there, or none of
\* its rows is left.  A call that is refused changes nothing, though with pls200
\* its status is 200 and only the code in the body is not.
THEOREM KeepsItsPromise == Spec => SocialSpec
<1>1. Init => Promised!Init
  BY DEF Init, CaretakerInit, Promised!Init, Anonymous
<1>2. SocialInv /\ [Next]_vars => [Promised!Next]_(Promised!vars)
  <2>1. ASSUME UNCHANGED vars
        PROVE  UNCHANGED Promised!vars
    <3>1. UNCHANGED <<endpoint, md, answer, recorded>>
      BY <2>1 DEF vars, requestVars, tables, recorded
    <3> QED BY <3>1, StutterShown
  <2> QED BY <2>1, NextShown
<1> QED BY <1>1, <1>2, SocialInvariance, PTL DEF Spec, SocialSpec, Promised!Spec
=============================================================================
