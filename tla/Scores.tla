------------------------------- MODULE Scores ------------------------------
(***************************************************************************)
(* Scores and what hangs on them: app/v1/score.go, app/v1/user_scores.go,  *)
(* app/v1/users_first.go, the pins of app/v1/user_pinned.go and            *)
(* WipeUserPOST of app/v1/manage_user.go.                                  *)
(*                                                                         *)
(* The ids of the tables scores, scores_relax and scores_ap are taken to   *)
(* be apart: user_pinned and anticheat_reports do not say which table they *)
(* mean.                                                                   *)
(***************************************************************************)
EXTENDS Caretaker

CONSTANTS
  Scores,      \* the ids of scores, of the three tables
  Player,      \* the user of a score
  ScoreTable,  \* its table, as the number that the parameter rx gives it
  ScoreMode,   \* its play_mode
  Completed,   \* its column completed: 3 for the best score on a map
  Firsts,      \* first_places: the scores that are first on their map, an external table
  Anticheats   \* the names of anticheats

ASSUME ScoresAssumption ==
  /\ Player \in [Scores -> Users]
  /\ ScoreTable \in [Scores -> 0..2]
  /\ ScoreMode \in [Scores -> 0..3]
  /\ Completed \in [Scores -> 0..3]
  /\ Firsts \subseteq Scores

Modes == {ScoreMode[s] : s \in Scores}

VARIABLES
  scores,      \* the scores that are in their table
  removed,     \* scores_removed
  counted,     \* the users and modes that have stats, and those that have playcounts
  pinRows,     \* user_pinned: how many rows a user and a score have
  anticheats,  \* anticheats: how many rows a name has
  reports,     \* anticheat_reports: the requests that made a row
  openTx       \* the requests whose transaction is open

tables == <<scores, removed, counted, pinRows, anticheats, reports, openTx>>

Score(s) == <<"score", Player[s], s>>
Pin(u, s) == <<"pin", u, s>>
Pinned(u, s) == pinRows[<<u, s>>] > 0

\* The rows of first_places in a table, those of a user in a mode, and those of users
\* who are not banned, counted; nobody asks whether their scores are still there.
FirstsOf(u, t, m) ==
  <<"firsts", u, <<t, m, Cardinality({s \in Firsts : /\ Player[s] = u
                                                     /\ ScoreTable[s] = t
                                                     /\ ScoreMode[s] = m})>>>>
FirstsOfNormal(t) ==
  <<"firsts", Nobody, <<t, Cardinality({s \in Firsts : /\ ScoreTable[s] = t
                                                       /\ "UserNormal" \in privileges[Player[s]]})>>>>

ScoreFacts ==
  {Score(s) : s \in scores} \cup {<<"first", Player[s], s>> : s \in Firsts \cap scores}
  \cup {FirstsOf(p[1], p[2], p[3]) : p \in Users \X (0..2) \X Modes}
  \cup {FirstsOfNormal(t) : t \in 0..2}
  \cup {Pin(p[1], p[2]) : p \in {p \in Users \X Scores : Pinned(p[1], p[2])}}

ScoresTypeOK ==
  /\ scores \subseteq Scores
  /\ removed \subseteq Scores
  /\ counted \subseteq {"stats", "playcounts"} \X Users \X Modes
  /\ pinRows \in [Users \X Scores -> Nat]
  /\ anticheats \in [Anticheats -> Nat]
  /\ reports \subseteq Requests
  /\ openTx \subseteq Requests

-----------------------------------------------------------------------------
(* Lists of scores.                                                         *)

\* ScoresGET: by the id of a map, whose md5 is looked up first, or at once.
ScoresGET(r) ==
  /\ Serves(r, "scores")
  /\ Continue(r, "scores:rows", Nobody, {}) \/ Reply(r, {}) \/ Refuse(r)
  /\ UNCHANGED tables

\* ScoresGET: the scores of a table that are best on their map; not even those
\* who manage users see the scores of a user who is not public.
ScoresGETRows(r) ==
  /\ pc[r] = "scores:rows" \/ Serves(r, "scores")
  /\ \/ \E t \in 0..2 : ReplyRows(r, {Score(s) : s \in {s \in scores :
          /\ ScoreTable[s] = t
          /\ Completed[s] = 3
          /\ Visible(r, Player[s], FALSE)}})
     \/ Refuse(r)
  /\ UNCHANGED tables

\* userScoresPuts: the scores of a user in a table.
userScoresPuts(r, some) ==
  \/ \E u \in Users, t \in 0..2 :
       ReplyRows(r, {Score(s) : s \in {s \in some \cap scores :
         /\ Player[s] = u
         /\ ScoreTable[s] = t
         /\ Visible(r, u, TRUE)}})
  \/ Refuse(r)

UserScoresBestGET(r) ==
  /\ Serves(r, "scores/best")
  /\ userScoresPuts(r, {s \in Scores : Completed[s] = 3})
  /\ UNCHANGED tables

UserScoresRecentGET(r) ==
  /\ Serves(r, "scores/recent")
  /\ userScoresPuts(r, Scores)
  /\ UNCHANGED tables

\* The rows of first_places that have their score in table t, in mode m.
firstPlaces(t, m) ==
  {s \in Firsts \cap scores : ScoreTable[s] = t /\ ScoreMode[s] = m /\ Completed[s] = 3}

\* A count whose error is not looked at, after which the total stays 0.
CountThen(r, l, x, total) == \E fact \in {total, Unread} : Continue(r, l, x, {fact})

\* UserFirstGET: the first places of a user in a table and a mode are counted.
\* Nothing is asked of the user, who may be restricted.
UserFirstGET(r) ==
  /\ Serves(r, "scores/first")
  /\ \/ \E u \in Users, t \in 0..2, m \in Modes :
          CountThen(r, "scores/first:rows", <<u, t, m>>, FirstsOf(u, t, m))
     \/ Refuse(r)
  /\ UNCHANGED tables

\* UserFirstGET: the scores; what cannot be read of one is left blank.
UserFirstGETRows(r) ==
  /\ pc[r] = "scores/first:rows"
  /\ LET u == arg[r][1]
         mine == {<<"first", u, s>> : s \in {s \in firstPlaces(arg[r][2], arg[r][3]) : Player[s] = u}} IN
     \/ \E some \in SUBSET mine, gap \in Gaps(mine) : Reply(r, seen[r] \cup some \cup gap)
     \/ Refuse(r)
  /\ UNCHANGED tables

\* OldestFirstGET: the first places in a table are counted.
OldestFirstGET(r) ==
  /\ Serves(r, "first/oldest")
  /\ \E t \in 0..2, m \in Modes :
       CountThen(r, "first/oldest:rows", <<Nobody, t, m>>, FirstsOfNormal(t))
  /\ UNCHANGED tables

\* OldestFirstGET: the scores in a mode; the users must be UserNormal, which a
\* restricted one is.  What cannot be read of a score is left blank.
OldestFirstGETRows(r) ==
  /\ pc[r] = "first/oldest:rows"
  /\ LET found == {<<"first", Player[s], s>> : s \in {s \in firstPlaces(arg[r][2], arg[r][3]) :
                     "UserNormal" \in privileges[Player[s]]}} IN
     \/ \E some \in SUBSET found, gap \in Gaps(found) : Reply(r, seen[r] \cup some \cup gap)
     \/ Refuse(r)
  /\ UNCHANGED tables

-----------------------------------------------------------------------------
(* Pins.                                                                    *)

\* UserPinnedGET: the pins of a user that have their score in a table.
UserPinnedGET(r) ==
  /\ Serves(r, "pinned")
  /\ \/ \E u \in Users, t \in 0..2 :
          \E some \in SUBSET {s \in scores :
              Pinned(u, s) /\ ScoreTable[s] = t /\ Visible(r, u, TRUE)} :
            Reply(r, {Pin(u, s) : s \in some} \cup {Score(s) : s \in some})
     \/ Refuse(r)
  /\ UNCHANGED tables

\* PinnedScoreGET: whose pin it is, with or without its score.
PinnedScoreGET(r) ==
  /\ Serves(r, "pinned/info")
  /\ \/ \E u \in Users, s \in Scores : Pinned(u, s) /\ Reply(r, {Pin(u, s)})
     \/ Refuse(r)
  /\ UNCHANGED tables

\* UserPinnedPOST: the score must be one of the user, and not a failed one.
UserPinnedPOST(r) ==
  /\ Serves(r, "pin")
  /\ \/ \E s \in scores :
          /\ Player[s] = md[r].id /\ Completed[s] # 0
          /\ Continue(r, "pin:pinned", s, {Score(s)})
     \/ Refuse(r)
  /\ UNCHANGED tables

\* UserPinnedPOST: has anybody pinned it?
UserPinnedPOSTPinned(r) ==
  /\ pc[r] = "pin:pinned"
  /\ \/ /\ \A u \in Users : ~Pinned(u, arg[r])
        /\ Continue(r, "pin:insert", arg[r], {})
     \/ Refuse(r)
  /\ UNCHANGED tables

\* UserPinnedPOST: the INSERT.
UserPinnedPOSTInsert(r) ==
  /\ pc[r] = "pin:insert"
  /\ \/ /\ pinRows' = [pinRows EXCEPT ![<<md[r].id, arg[r]>>] = @ + 1]
        /\ Reply(r, seen[r])
     \/ Refuse(r) /\ UNCHANGED pinRows
  /\ UNCHANGED <<scores, removed, counted, anticheats, reports, openTx>>

\* UserPinnedDeletePOST: is it pinned?
UserPinnedDeletePOST(r) ==
  /\ Serves(r, "unpin")
  /\ \/ \E s \in Scores :
          Pinned(md[r].id, s) /\ Continue(r, "unpin:delete", s, {Pin(md[r].id, s)})
     \/ Refuse(r)
  /\ UNCHANGED tables

\* Mutant of UserPinnedDeletePOSTDelete: one row goes, and there may be two.
UserPinnedDeletePOSTDeleteOne(r) ==
  /\ pc[r] = "unpin:delete"
  /\ \/ /\ pinRows' = [pinRows EXCEPT ![<<md[r].id, arg[r]>>] = IF @ = 0 THEN 0 ELSE @ - 1]
        /\ Reply(r, seen[r])
     \/ Refuse(r) /\ UNCHANGED pinRows
  /\ UNCHANGED <<scores, removed, counted, anticheats, reports, openTx>>

\* UserPinnedDeletePOST: the DELETE, of every row of the pair.
UserPinnedDeletePOSTDelete(r) ==
  /\ pc[r] = "unpin:delete"
  /\ \/ /\ pinRows' = [pinRows EXCEPT ![<<md[r].id, arg[r]>>] = 0]
        /\ Reply(r, seen[r])
     \/ Refuse(r) /\ UNCHANGED pinRows
  /\ UNCHANGED <<scores, removed, counted, anticheats, reports, openTx>>

-----------------------------------------------------------------------------
(* WipeUserPOST.                                                            *)

\* The user is read: nobody who manages users is wiped.
WipeUserPOST(r) ==
  /\ Serves(r, "wipe")
  /\ \/ \E u \in Users :
          /\ "AdminManageUsers" \notin privileges[u]
          /\ Continue(r, "wipe:tx", u, {<<"user", u, u>>})
     \/ Refuse(r)
  /\ UNCHANGED tables

\* The transaction.  It is of the table scores alone, whatever rx the scores of
\* the user are in.  A statement that fails is logged and the next one follows,
\* so that each of them has its effect for some of the modes.
WipeUserPOSTCommit(r) ==
  /\ pc[r] = "wipe:tx"
  /\ \/ \E copied, deleted, reset, uncounted \in SUBSET Modes :
          LET u == arg[r]
              wiped(in) == {s \in scores : Player[s] = u /\ ScoreTable[s] = 0 /\ ScoreMode[s] \in in}
          IN /\ removed' = removed \cup wiped(copied)
             /\ scores' = scores \ wiped(deleted)
             /\ counted' = counted \ (({"stats"} \X {u} \X reset)
                                      \cup ({"playcounts"} \X {u} \X uncounted))
             /\ Continue(r, "wipe:user", u, {})
     \/ Refuse(r) /\ UNCHANGED <<scores, removed, counted>>
  /\ UNCHANGED <<pinRows, anticheats, reports, openTx>>

\* The log line is written and the user is read for the answer.
WipeUserPOSTAnswer(r) ==
  /\ pc[r] = "wipe:user"
  /\ Reply(r, seen[r]) \/ Refuse(r)
  /\ UNCHANGED tables

-----------------------------------------------------------------------------
(* ScoreReportPOST.  What its transaction writes is seen when it commits.   *)

\* The transaction begins.
ScoreReportPOST(r) ==
  /\ Serves(r, "scores/reports")
  /\ \/ openTx' = openTx \cup {r} /\ Continue(r, "reports:anticheat", Nobody, {})
     \/ Refuse(r) /\ UNCHANGED openTx
  /\ UNCHANGED <<scores, removed, counted, pinRows, anticheats, reports>>

\* The anticheat is looked up, and created when there is none.  An error leaves
\* the transaction open.
ScoreReportPOSTAnticheat(r) ==
  /\ pc[r] = "reports:anticheat"
  /\ \/ \E name \in Anticheats :
          Continue(r, IF anticheats[name] = 0 THEN "reports:new" ELSE "reports:insert", name, {})
     \/ Refuse(r)
  /\ UNCHANGED tables

\* The INSERTs in the transaction.
ScoreReportPOSTInsert(r) ==
  /\ pc[r] \in {"reports:new", "reports:insert"}
  /\ \/ Continue(r, IF pc[r] = "reports:new" THEN "reports:commit new" ELSE "reports:commit",
                 arg[r], {})
     \/ Refuse(r)
  /\ UNCHANGED tables

\* The commit.
ScoreReportPOSTCommit(r) ==
  /\ pc[r] \in {"reports:commit", "reports:commit new"}
  /\ openTx' = openTx \ {r}
  /\ \/ /\ reports' = reports \cup {r}
        /\ anticheats' = IF pc[r] = "reports:commit new"
                           THEN [anticheats EXCEPT ![arg[r]] = @ + 1] ELSE anticheats
        /\ Reply(r, {})
     \/ Refuse(r) /\ UNCHANGED <<reports, anticheats>>
  /\ UNCHANGED <<scores, removed, counted, pinRows>>

scoreHandlers(r) ==
  \/ ScoresGET(r) \/ ScoresGETRows(r) \/ UserScoresBestGET(r) \/ UserScoresRecentGET(r)
  \/ UserFirstGET(r) \/ UserFirstGETRows(r) \/ OldestFirstGET(r) \/ OldestFirstGETRows(r)
  \/ UserPinnedGET(r) \/ PinnedScoreGET(r)
  \/ UserPinnedPOST(r) \/ UserPinnedPOSTPinned(r) \/ UserPinnedPOSTInsert(r)
  \/ UserPinnedDeletePOST(r) \/ UserPinnedDeletePOSTDelete(r)
  \/ WipeUserPOST(r) \/ WipeUserPOSTCommit(r) \/ WipeUserPOSTAnswer(r)
  \/ ScoreReportPOST(r) \/ ScoreReportPOSTAnticheat(r) \/ ScoreReportPOSTInsert(r)
  \/ ScoreReportPOSTCommit(r)
=============================================================================
