------------------------------ MODULE Service ------------------------------
(***************************************************************************)
(* The HTTP API as a whole: requests pass the pipeline and are served by   *)
(* their handlers side by side, on the tables that they share, while the   *)
(* users, the tokens, the leaderboards and the clans change under them.    *)
(***************************************************************************)
EXTENDS Relationships, Scores, Profiles, Beatmaps, Clans

CONSTANT Starts  \* a bound: what is called, and what the tables start with

ASSUME StartsAssumption ==
  \A start \in Starts :
    /\ start.calls \subseteq Endpoint \X Headers
    /\ start.changes \in Nat
    /\ start.privileges \in [Users -> Ranks]
    /\ start.rows \in [Users \X Users -> Nat]
    /\ start.scores \subseteq Scores
    /\ start.pinRows \in [Users \X Scores -> Nat]
    /\ \A u \in Users, s \in Scores : start.pinRows[<<u, s>>] > 0 => Player[s] = u
    /\ start.comments \subseteq [id : OldComments, op : Users, prof : Users]
    /\ \A c, d \in start.comments : c.id = d.id => c = d
    /\ start.disabled \subseteq Users
    /\ start.text \in Texts
    /\ start.board \in Boards
    /\ start.mapStatus \in [Maps -> MapStatus]
    /\ start.clanOf \in [Users -> ClanIds \cup {NoClan}]
    /\ start.admins \subseteq {u \in Users : start.clanOf[u] # NoClan}

\* For the properties only: the facts that a request could have read since it
\* came in.  Before its handler runs it reads users and tokens alone.
VARIABLE held

vars == <<worldVars, requestVars, said, rows, tables, comments, disabled, profile, mapStatus,
          userClans, held>>

\* The points of the pipeline, before the handler.
Looking == {"new", "token", "bearer", "bearer:user", "check"}

\* The facts that handlers read, by the tables that they are about.
OnRelationships == {"friends", "friends/with", "friends/add", "friends/del", "followers",
                    "followers_friends"}
OnScores == {"pin", "unpin", "pinned", "pinned/info", "scores", "scores/best", "scores/recent",
             "scores/first", "first/oldest", "wipe", "scores/reports"}
OnBeatmaps == {"beatmaps", "beatmaps/search", "beatmaps/set_status", "beatmaps/ranked_frozen_full"}
OnClans == {"clans", "clans/members", "clans/stats", "clans/stats/all", "clans/getinvite",
            "clans/isclan"}

Facts(e) ==
  UserFacts \cup (CASE e \in OnRelationships -> RelationshipFacts
                    [] e \in OnScores -> ScoreFacts
                    [] e \in OnBeatmaps -> BeatmapFacts
                    [] e \in OnClans -> ClanFacts
                    [] OTHER -> CommentFacts \cup ProfileFacts)

Remember ==
  held' = [r \in Requests |->
             CASE pc'[r] \in {"new", "done"} -> {}
               [] pc'[r] \in Looking \ {"new"} -> held[r] \cup UserFacts'
               [] OTHER -> held[r] \cup Facts(endpoint[r])']

TypeOK ==
  /\ CaretakerTypeOK
  /\ RelationshipsTypeOK
  /\ ScoresTypeOK
  /\ CommentsTypeOK
  /\ ProfilesTypeOK
  /\ BeatmapsTypeOK
  /\ ClansTypeOK

-----------------------------------------------------------------------------
\* Each module's steps leave the tables of the others alone.

Caretaking(r) ==
  /\ caretaker(r) \/ tokenHandlers(r)
  /\ UNCHANGED <<rows, tables, comments, disabled, profile, mapStatus, userClans>>
  /\ Remember

ServeRelationships(r) ==
  /\ relationshipHandlers(r)
  /\ UNCHANGED <<tables, comments, disabled, profile, mapStatus, userClans>>
  /\ Remember

ServeScores(r) ==
  /\ scoreHandlers(r)
  /\ UNCHANGED <<rows, comments, disabled, profile, mapStatus, userClans>>
  /\ Remember

ServeComments(r) ==
  /\ commentHandlers(r)
  /\ UNCHANGED <<rows, tables, profile, mapStatus, userClans>>
  /\ Remember

ServeProfiles(r) ==
  /\ profileHandlers(r)
  /\ UNCHANGED <<rows, tables, mapStatus, userClans>>
  /\ Remember

ServeBeatmaps(r) ==
  /\ beatmapHandlers(r)
  /\ UNCHANGED <<rows, tables, comments, disabled, profile, userClans>>
  /\ Remember

ServeClans(r) ==
  /\ clanHandlers(r)
  /\ UNCHANGED <<rows, tables, comments, disabled, profile, mapStatus>>
  /\ Remember

called == {call[1] : call \in calls}

\* A bound: boards and clans that no call reads stay as they are.
World ==
  /\ \/ (ChangeUser \/ DropToken) /\ UNCHANGED <<profile, userClans>>
     \/ called \cap {"leaderboard", "users/full"} # {} /\ MoveBoard /\ UNCHANGED userClans
     \/ called \cap OnClans # {} /\ ChangeClan /\ UNCHANGED profile
  /\ UNCHANGED <<rows, tables, comments, disabled, mapStatus>>
  /\ Remember

Init ==
  /\ CaretakerInit
  /\ \E start \in Starts :
       /\ calls = start.calls
       /\ changes = start.changes
       /\ privileges = start.privileges
       /\ rows = start.rows
       /\ scores = start.scores
       /\ counted = {"stats", "playcounts"} \X Users \X Modes
       /\ pinRows = start.pinRows
       /\ comments = start.comments
       /\ disabled = start.disabled
       /\ page = [u \in Users |-> start.text]
       /\ aka = page
       /\ badge = page
       /\ board = start.board
       /\ mapStatus = start.mapStatus
       /\ clanOf = start.clanOf
       /\ admins = start.admins
  /\ removed = {} /\ reports = {} /\ openTx = {}
  /\ anticheats = [name \in Anticheats |-> 0]
  /\ held = [r \in Requests |-> {}]

Next ==
  \/ \E r \in Requests :
       \/ Caretaking(r) \/ ServeRelationships(r) \/ ServeScores(r) \/ ServeComments(r)
       \/ ServeProfiles(r) \/ ServeBeatmaps(r) \/ ServeClans(r)
  \/ World

Spec == Init /\ [][Next]_vars

-----------------------------------------------------------------------------
(* Properties.                                                              *)

Answered(r) == answer[r] = "none" /\ answer'[r] # "none"

\* The ranks that user u has had since the request came in.
RanksHeld(r, u) == {x[3] : x \in {x \in held[r] : x[1] = "rank" /\ x[2] = u}}

\* A request acts for the owner of a token that was there while it ran, with no
\* privilege that the token does not grant, and only with those that the owner
\* was good for at one moment of the request; past the pipeline it has those
\* that its endpoint asks for.
Entitled ==
  \A r \in Requests :
    LET m == md[r]
        granted == IF m.token \in Bearers THEN OAuthPrivileges(Granted[m.token])
                   ELSE IF m.token \in Private THEN Privilege \ {"Bancho"} ELSE Granted[m.token]
    IN /\ m.token = NoToken => m = Anonymous
       /\ m.token # NoToken =>
            /\ m.id = Owner[m.token]
            /\ <<"token", m.id, m.token>> \in held[r]
            /\ \E rank \in RanksHeld(r, m.id) : m.privs \subseteq CanOnly(granted, rank)
       /\ pc[r] \notin Looking \cup {"done"} => privilegesNeeded(endpoint[r]) \subseteq m.privs

\* Friends, pins, comments and score reports change as Social says: once per call,
\* when it is answered with the code 200, only what belongs to its caller, and that
\* which its answer says; a refused call changes nothing, though pls200 may give it
\* the status 200.
Promised ==
  INSTANCE Social WITH
    Endpoints <- Endpoint,
    call <- endpoint,
    caller <- [r \in Requests |-> md[r].id],
    friends <- {p \in Users \X Users : Befriended(p[1], p[2])},
    pins <- {p \in Users \X Scores : Pinned(p[1], p[2])}
SocialSpec == Promised!Spec

\* What an answer says, and what it relies on, was in the database at one moment
\* of the request, though each fact at a moment of its own; the rank of a clan is
\* its rank among the clans that were read.  Not so for what stands in an answer for
\* something that could not be read: Unread, and the positions of users/full, which
\* are 1 when Redis fails.
AnswersHeld ==
  [][\A r \in Requests :
       Answered(r) => said' \subseteq held[r] \cup Facts(endpoint[r])'
                                     \cup {Unread} \cup {<<"position", u, 1>> : u \in Users}]_vars

\* The facts that are kept from others when their user is restricted.
Kept == {"user", "score", "comment", "email"}

\* What r is answered now keeps to this: at one moment of the request the user
\* was public, or the request is of the user, or of somebody who managed users at
\* one moment (which does not help with the lists of best scores); and the e-mail
\* address of another one is for those whose rank allowed to manage users.
Discreet(r) ==
  Answered(r) => \A x \in said' :
    LET u == x[2]
        me == md[r].id
        ranks == RanksHeld(r, me)
    IN x[1] \in Kept =>
         /\ \/ <<"public", u, u>> \in held[r] \cup UserFacts'
            \/ u = me
            \/ /\ \E rank \in ranks : "AdminManageUsers" \in rank
               /\ endpoint[r] # "scores"
         /\ x[1] = "email" =>
              u = me \/ \E rank \in ranks : privilegeMustBe["ManageUser"] \subseteq rank

\* The facts of Kept (that there is a user, a score among scores, a comment, and an
\* e-mail address) are not shown while the user is restricted, but to the user and to
\* those who manage users.  Other kinds of facts are not covered: the friend lists, the
\* pins, the members of clans, the pages, the boards and the first places, with the
\* scores in them, show restricted users to everybody.
RestrictedUnseen == [][\A r \in Requests : Discreet(r)]_vars
=============================================================================
