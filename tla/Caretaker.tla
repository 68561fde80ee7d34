----------------------------- MODULE Caretaker -----------------------------
(***************************************************************************)
(* What every request passes before its handler and after it: the router   *)
(* (app/router.go, app/start.go), initialCaretaker (app/method.go), the    *)
(* look-up of the token (app/tokens.go) and OnlyUserPublic                 *)
(* (common/token.go).  Requests run side by side, one statement of the     *)
(* database at a time, and every statement may fail.                       *)
(*                                                                         *)
(* A handler works with the privileges that were read when its token was   *)
(* looked up, while the users and the tokens go on changing: the admin     *)
(* panel, bancho and the handlers of UserManagement are the environment    *)
(* here.  The handlers are in the modules that extend this one.  The wait  *)
(* of GetTokenFull on updateTokens is in TokenUpdater.                     *)
(***************************************************************************)
EXTENDS Privileges

CONSTANTS
  Requests,     \* the requests, each of which is one call
  Users,        \* the ids of the users table
  Nobody,       \* the id 0 of a request without a token; also an id of no user
  Tokens,       \* the tokens that requests present
  NoToken,
  Bearers,      \* those of osin_access; the others are of the table tokens
  Owner,        \* the user of a token
  Granted,      \* tokens.privileges, and the scopes of osin_access
  Private,      \* the tokens with private = 1
  Headers,      \* the places where a request presents tokens
  Managers,     \* those who manage users at the start
  Ranks         \* a bound: what users.privileges may be

\* Where a token is looked for, the first place first.
Sources == <<"X-Ripple-Token", "Authorization", "token", "k", "rt">>

\* A header has tokens at some of the places.
Header == UNION {[places -> Tokens] : places \in SUBSET {Sources[i] : i \in DOMAIN Sources}}

ASSUME UsersAssumption == Nobody \notin Users /\ Managers \subseteq Users
ASSUME TokensAssumption ==
  /\ NoToken \notin Tokens
  /\ Owner \in [Tokens -> Users]
  /\ Bearers \subseteq Tokens
  /\ Private \subseteq Tokens
  /\ \A t \in Bearers : Granted[t] \subseteq STRING
  /\ \A t \in Tokens \ Bearers : Granted[t] \subseteq Privilege
ASSUME BoundsAssumption ==
  /\ Headers \subseteq Header
  /\ Ranks \subseteq SUBSET UserPrivilege

\* app/start.go: the endpoints, and the privileges that each of them asks for.
ReadConfidential == {"friends", "friends/with", "self/settings", "self/donor_info"}
Write == {"friends/add", "friends/del", "pin", "unpin", "comments/post", "comments/delete",
          "self/settings/post", "self/userpage"}
Beatmap == {"beatmaps/set_status", "beatmaps/ranked_frozen_full"}
ManageUser == {"wipe", "scores/reports"}
Free == {"users", "users/whatid", "users/full", "users/userpage", "users/lookup", "users/self",
         "scores", "scores/best", "scores/recent", "scores/first", "first/oldest",
         "pinned", "pinned/info", "comments", "comments/info", "beatmaps", "beatmaps/search",
         "leaderboard", "clans", "clans/members", "clans/stats", "clans/stats/all",
         "clans/getinvite", "clans/isclan", "followers", "followers_friends",
         "tokens", "tokens/self", "tokens/self/delete"}
Endpoint == ReadConfidential \cup Write \cup Beatmap \cup ManageUser \cup Free

privilegesNeeded(e) ==
  CASE e \in ReadConfidential -> {"ReadConfidential"}
    [] e \in Write -> {"Write"}
    [] e \in Beatmap -> {"Beatmap"}
    [] e \in ManageUser -> {"ManageUser"}
    [] e \in Free -> {}

VARIABLES
  calls,       \* a bound: the endpoints that are called, each with a header
  privileges,  \* users.privileges
  live,        \* the tokens that are in their table
  changes,     \* a bound: how often the environment will act yet
  endpoint,    \* the handler of a request
  cred,        \* the token that it is looking up
  md,          \* MethodData.User
  pc,          \* its next statement
  arg,         \* the user, score, comment, map or clan that its call names
  seen,        \* the facts of the database that it has read
  answer,      \* "none"; "ok" for the code 200 (or none); "no" for another code, and
               \* "pls200" for another code in the body under the status 200
  said         \* what the answer of this step says or relies on, as facts

worldVars == <<calls, privileges, live, changes>>
requestVars == <<endpoint, cred, md, pc, arg, seen, answer>>

\* MethodData.User before a token is found.
Anonymous == [id |-> Nobody, token |-> NoToken, privs |-> {}, user |-> {}]
Found(t, privs) ==
  [id |-> Owner[t], token |-> t, privs |-> CanOnly(privs, privileges[Owner[t]]),
   user |-> privileges[Owner[t]]]

MethodUser ==
  [id : Users \cup {Nobody}, token : Tokens \cup {NoToken}, privs : SUBSET Privilege,
   user : SUBSET UserPrivilege]

CaretakerTypeOK ==
  /\ calls \subseteq Endpoint \X Headers
  /\ privileges \in [Users -> Ranks]
  /\ live \subseteq Tokens
  /\ changes \in Nat
  /\ endpoint \in [Requests -> Endpoint \cup {"none"}]
  /\ cred \in [Requests -> Tokens \cup {NoToken}]
  /\ md \in [Requests -> MethodUser]
  /\ answer \in [Requests -> {"none", "ok", "no", "pls200"}]

CaretakerInit ==
  /\ privileges \in [Users -> Ranks]
  /\ \A u \in Users : u \in Managers <=> "AdminManageUsers" \in privileges[u]
  /\ live = Tokens
  /\ endpoint = [r \in Requests |-> "none"]
  /\ cred = [r \in Requests |-> NoToken]
  /\ md = [r \in Requests |-> Anonymous]
  /\ pc = [r \in Requests |-> "new"]
  /\ arg = [r \in Requests |-> Nobody]
  /\ seen = [r \in Requests |-> {}]
  /\ answer = [r \in Requests |-> "none"]
  /\ said = {}

-----------------------------------------------------------------------------
(* Steps of a request.                                                      *)

\* The request goes on at l: its call names x, and it has read the facts.
Continue(r, l, x, facts) ==
  /\ pc' = [pc EXCEPT ![r] = l]
  /\ arg' = [arg EXCEPT ![r] = x]
  /\ seen' = [seen EXCEPT ![r] = @ \cup facts]
  /\ said' = {}
  /\ UNCHANGED <<worldVars, endpoint, cred, md, answer>>

\* The request is answered: what it has read is forgotten.
Finish(r, status, facts) ==
  /\ pc' = [pc EXCEPT ![r] = "done"]
  /\ md' = [md EXCEPT ![r] = Anonymous]
  /\ arg' = [arg EXCEPT ![r] = Nobody]
  /\ seen' = [seen EXCEPT ![r] = {}]
  /\ answer' = [answer EXCEPT ![r] = status]
  /\ said' = facts
  /\ UNCHANGED <<calls, privileges, changes, endpoint, cred>>

\* The code 200, with what the answer says.
Reply(r, facts) == Finish(r, "ok", facts) /\ UNCHANGED live

\* What stands in an answer for something that could not be read: 0, false, "".
Unread == <<"unread", Nobody, Nobody>>

\* The rows of a query; those that cannot be read are left out.
ReplyRows(r, facts) == \E some \in SUBSET facts : Reply(r, some)

\* The rows of a query, of which some may be left out, and some be there without
\* what could not be read.
Gaps(rows) == IF rows = {} THEN {{}} ELSE {{}, {Unread}}
ReplyHalfRead(r, facts) == \E some \in SUBSET facts, gap \in Gaps(facts) : Reply(r, some \cup gap)

\* Another code and status, where the handler does not answer.
Reject(r) == Finish(r, "no", {}) /\ UNCHANGED live

\* Another code, after a check or an error of the handler; with the parameter
\* pls200 the status is 200 nevertheless.
Refuse(r) == \E status \in {"no", "pls200"} : Finish(r, status, {}) /\ UNCHANGED live

\* The first statement of the handler of e.
Serves(r, e) == pc[r] = "handler" /\ endpoint[r] = e

-----------------------------------------------------------------------------
(* OnlyUserPublic.                                                          *)

ManagesUsers(u) == "AdminManageUsers" \in u.user

\* Mutant of Visible: a user who is not public sees those who are not either.
VisibleToPeers(r, u, userManagerSeesEverything) ==
  \/ userManagerSeesEverything /\ ManagesUsers(md[r])
  \/ "UserPublic" \in privileges[u] \/ "UserPublic" \notin md[r].user

\* OnlyUserPublic: the users that it leaves in a query of r.
Visible(r, u, userManagerSeesEverything) ==
  \/ userManagerSeesEverything /\ ManagesUsers(md[r])
  \/ "UserPublic" \in privileges[u] \/ u = md[r].id

-----------------------------------------------------------------------------
(* initialCaretaker.                                                        *)

\* The place whose token counts: there is no way back to a later one.
Presented(h) == Sources[CHOOSE i \in DOMAIN Sources :
                          /\ Sources[i] \in DOMAIN h
                          /\ \A j \in DOMAIN Sources : Sources[j] \in DOMAIN h => i <= j]

\* A request comes in.
Receive(r) ==
  /\ pc[r] = "new"
  /\ \E call \in calls :
       LET h == call[2] IN
       /\ endpoint' = [endpoint EXCEPT ![r] = call[1]]
       /\ IF DOMAIN h = {}
            THEN pc' = [pc EXCEPT ![r] = "check"] /\ UNCHANGED cred
            ELSE /\ pc' = [pc EXCEPT ![r] = IF Presented(h) = "Authorization"
                                              THEN "bearer" ELSE "token"]
                 /\ cred' = [cred EXCEPT ![r] = h[Presented(h)]]
  /\ said' = {}
  /\ UNCHANGED <<worldVars, md, arg, seen, answer>>

\* The token is looked up: the request is of its owner, or of nobody.
LogIn(r, user, l) ==
  /\ md' = [md EXCEPT ![r] = user]
  /\ cred' = [cred EXCEPT ![r] = NoToken]
  /\ pc' = [pc EXCEPT ![r] = l]
  /\ said' = {}
  /\ UNCHANGED <<worldVars, endpoint, arg, seen, answer>>

\* GetTokenFull: one SELECT for the token and its owner.  priv8 is every
\* privilege up to Beatmap, the last one before Bancho.
GetTokenFull(r) ==
  /\ pc[r] = "token"
  /\ LET t == cred[r]
         privs == IF t \in Private THEN Privilege \ {"Bancho"} ELSE Granted[t] IN
     \/ t \in live \ Bearers /\ LogIn(r, Found(t, privs), "check")
     \/ LogIn(r, Anonymous, "check")

\* BearerToken: the SELECT of the scope.
BearerScope(r) ==
  /\ pc[r] = "bearer"
  /\ \/ /\ cred[r] \in live \cap Bearers
        /\ Continue(r, "bearer:user", Nobody, {})
     \/ LogIn(r, Anonymous, "check")

\* Mutant of BearerUser: the privileges of the scope are not cut down.
BearerUserUncut(r) ==
  /\ pc[r] = "bearer:user"
  /\ LET t == cred[r]
         user == Found(t, OAuthPrivileges(Granted[t])) IN
     \/ LogIn(r, [user EXCEPT !.privs = OAuthPrivileges(Granted[t])], "check")
     \/ LogIn(r, [user EXCEPT !.privs = {}, !.user = {}], "check")

\* BearerToken: the SELECT of the owner's privileges, which are none when it fails.
BearerUser(r) ==
  /\ pc[r] = "bearer:user"
  /\ LET t == cred[r]
         user == Found(t, OAuthPrivileges(Granted[t])) IN
     \/ LogIn(r, user, "check")
     \/ LogIn(r, [user EXCEPT !.privs = {}, !.user = {}], "check")

\* The privileges are checked, and the handler is called.
Check(r) ==
  /\ pc[r] = "check"
  /\ IF privilegesNeeded(endpoint[r]) \subseteq md[r].privs
       THEN Continue(r, "handler", Nobody, {})
       ELSE Reject(r)

caretaker(r) == Receive(r) \/ GetTokenFull(r) \/ BearerScope(r) \/ BearerUser(r) \/ Check(r)

-----------------------------------------------------------------------------
(* The environment.                                                         *)

\* A user is restricted, allowed, or gets another rank.  Nobody new manages users.
ChangeUser ==
  /\ changes > 0
  /\ changes' = changes - 1
  /\ \E u \in Users, new \in Ranks :
       /\ "AdminManageUsers" \in new => u \in Managers
       /\ privileges' = [privileges EXCEPT ![u] = new]
  /\ said' = {}
  /\ UNCHANGED <<calls, live, requestVars>>

\* Somebody else deletes a token.
DropToken ==
  /\ changes > 0
  /\ changes' = changes - 1
  /\ \E t \in live : live' = live \ {t}
  /\ said' = {}
  /\ UNCHANGED <<calls, privileges, requestVars>>

-----------------------------------------------------------------------------
(* app/v1/token.go, on the token of the request.                            *)

\* TokenSelfDeletePOST.
TokenSelfDeletePOST(r) ==
  /\ Serves(r, "tokens/self/delete")
  /\ \/ md[r].id # Nobody /\ Finish(r, "ok", {}) /\ live' = live \ {md[r].token}
     \/ Refuse(r)

\* TokenSelfGET and getBearerToken.
TokenSelfGET(r) ==
  /\ Serves(r, "tokens/self")
  /\ \/ md[r].token \in live /\ Reply(r, {<<"token", md[r].id, md[r].token>>})
     \/ Refuse(r)

\* TokenGET: the tokens of the user that are not private; rows that cannot be
\* read are passed over.
TokenGET(r) ==
  /\ Serves(r, "tokens")
  /\ \/ ReplyRows(r, {<<"token", md[r].id, t>> :
                         t \in {t \in live \ (Private \cup Bearers) : Owner[t] = md[r].id}})
     \/ Refuse(r)

\* Facts of the users and the tokens.  A fact is a kind, a user that it is about,
\* and what it says of the user.
UserFacts ==
  {<<"user", u, u>> : u \in Users} \cup {<<"email", u, u>> : u \in Users}
  \cup {<<"public", u, u>> : u \in {u \in Users : "UserPublic" \in privileges[u]}}
  \cup {<<"rank", u, privileges[u]>> : u \in Users}
  \cup {<<"token", Owner[t], t>> : t \in live}

tokenHandlers(r) == TokenSelfDeletePOST(r) \/ TokenSelfGET(r) \/ TokenGET(r)
=============================================================================
