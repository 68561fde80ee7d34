---------------------------- MODULE ServiceProofs --------------------------
(* The types of Service, what a request acts with, whom its answers show and *)
(* that they were true, for every number of requests, users and tokens, and *)
(* every start.                                                             *)
EXTENDS Service, FiniteSetTheorems, WellFoundedInduction, TLAPS

-----------------------------------------------------------------------------
(* The inductive invariant.                                                 *)

\* The statement l is one of the handler of e.
StepOf(l, e) ==
  \/ l = "friends:mine" /\ e = "friends"
  \/ l \in {"friends/add:relation", "friends/add:insert"} /\ e = "friends/add"
  \/ l = "followers_friends:rows" /\ e = "followers_friends"
  \/ l = "followers:all" /\ e = "followers"
  \/ l = "scores:rows" /\ e = "scores"
  \/ l = "scores/first:rows" /\ e = "scores/first"
  \/ l = "first/oldest:rows" /\ e = "first/oldest"
  \/ l \in {"pin:pinned", "pin:insert"} /\ e = "pin"
  \/ l = "unpin:delete" /\ e = "unpin"
  \/ l \in {"wipe:tx", "wipe:user"} /\ e = "wipe"
  \/ /\ l \in {"reports:anticheat", "reports:new", "reports:insert", "reports:commit",
               "reports:commit new"}
     /\ e = "scores/reports"
  \/ l \in {"comments/post:me", "comments/post:open", "comments/post:insert"} /\ e = "comments/post"
  \/ l = "comments:rows" /\ e = "comments"
  \/ l = "comments/delete:row" /\ e = "comments/delete"
  \/ l = "comments/info:profile" /\ e = "comments/info"
  \/ l = "users/full:positions" /\ e = "users/full"
  \/ l = "self/userpage:get" /\ e = "self/userpage"
  \/ l \in {"self/settings/post:update", "self/settings/post:get"} /\ e = "self/settings/post"
  \/ l \in {"leaderboard:rows", "leaderboard:ranks"} /\ e = "leaderboard"
  \/ l \in {"beatmaps/set_status:update", "beatmaps/set_status:get"} /\ e = "beatmaps/set_status"
  \/ l = "clans/getinvite:invite" /\ e = "clans/getinvite"
  \/ l = "clans/stats:members" /\ e \in {"clans/stats", "clans/stats/all"}

\* What the call of user me names, at the statement l of a handler that writes.
Names(l, x, me) ==
  /\ l \in {"friends/add:relation", "friends/add:insert"} => x \in Users \ {me}
  /\ l \in {"comments/post:me", "comments/post:open", "comments/post:insert",
            "comments/info:profile"} => x \in Users
  /\ l \in {"pin:pinned", "pin:insert"} => x \in Scores /\ Player[x] = me
  /\ l = "unpin:delete" => x \in Scores
  /\ l = "comments/delete:row" => x \in CommentIds
  /\ l = "clans/stats:members" => x \in ClanLists

\* Where a request is, and what is there by then.
Located ==
  /\ DOMAIN pc = Requests /\ DOMAIN arg = Requests
  /\ \A r \in Requests :
       /\ endpoint[r] = "none" <=> pc[r] = "new"
       /\ answer[r] = "none" <=> pc[r] # "done"
       /\ pc[r] \in {"new", "token", "bearer", "bearer:user", "done"} => md[r] = Anonymous
       /\ pc[r] \in {"token", "bearer", "bearer:user"} => cred[r] \in Tokens
       /\ pc[r] \notin Looking \cup {"handler", "done"} => StepOf(pc[r], endpoint[r])
       /\ Names(pc[r], arg[r], md[r].id)

\* The privileges of a token, before CanOnly.
granted(t) ==
  IF t \in Bearers THEN OAuthPrivileges(Granted[t])
  ELSE IF t \in Private THEN Privilege \ {"Bancho"} ELSE Granted[t]

\* The user m of a request, which has held the facts.
UserOK(m, facts) ==
  /\ m.token = NoToken => m = Anonymous
  /\ m.token # NoToken =>
       /\ m.id = Owner[m.token]
       /\ <<"token", m.id, m.token>> \in facts
       /\ \E rank \in Ranks : /\ <<"rank", m.id, rank>> \in facts
                              /\ m.privs \subseteq CanOnly(granted(m.token), rank)
  /\ m.privs \subseteq CanOnly(Privilege, m.user)
  /\ m.user = {} \/ <<"rank", m.id, m.user>> \in facts
  /\ ManagesUsers(m) => m.id \in Managers

\* Its token, between the two statements of BearerToken, was there.
BearerOK(r) ==
  pc[r] = "bearer:user" =>
    cred[r] \in Bearers /\ <<"token", Owner[cred[r]], cred[r]>> \in held[r]

Trusted ==
  /\ DOMAIN held = Requests
  /\ \A u \in Users : "AdminManageUsers" \in privileges[u] => u \in Managers
  /\ \A r \in Requests :
       /\ UserOK(md[r], held[r])
       /\ BearerOK(r)
       /\ pc[r] \notin Looking \cup {"done"} => privilegesNeeded(endpoint[r]) \subseteq md[r].privs

PipelineInv == CaretakerTypeOK /\ Located /\ Trusted

-----------------------------------------------------------------------------
(* Steps of a handler, as the pipeline sees them.                           *)

\* The handler of r goes on to a statement of its own, or the request is answered.
Moves(r) ==
  \/ \E l, x, facts : /\ Continue(r, l, x, facts)
                      /\ StepOf(l, endpoint[r])
                      /\ Names(l, x, md[r].id)
  \/ \E status \in {"ok", "no", "pls200"} : \E facts : Finish(r, status, facts) /\ live' \subseteq live

\* The request r is in its handler.
Serving(r) == pc[r] \notin Looking \cup {"done"}

LEMMA StepsAreLate ==
  ASSUME NEW l, NEW e, StepOf(l, e)
  PROVE  l \notin Looking \cup {"handler", "done"} /\ e # "none"
BY DEF StepOf, Looking

\* What is held grows until the request is answered.
LEMMA HeldGrows ==
  ASSUME Remember, NEW q \in Requests, pc'[q] \notin {"new", "done"}
  PROVE  /\ held[q] \subseteq held'[q]
         /\ pc'[q] \in Looking => UserFacts' \subseteq held'[q]
BY DEF Remember, Looking

LEMMA UserKept ==
  ASSUME NEW m, NEW f, NEW g, f \subseteq g, UserOK(m, f)
  PROVE  UserOK(m, g)
BY DEF UserOK

LEMMA AnonymousOK == \A f : UserOK(Anonymous, f)
BY DEF UserOK, Anonymous, CanOnly, ManagesUsers

\* A request that is in its handler goes on.
LEMMA ContinueKeeps ==
  ASSUME PipelineInv, Remember, NEW r \in Requests, Serving(r),
         NEW l, NEW x, NEW facts, Continue(r, l, x, facts),
         StepOf(l, endpoint[r]), Names(l, x, md[r].id)
  PROVE  PipelineInv'
<1>1. l \notin Looking \cup {"handler", "done"}
  BY StepsAreLate
<1>2. /\ pc' = [pc EXCEPT ![r] = l] /\ arg' = [arg EXCEPT ![r] = x]
      /\ UNCHANGED <<calls, privileges, live, changes, endpoint, cred, md, answer>>
  BY DEF Continue, worldVars
<1>3. CaretakerTypeOK'
  BY <1>2 DEF PipelineInv, CaretakerTypeOK
<1>4. Located'
  BY <1>1, <1>2 DEF PipelineInv, Located, Serving, Looking
<1>5. Trusted'
  <2>1. ASSUME NEW q \in Requests
        PROVE  pc[q] \in {"new", "done"} \/ held[q] \subseteq held'[q]
    BY <1>1, <1>2, HeldGrows DEF PipelineInv, Located, Looking
  <2>2. ASSUME NEW q \in Requests
        PROVE  UserOK(md[q], held'[q])
    <3>1. CASE pc[q] \in {"new", "done"}
      BY <3>1, AnonymousOK DEF PipelineInv, Located
    <3>2. CASE held[q] \subseteq held'[q]
      BY <3>2, UserKept DEF PipelineInv, Trusted
    <3> QED BY <2>1, <3>1, <3>2
  <2>3. ASSUME NEW q \in Requests
        PROVE  BearerOK(q)'
    BY <1>1, <1>2, <2>1 DEF PipelineInv, Located, Trusted, BearerOK, Looking
  <2>4. DOMAIN held' = Requests
    BY DEF Remember
  <2> QED BY <1>1, <1>2, <2>2, <2>3, <2>4 DEF PipelineInv, Located, Trusted, Serving, Looking, UserOK
<1> QED BY <1>3, <1>4, <1>5 DEF PipelineInv

\* A request is answered.
LEMMA FinishKeeps ==
  ASSUME PipelineInv, Remember, NEW r \in Requests, pc[r] \notin {"new", "done"},
         NEW status \in {"ok", "no", "pls200"}, NEW facts, Finish(r, status, facts), live' \subseteq live
  PROVE  PipelineInv'
<1>1. /\ pc' = [pc EXCEPT ![r] = "done"] /\ arg' = [arg EXCEPT ![r] = Nobody]
      /\ md' = [md EXCEPT ![r] = Anonymous] /\ answer' = [answer EXCEPT ![r] = status]
      /\ UNCHANGED <<calls, privileges, changes, endpoint, cred>>
  BY DEF Finish
<1>2. CaretakerTypeOK'
  BY <1>1 DEF PipelineInv, CaretakerTypeOK, MethodUser, Anonymous
<1>3. Located'
  BY <1>1 DEF PipelineInv, CaretakerTypeOK, Located, Names, Looking
<1>4. Trusted'
  <2>1. ASSUME NEW q \in Requests
        PROVE  pc'[q] \in {"new", "done"} \/ held[q] \subseteq held'[q]
    BY HeldGrows
  <2>2. ASSUME NEW q \in Requests
        PROVE  UserOK(md'[q], held'[q])
    <3>1. CASE pc'[q] \in {"new", "done"}
      BY <1>1, <3>1, AnonymousOK DEF PipelineInv, CaretakerTypeOK, Located
    <3>2. CASE pc'[q] \notin {"new", "done"}
      <4>1. md'[q] = md[q] /\ held[q] \subseteq held'[q]
        BY <1>1, <2>1, <3>2 DEF PipelineInv, CaretakerTypeOK, Located
      <4> QED BY <4>1, UserKept DEF PipelineInv, Trusted
    <3> QED BY <3>1, <3>2
  <2>3. ASSUME NEW q \in Requests
        PROVE  BearerOK(q)'
    BY <1>1, <2>1 DEF PipelineInv, Located, Trusted, BearerOK
  <2>4. DOMAIN held' = Requests
    BY DEF Remember
  <2> QED BY <1>1, <2>2, <2>3, <2>4 DEF PipelineInv, CaretakerTypeOK, Located, Trusted, Looking, UserOK
<1> QED BY <1>2, <1>3, <1>4 DEF PipelineInv

LEMMA MovesKeeps ==
  ASSUME PipelineInv, Remember, NEW r \in Requests, Serving(r), Moves(r)
  PROVE  PipelineInv'
<1>1. pc[r] \notin {"new", "done"}
  BY DEF Serving, Looking
<1> QED BY <1>1, ContinueKeeps, FinishKeeps DEF Moves

-----------------------------------------------------------------------------
(* The pipeline.                                                            *)

\* A header that is not empty has a first place, with a token.
LEMMA PresentedToken ==
  ASSUME NEW h \in Headers, DOMAIN h # {}
  PROVE  h[Presented(h)] \in Tokens
<1>1. PICK places \in SUBSET {Sources[i] : i \in DOMAIN Sources} : h \in [places -> Tokens]
  BY BoundsAssumption DEF Header
<1>2. DOMAIN Sources = 1..5
  BY DEF Sources
<1> DEFINE At(i) == Sources[i] \in places
           First(i) == At(i) /\ \A j \in 1..5 : At(j) => i <= j
<1>3. \E i \in 1..5 : First(i)
  <2>1. \E i \in 1..5 : At(i)
    BY <1>1, <1>2
  <2>2. \E i \in 1..5 : At(i) /\ \A j \in 1..(i - 1) : ~At(j)
    <3> HIDE DEF At
    <3>1. At(1) \/ At(2) \/ At(3) \/ At(4) \/ At(5)
      BY <2>1
    <3>2. CASE At(1)
      BY <3>2
    <3>3. CASE ~At(1) /\ At(2)
      BY <3>3
    <3>4. CASE ~At(1) /\ ~At(2) /\ At(3)
      BY <3>4
    <3>5. CASE ~At(1) /\ ~At(2) /\ ~At(3) /\ At(4)
      BY <3>5
    <3>6. CASE ~At(1) /\ ~At(2) /\ ~At(3) /\ ~At(4) /\ At(5)
      BY <3>6
    <3> QED BY <3>1, <3>2, <3>3, <3>4, <3>5, <3>6
  <2> HIDE DEF At
  <2> QED BY <2>2
<1>4. Presented(h) = Sources[CHOOSE i \in 1..5 : First(i)]
  BY <1>1, <1>2 DEF Presented
<1>5. First(CHOOSE i \in 1..5 : First(i))
  <2> HIDE DEF First
  <2> QED BY <1>3
<1>6. Presented(h) \in places
  BY <1>4, <1>5
<1> QED BY <1>1, <1>6

\* A request comes in.
LEMMA ReceiveKeeps ==
  ASSUME PipelineInv, Remember, NEW r \in Requests, Receive(r)
  PROVE  PipelineInv'
<1>1. PICK call \in calls : endpoint' = [endpoint EXCEPT ![r] = call[1]]
  BY DEF Receive
<1>2. call[1] \in Endpoint /\ call[2] \in Headers
  BY DEF PipelineInv, CaretakerTypeOK
<1>3. /\ pc[r] = "new" /\ pc'[r] \in {"check", "bearer", "token"}
      /\ pc' = [pc EXCEPT ![r] = pc'[r]]
      /\ UNCHANGED <<calls, privileges, live, changes, md, arg, answer>>
  BY DEF Receive, PipelineInv, Located, worldVars
<1>4. /\ cred' \in [Requests -> Tokens \cup {NoToken}]
      /\ pc'[r] # "check" => cred'[r] \in Tokens
      /\ \A q \in Requests \ {r} : cred'[q] = cred[q]
  <2>1. CASE pc'[r] = "check" /\ UNCHANGED cred
    BY <2>1 DEF PipelineInv, CaretakerTypeOK
  <2>2. CASE \E t \in Tokens : cred' = [cred EXCEPT ![r] = t]
    BY <2>2 DEF PipelineInv, CaretakerTypeOK
  <2>3. PICK h \in Headers :
          IF DOMAIN h = {} THEN pc' = [pc EXCEPT ![r] = "check"] /\ UNCHANGED cred
                           ELSE cred' = [cred EXCEPT ![r] = h[Presented(h)]]
    BY DEF PipelineInv, CaretakerTypeOK, Receive
  <2> QED BY <1>3, <2>1, <2>2, <2>3, PresentedToken DEF PipelineInv, Located
<1>5. CaretakerTypeOK'
  BY <1>1, <1>2, <1>3, <1>4 DEF PipelineInv, CaretakerTypeOK
<1>6. "none" \notin Endpoint
  BY DEF Endpoint, ReadConfidential, Write, Beatmap, ManageUser, Free
<1>7. Located'
  BY <1>1, <1>2, <1>3, <1>4, <1>6 DEF PipelineInv, CaretakerTypeOK, Located, Looking, Names
<1>8. Trusted'
  <2>1. ASSUME NEW q \in Requests
        PROVE  UserOK(md'[q], held'[q])
    <3>1. CASE q = r
      BY <1>3, <3>1, AnonymousOK DEF PipelineInv, Located
    <3>2. CASE pc[q] \in {"new", "done"}
      BY <1>3, <3>2, AnonymousOK DEF PipelineInv, Located
    <3>3. CASE q # r /\ pc[q] \notin {"new", "done"}
      <4>1. held[q] \subseteq held'[q]
        BY <1>3, <3>3, HeldGrows DEF PipelineInv, Located
      <4> QED BY <1>3, <4>1, UserKept DEF PipelineInv, Trusted
    <3> QED BY <3>1, <3>2, <3>3
  <2>2. ASSUME NEW q \in Requests
        PROVE  BearerOK(q)'
    <3>1. pc'[q] = "bearer:user" => q # r /\ held[q] \subseteq held'[q]
      BY <1>3, HeldGrows DEF PipelineInv, Located
    <3> QED BY <1>3, <1>4, <3>1 DEF PipelineInv, Located, Trusted, BearerOK
  <2>3. DOMAIN held' = Requests
    BY DEF Remember
  <2> QED BY <1>1, <1>3, <2>1, <2>2, <2>3
          DEF PipelineInv, CaretakerTypeOK, Located, Trusted, Looking, UserOK
<1> QED BY <1>5, <1>7, <1>8 DEF PipelineInv

\* The user of a request becomes known.
LEMMA LogInKeeps ==
  ASSUME PipelineInv, Remember, NEW r \in Requests, pc[r] \in {"token", "bearer", "bearer:user"},
         NEW user \in MethodUser, LogIn(r, user, "check"), UserOK(user, held'[r])
  PROVE  PipelineInv'
<1>1. /\ pc' = [pc EXCEPT ![r] = "check"] /\ md' = [md EXCEPT ![r] = user]
      /\ cred' = [cred EXCEPT ![r] = NoToken]
      /\ UNCHANGED <<calls, privileges, live, changes, endpoint, arg, answer>>
  BY DEF LogIn, worldVars
<1>2. CaretakerTypeOK'
  BY <1>1 DEF PipelineInv, CaretakerTypeOK
<1>3. Located'
  BY <1>1 DEF PipelineInv, CaretakerTypeOK, Located, Names, Looking
<1>4. Trusted'
  <2>1. ASSUME NEW q \in Requests
        PROVE  UserOK(md'[q], held'[q])
    <3>1. CASE q = r
      BY <1>1, <3>1 DEF PipelineInv, CaretakerTypeOK
    <3>2. CASE pc[q] \in {"new", "done"}
      BY <1>1, <3>2, AnonymousOK DEF PipelineInv, CaretakerTypeOK, Located
    <3>3. CASE q # r /\ pc[q] \notin {"new", "done"}
      <4>1. held[q] \subseteq held'[q]
        BY <1>1, <3>3, HeldGrows DEF PipelineInv, Located
      <4> QED BY <1>1, <3>3, <4>1, UserKept DEF PipelineInv, CaretakerTypeOK, Trusted
    <3> QED BY <3>1, <3>2, <3>3
  <2>2. ASSUME NEW q \in Requests
        PROVE  BearerOK(q)'
    <3>1. pc'[q] = "bearer:user" => q # r /\ held[q] \subseteq held'[q]
      BY <1>1, HeldGrows DEF PipelineInv, Located
    <3> QED BY <1>1, <3>1 DEF PipelineInv, CaretakerTypeOK, Located, Trusted, BearerOK
  <2>3. DOMAIN held' = Requests
    BY DEF Remember
  <2> QED BY <1>1, <2>1, <2>2, <2>3
          DEF PipelineInv, CaretakerTypeOK, Located, Trusted, Looking, UserOK
<1> QED BY <1>2, <1>3, <1>4 DEF PipelineInv

LEMMA CanOnlyShrinks ==
  ASSUME NEW p, NEW rank
  PROVE  CanOnly(p, rank) \subseteq CanOnly(Privilege, rank) /\ CanOnly(p, rank) \subseteq Privilege
BY DEF CanOnly

\* The user that is found for a token, and the one that BearerToken makes of it
\* when it cannot read his privileges.
LEMMA FoundOK ==
  ASSUME PipelineInv, NEW t \in Tokens, NEW facts, <<"token", Owner[t], t>> \in facts,
         <<"rank", Owner[t], privileges[Owner[t]]>> \in facts
  PROVE  LET user == Found(t, granted(t))
             none == [user EXCEPT !.privs = {}, !.user = {}]
         IN /\ user \in MethodUser /\ UserOK(user, facts)
            /\ none \in MethodUser /\ UserOK(none, facts)
<1> DEFINE user == Found(t, granted(t))
           none == [user EXCEPT !.privs = {}, !.user = {}]
<1>1. Owner[t] \in Users /\ t # NoToken
  BY TokensAssumption
<1>2. privileges[Owner[t]] \in Ranks /\ privileges[Owner[t]] \in SUBSET UserPrivilege
  BY <1>1, BoundsAssumption DEF PipelineInv, CaretakerTypeOK
<1>3. /\ user.id = Owner[t] /\ user.token = t /\ user.user = privileges[Owner[t]]
      /\ user.privs = CanOnly(granted(t), privileges[Owner[t]])
  BY DEF Found
<1>4. user \in MethodUser
  BY <1>1, <1>2, CanOnlyShrinks DEF Found, MethodUser
<1>5. /\ none.id = Owner[t] /\ none.token = t /\ none.user = {} /\ none.privs = {}
      /\ none \in MethodUser
  BY <1>4 DEF Found, MethodUser
<1> HIDE DEF user, none
<1>6. ManagesUsers(user) => user.id \in Managers
  BY <1>1, <1>3 DEF PipelineInv, Trusted, ManagesUsers
<1>7. UserOK(user, facts)
  BY <1>1, <1>2, <1>3, <1>6, CanOnlyShrinks DEF UserOK
<1>8. UserOK(none, facts)
  BY <1>1, <1>2, <1>5 DEF UserOK, ManagesUsers
<1> QED BY <1>4, <1>5, <1>7, <1>8 DEF user, none

LEMMA AnonymousTyped == Anonymous \in MethodUser
BY DEF Anonymous, MethodUser

\* A user becomes known for the token that is looked up.
LEMMA GetTokenFullKeeps ==
  ASSUME PipelineInv, Remember, NEW r \in Requests, GetTokenFull(r)
  PROVE  PipelineInv'
<1> DEFINE t == cred[r]
<1>1. CASE LogIn(r, Anonymous, "check")
  BY <1>1, LogInKeeps, AnonymousTyped, AnonymousOK DEF GetTokenFull
<1>2. CASE t \in live \ Bearers /\ LogIn(r, Found(t, granted(t)), "check")
  <2>1. t \in Tokens /\ t \in live
    BY <1>2 DEF GetTokenFull, PipelineInv, Located
  <2>2. pc'[r] = "check" /\ UNCHANGED <<live, privileges>>
    BY <1>2 DEF LogIn, worldVars, PipelineInv, Located
  <2>3. UserFacts' \subseteq held'[r]
    BY <2>2, HeldGrows DEF Looking
  <2>4. <<"token", Owner[t], t>> \in held'[r] /\ <<"rank", Owner[t], privileges[Owner[t]]>> \in held'[r]
    BY <2>1, <2>2, <2>3, TokensAssumption DEF UserFacts
  <2>5. Found(t, granted(t)) \in MethodUser /\ UserOK(Found(t, granted(t)), held'[r])
    BY <2>1, <2>4, FoundOK
  <2> QED BY <1>2, <2>5, LogInKeeps DEF GetTokenFull
<1>3. (t \in live \ Bearers /\ LogIn(r, Found(t, granted(t)), "check")) \/ LogIn(r, Anonymous, "check")
  BY DEF GetTokenFull, granted
<1> QED BY <1>1, <1>2, <1>3

\* The scope of a token is read, or there is none.
LEMMA BearerScopeKeeps ==
  ASSUME PipelineInv, Remember, NEW r \in Requests, BearerScope(r)
  PROVE  PipelineInv'
<1>1. CASE LogIn(r, Anonymous, "check")
  BY <1>1, LogInKeeps, AnonymousTyped, AnonymousOK DEF BearerScope
<1>2. CASE cred[r] \in live \cap Bearers /\ Continue(r, "bearer:user", Nobody, {})
  <2>1. /\ pc' = [pc EXCEPT ![r] = "bearer:user"] /\ arg' = [arg EXCEPT ![r] = Nobody]
        /\ UNCHANGED <<calls, privileges, live, changes, endpoint, cred, md, answer>>
    BY <1>2 DEF Continue, worldVars
  <2>2. pc[r] = "bearer" /\ pc'[r] = "bearer:user"
    BY <2>1 DEF BearerScope, PipelineInv, Located
  <2>3. CaretakerTypeOK'
    BY <2>1 DEF PipelineInv, CaretakerTypeOK
  <2>4. Located'
    BY <2>1, <2>2 DEF PipelineInv, Located, Looking, Names
  <2>5. ASSUME NEW q \in Requests
        PROVE  pc[q] \in {"new", "done"} \/ held[q] \subseteq held'[q]
    BY <2>1, HeldGrows DEF PipelineInv, Located
  <2>6. ASSUME NEW q \in Requests
        PROVE  UserOK(md[q], held'[q])
    BY <2>5, AnonymousOK, UserKept DEF PipelineInv, Located, Trusted
  <2>7. ASSUME NEW q \in Requests
        PROVE  BearerOK(q)'
    <3>1. CASE q = r
      <4>1. UserFacts' \subseteq held'[r]
        BY <2>2, HeldGrows DEF Looking
      <4>2. <<"token", Owner[cred[r]], cred[r]>> \in held'[r]
        BY <1>2, <2>1, <4>1 DEF UserFacts
      <4> QED BY <1>2, <2>1, <3>1, <4>2 DEF BearerOK
    <3>2. CASE q # r
      BY <2>1, <2>5, <3>2 DEF PipelineInv, Located, Trusted, BearerOK
    <3> QED BY <3>1, <3>2
  <2>8. DOMAIN held' = Requests
    BY DEF Remember
  <2>9. Trusted'
    BY <2>1, <2>2, <2>6, <2>7, <2>8 DEF PipelineInv, Located, Trusted, Looking, UserOK
  <2> QED BY <2>3, <2>4, <2>9 DEF PipelineInv
<1> QED BY <1>1, <1>2 DEF BearerScope

\* The privileges of its owner are read, or not.
LEMMA BearerUserKeeps ==
  ASSUME PipelineInv, Remember, NEW r \in Requests, BearerUser(r)
  PROVE  PipelineInv'
<1> DEFINE t == cred[r]
           user == Found(t, granted(t))
           none == [user EXCEPT !.privs = {}, !.user = {}]
<1>1. t \in Bearers /\ t \in Tokens /\ <<"token", Owner[t], t>> \in held[r]
  BY TokensAssumption DEF BearerUser, PipelineInv, Trusted, BearerOK
<1>2. LogIn(r, user, "check") \/ LogIn(r, none, "check")
  BY <1>1 DEF BearerUser, granted
<1>3. pc'[r] = "check" /\ UNCHANGED <<live, privileges>>
  BY <1>2 DEF LogIn, worldVars, PipelineInv, Located
<1>4. held[r] \subseteq held'[r] /\ UserFacts' \subseteq held'[r]
  BY <1>3, HeldGrows DEF Looking
<1>5. Owner[t] \in Users
  BY <1>1, TokensAssumption
<1>6. <<"token", Owner[t], t>> \in held'[r] /\ <<"rank", Owner[t], privileges[Owner[t]]>> \in held'[r]
  BY <1>1, <1>3, <1>4, <1>5 DEF UserFacts
<1>7. user \in MethodUser /\ UserOK(user, held'[r]) /\ none \in MethodUser /\ UserOK(none, held'[r])
  BY <1>1, <1>6, FoundOK
<1> HIDE DEF user, none
<1> QED BY <1>2, <1>7, LogInKeeps DEF BearerUser

\* The request may go on to its handler, or is refused.
LEMMA CheckKeeps ==
  ASSUME PipelineInv, Remember, NEW r \in Requests, Check(r)
  PROVE  PipelineInv'
<1>1. CASE Reject(r)
  BY <1>1, FinishKeeps DEF Check, Reject
<1>2. CASE /\ privilegesNeeded(endpoint[r]) \subseteq md[r].privs
           /\ Continue(r, "handler", Nobody, {})
  <2>1. /\ pc' = [pc EXCEPT ![r] = "handler"] /\ arg' = [arg EXCEPT ![r] = Nobody]
        /\ UNCHANGED <<calls, privileges, live, changes, endpoint, cred, md, answer>>
    BY <1>2 DEF Continue, worldVars
  <2>2. pc[r] = "check" /\ pc'[r] = "handler"
    BY <2>1 DEF Check, PipelineInv, Located
  <2>3. CaretakerTypeOK'
    BY <2>1 DEF PipelineInv, CaretakerTypeOK
  <2>4. Located'
    BY <2>1, <2>2 DEF PipelineInv, Located, Looking, Names
  <2>5. ASSUME NEW q \in Requests
        PROVE  pc[q] \in {"new", "done"} \/ held[q] \subseteq held'[q]
    BY <2>1, HeldGrows DEF PipelineInv, Located
  <2>6. ASSUME NEW q \in Requests
        PROVE  UserOK(md[q], held'[q])
    BY <2>5, AnonymousOK, UserKept DEF PipelineInv, Located, Trusted
  <2>7. ASSUME NEW q \in Requests
        PROVE  BearerOK(q)'
    BY <2>1, <2>5 DEF PipelineInv, Located, Trusted, BearerOK
  <2>8. DOMAIN held' = Requests
    BY DEF Remember
  <2>9. Trusted'
    BY <1>2, <2>1, <2>2, <2>6, <2>7, <2>8 DEF PipelineInv, Located, Trusted, Looking, UserOK
  <2> QED BY <2>3, <2>4, <2>9 DEF PipelineInv
<1> QED BY <1>1, <1>2 DEF Check

LEMMA TokenHandlersMove ==
  ASSUME NEW r, tokenHandlers(r)
  PROVE  Serving(r) /\ Moves(r)
<1>1. Serving(r)
  BY DEF tokenHandlers, TokenSelfDeletePOST, TokenSelfGET, TokenGET, Serves, Serving, Looking
<1>2. SUFFICES Moves(r)
  BY <1>1
<1>3. ASSUME NEW facts, Reply(r, facts) \/ Refuse(r)
      PROVE  Moves(r)
  BY <1>3 DEF Reply, Refuse, Moves
<1>4. CASE TokenSelfDeletePOST(r)
  BY <1>3, <1>4 DEF TokenSelfDeletePOST, Moves
<1>5. CASE TokenSelfGET(r)
  BY <1>3, <1>5 DEF TokenSelfGET
<1>6. CASE TokenGET(r)
  BY <1>3, <1>6 DEF TokenGET, ReplyRows
<1> QED BY <1>4, <1>5, <1>6 DEF tokenHandlers

LEMMA CaretakingKeeps ==
  ASSUME PipelineInv, NEW r \in Requests, Caretaking(r)
  PROVE  PipelineInv'
BY ReceiveKeeps, GetTokenFullKeeps, BearerScopeKeeps, BearerUserKeeps, CheckKeeps, MovesKeeps,
   TokenHandlersMove DEF Caretaking, caretaker

\* The environment leaves requests where they are.
LEMMA WorldKeeps ==
  ASSUME PipelineInv, World
  PROVE  PipelineInv'
<1>1. /\ UNCHANGED <<calls, endpoint, cred, md, pc, arg, answer>>
      /\ changes > 0 /\ changes' = changes - 1 /\ live' \subseteq live
  BY DEF World, ChangeUser, DropToken, MoveBoard, ChangeClan, worldVars, requestVars
<1>2. /\ privileges' \in [Users -> Ranks]
      /\ \A u \in Users : "AdminManageUsers" \in privileges'[u] => u \in Managers
  <2>1. CASE UNCHANGED privileges
    BY <2>1 DEF PipelineInv, CaretakerTypeOK, Trusted
  <2>2. CASE ChangeUser
    BY <2>2 DEF ChangeUser, PipelineInv, CaretakerTypeOK, Trusted
  <2> QED BY <2>1, <2>2 DEF World, DropToken, MoveBoard, ChangeClan
<1>3. CaretakerTypeOK'
  BY <1>1, <1>2 DEF PipelineInv, CaretakerTypeOK
<1>4. Located'
  BY <1>1 DEF PipelineInv, Located
<1>5. Remember
  BY DEF World
<1>6. ASSUME NEW q \in Requests
      PROVE  UserOK(md[q], held'[q])
  <2>1. pc[q] \in {"new", "done"} \/ held[q] \subseteq held'[q]
    BY <1>1, <1>5, HeldGrows
  <2> QED BY <2>1, AnonymousOK, UserKept DEF PipelineInv, Located, Trusted
<1>7. ASSUME NEW q \in Requests
      PROVE  BearerOK(q)'
  BY <1>1, <1>5, HeldGrows DEF PipelineInv, Trusted, BearerOK
<1>8. Trusted'
  BY <1>1, <1>2, <1>5, <1>6, <1>7 DEF PipelineInv, Trusted, Remember, UserOK
<1> QED BY <1>3, <1>4, <1>8 DEF PipelineInv

-----------------------------------------------------------------------------
(* What the handlers rest on.                                               *)

LEMMA AnswerMoves ==
  ASSUME NEW r, NEW facts, Reply(r, facts) \/ Refuse(r)
  PROVE  Moves(r)
BY DEF Reply, Refuse, Moves

LEMMA RowsMove ==
  ASSUME NEW r, NEW facts, ReplyRows(r, facts)
  PROVE  Moves(r)
BY AnswerMoves DEF ReplyRows

LEMMA RejectionMoves ==
  ASSUME NEW r, Reject(r)
  PROVE  Moves(r)
BY DEF Reject, Moves

LEMMA HalfReadMoves ==
  ASSUME NEW r, NEW facts, ReplyHalfRead(r, facts)
  PROVE  Moves(r)
BY AnswerMoves DEF ReplyHalfRead

LEMMA ContinueMoves ==
  ASSUME NEW r, NEW l, NEW x, NEW facts, Continue(r, l, x, facts), StepOf(l, endpoint[r]),
         Names(l, x, md[r].id)
  PROVE  Moves(r)
BY DEF Moves

\* The statements that matter to Names.
Naming == {"friends/add:relation", "friends/add:insert", "comments/post:me", "comments/post:open",
           "comments/post:insert", "comments/info:profile", "pin:pinned", "pin:insert",
           "unpin:delete", "comments/delete:row", "clans/stats:members"}

LEMMA FreelyMoves ==
  ASSUME NEW r, NEW l, NEW x, NEW facts, Continue(r, l, x, facts), StepOf(l, endpoint[r]),
         l \notin Naming
  PROVE  Moves(r)
<1>1. Names(l, x, md[r].id)
  BY DEF Names, Naming
<1> QED BY <1>1, ContinueMoves

\* A handler is at its first statement, or at another one of its own.
LEMMA HandlerSteps ==
  ASSUME PipelineInv, NEW r \in Requests, Serving(r)
  PROVE  /\ pc[r] # "handler" => StepOf(pc[r], endpoint[r])
         /\ Names(pc[r], arg[r], md[r].id)
BY DEF PipelineInv, Located, Serving

\* Who writes is a user.
LEMMA WriterIsUser ==
  ASSUME PipelineInv, NEW r \in Requests, Serving(r),
         endpoint[r] \in Write \/ endpoint[r] \in ReadConfidential
  PROVE  md[r].id \in Users
<1>1. privilegesNeeded(endpoint[r]) # {}
  <2>1. CASE endpoint[r] \in ReadConfidential
    BY <2>1 DEF privilegesNeeded, ReadConfidential, Write, Beatmap, ManageUser, Free
  <2>2. CASE endpoint[r] \in Write
    BY <2>2 DEF privilegesNeeded, ReadConfidential, Write, Beatmap, ManageUser, Free
  <2> QED BY <2>1, <2>2
<1>2. md[r] # Anonymous
  BY <1>1 DEF PipelineInv, Trusted, Serving, Anonymous
<1>3. md[r].token \in Tokens /\ md[r].id = Owner[md[r].token]
  BY <1>2 DEF PipelineInv, CaretakerTypeOK, MethodUser, Trusted, UserOK
<1> QED BY <1>3, TokensAssumption

-----------------------------------------------------------------------------
(* The handlers.                                                            *)

LEMMA UpdateTyped ==
  ASSUME NEW S, NEW T, NEW f \in [S -> T], NEW x, NEW y, x \in S => y \in T
  PROVE  [f EXCEPT ![x] = y] \in [S -> T]
OBVIOUS

LEMMA CountTyped ==
  ASSUME NEW S, NEW f \in [S -> Nat], NEW x
  PROVE  [f EXCEPT ![x] = @ + 1] \in [S -> Nat] /\ [f EXCEPT ![x] = 0] \in [S -> Nat]
<1>1. x \in S => f[x] + 1 \in Nat
  OBVIOUS
<1> QED BY <1>1, UpdateTyped

LEMMA RelationshipHandlersMove ==
  ASSUME PipelineInv, NEW r \in Requests, relationshipHandlers(r), RelationshipsTypeOK
  PROVE  Serving(r) /\ Moves(r) /\ RelationshipsTypeOK'
<1>1. Serving(r)
  BY DEF relationshipHandlers, FriendsGET, FriendsGETMine, FriendsWithGET, FriendsAddPOST,
         AddFriendExists, AddFriendInsert, FriendsDelPOST, FollowersGET, FollowersGETRows,
         FollowersGetResponse, FollowersGetResponseAll, Serves, Serving, Looking
<1>2. RelationshipsTypeOK'
  <2>1. CASE UNCHANGED rows
    BY <2>1 DEF RelationshipsTypeOK
  <2>2. CASE \E u : rows' = [rows EXCEPT ![<<md[r].id, u>>] = @ + 1]
    BY <2>2, CountTyped DEF RelationshipsTypeOK
  <2>3. CASE \E u : rows' = [rows EXCEPT ![<<md[r].id, u>>] = 0]
    BY <2>3, CountTyped DEF RelationshipsTypeOK
  <2> QED BY <2>1, <2>2, <2>3
          DEF relationshipHandlers, FriendsGET, FriendsGETMine, FriendsWithGET, FriendsAddPOST,
              AddFriendExists, AddFriendInsert, FriendsDelPOST, FollowersGET, FollowersGETRows,
              FollowersGetResponse, FollowersGetResponseAll
<1>3. SUFFICES Moves(r)
  BY <1>1, <1>2
<1>4. CASE FriendsGET(r)
  <2>1. StepOf("friends:mine", endpoint[r]) /\ "friends:mine" \notin Naming
    BY <1>4 DEF FriendsGET, Serves, StepOf, Naming
  <2> QED BY <1>4, <2>1, AnswerMoves, FreelyMoves DEF FriendsGET
<1>5. CASE FriendsGETMine(r)
  BY <1>5, AnswerMoves DEF FriendsGETMine
<1>6. CASE FriendsWithGET(r)
  BY <1>6, AnswerMoves DEF FriendsWithGET
<1>7. CASE FriendsAddPOST(r)
  <2>1. ASSUME NEW u \in Users \ {md[r].id}
        PROVE  Names("friends/add:relation", u, md[r].id)
    BY DEF Names
  <2>2. StepOf("friends/add:relation", endpoint[r])
    BY <1>7 DEF FriendsAddPOST, Serves, StepOf
  <2> QED BY <1>7, <2>1, <2>2, AnswerMoves, ContinueMoves DEF FriendsAddPOST
<1>8. CASE AddFriendExists(r)
  <2>1. endpoint[r] = "friends/add" /\ arg[r] \in Users \ {md[r].id}
    BY <1>1, <1>8, HandlerSteps DEF AddFriendExists, StepOf, Names
  <2>2. /\ StepOf("friends/add:insert", endpoint[r])
        /\ Names("friends/add:insert", arg[r], md[r].id)
    BY <2>1 DEF StepOf, Names
  <2> QED BY <1>8, <2>2, AnswerMoves, ContinueMoves DEF AddFriendExists
<1>9. CASE AddFriendInsert(r)
  BY <1>9, AnswerMoves DEF AddFriendInsert
<1>10. CASE FriendsDelPOST(r)
  BY <1>10, AnswerMoves DEF FriendsDelPOST
<1>11. CASE FollowersGET(r)
  <2>1. StepOf("followers_friends:rows", endpoint[r]) /\ "followers_friends:rows" \notin Naming
    BY <1>11 DEF FollowersGET, Serves, StepOf, Naming
  <2> QED BY <1>11, <2>1, AnswerMoves, FreelyMoves DEF FollowersGET
<1>12. CASE FollowersGETRows(r)
  BY <1>12, AnswerMoves DEF FollowersGETRows
<1>13. CASE FollowersGetResponse(r)
  <2>1. StepOf("followers:all", endpoint[r]) /\ "followers:all" \notin Naming
    BY <1>13 DEF FollowersGetResponse, Serves, StepOf, Naming
  <2> QED BY <1>13, <2>1, AnswerMoves, FreelyMoves DEF FollowersGetResponse
<1>14. CASE FollowersGetResponseAll(r)
  BY <1>14, AnswerMoves DEF FollowersGetResponseAll
<1> QED BY <1>4, <1>5, <1>6, <1>7, <1>8, <1>9, <1>10, <1>11, <1>12, <1>13, <1>14
        DEF relationshipHandlers

LEMMA ScoreTablesTyped ==
  ASSUME NEW r \in Requests, scoreHandlers(r), ScoresTypeOK
  PROVE  ScoresTypeOK'
<1>1. pinRows \in [Users \X Scores -> Nat] /\ anticheats \in [Anticheats -> Nat]
  BY DEF ScoresTypeOK
<1>2. CASE UNCHANGED tables
  BY <1>2 DEF tables, ScoresTypeOK
<1>3. CASE UserPinnedPOSTInsert(r)
  <2>1. UNCHANGED pinRows \/ \E p : pinRows' = [pinRows EXCEPT ![p] = @ + 1]
    BY <1>3 DEF UserPinnedPOSTInsert
  <2>2. pinRows' \in [Users \X Scores -> Nat]
    BY <1>1, <2>1, CountTyped
  <2> QED BY <1>3, <2>2 DEF UserPinnedPOSTInsert, ScoresTypeOK
<1>4. CASE UserPinnedDeletePOSTDelete(r)
  <2>1. UNCHANGED pinRows \/ \E p : pinRows' = [pinRows EXCEPT ![p] = 0]
    BY <1>4 DEF UserPinnedDeletePOSTDelete
  <2>2. pinRows' \in [Users \X Scores -> Nat]
    BY <1>1, <2>1, CountTyped
  <2> QED BY <1>4, <2>2 DEF UserPinnedDeletePOSTDelete, ScoresTypeOK
<1>5. CASE WipeUserPOSTCommit(r)
  <2>1. scores' \subseteq scores /\ counted' \subseteq counted
    BY <1>5 DEF WipeUserPOSTCommit
  <2>2. removed' \subseteq removed \cup scores
    BY <1>5 DEF WipeUserPOSTCommit
  <2>3. UNCHANGED <<pinRows, anticheats, reports, openTx>>
    BY <1>5 DEF WipeUserPOSTCommit
  <2> QED BY <2>1, <2>2, <2>3 DEF ScoresTypeOK
<1>6. CASE ScoreReportPOST(r)
  BY <1>6 DEF ScoreReportPOST, ScoresTypeOK
<1>7. CASE ScoreReportPOSTCommit(r)
  <2>1. \/ UNCHANGED anticheats
        \/ \E name : anticheats' = [anticheats EXCEPT ![name] = @ + 1]
    BY <1>7 DEF ScoreReportPOSTCommit
  <2>2. anticheats' \in [Anticheats -> Nat]
    BY <1>1, <2>1, CountTyped
  <2> QED BY <1>7, <2>2 DEF ScoreReportPOSTCommit, ScoresTypeOK
<1> QED BY <1>2, <1>3, <1>4, <1>5, <1>6, <1>7
        DEF scoreHandlers, ScoresGET, ScoresGETRows, UserScoresBestGET, UserScoresRecentGET,
            UserFirstGET, UserFirstGETRows, OldestFirstGET, OldestFirstGETRows, UserPinnedGET,
            PinnedScoreGET, UserPinnedPOST, UserPinnedPOSTPinned, UserPinnedDeletePOST, WipeUserPOST, WipeUserPOSTAnswer,
            ScoreReportPOSTAnticheat, ScoreReportPOSTInsert

LEMMA ScoreHandlersMove ==
  ASSUME PipelineInv, NEW r \in Requests, scoreHandlers(r), ScoresTypeOK
  PROVE  Serving(r) /\ Moves(r)
<1>1. Serving(r)
  BY DEF scoreHandlers, ScoresGET, ScoresGETRows, UserScoresBestGET, UserScoresRecentGET,
         UserFirstGET, UserFirstGETRows, OldestFirstGET, OldestFirstGETRows, UserPinnedGET,
         PinnedScoreGET, UserPinnedPOST, UserPinnedPOSTPinned, UserPinnedPOSTInsert, UserPinnedDeletePOST,
         UserPinnedDeletePOSTDelete, WipeUserPOST, WipeUserPOSTCommit, WipeUserPOSTAnswer,
         ScoreReportPOST, ScoreReportPOSTAnticheat, ScoreReportPOSTInsert, ScoreReportPOSTCommit,
         Serves, Serving, Looking
<1>2. SUFFICES Moves(r)
  BY <1>1
<1>3. CASE ScoresGET(r)
  <2>1. StepOf("scores:rows", endpoint[r]) /\ "scores:rows" \notin Naming
    BY <1>3 DEF ScoresGET, Serves, StepOf, Naming
  <2> QED BY <1>3, <2>1, AnswerMoves, FreelyMoves DEF ScoresGET
<1>4. CASE ScoresGETRows(r)
  BY <1>4, AnswerMoves, RowsMove DEF ScoresGETRows
<1>5. CASE UserScoresBestGET(r) \/ UserScoresRecentGET(r)
  BY <1>5, AnswerMoves, RowsMove DEF UserScoresBestGET, UserScoresRecentGET, userScoresPuts
<1>6. CASE UserFirstGET(r) \/ UserFirstGETRows(r) \/ OldestFirstGET(r) \/ OldestFirstGETRows(r)
  <2>1. CASE UserFirstGET(r)
    <3>1. StepOf("scores/first:rows", endpoint[r]) /\ "scores/first:rows" \notin Naming
      BY <2>1 DEF UserFirstGET, Serves, StepOf, Naming
    <3> QED BY <2>1, <3>1, AnswerMoves, FreelyMoves DEF UserFirstGET, CountThen
  <2>2. CASE OldestFirstGET(r)
    <3>1. StepOf("first/oldest:rows", endpoint[r]) /\ "first/oldest:rows" \notin Naming
      BY <2>2 DEF OldestFirstGET, Serves, StepOf, Naming
    <3> QED BY <2>2, <3>1, FreelyMoves DEF OldestFirstGET, CountThen
  <2>3. CASE UserFirstGETRows(r) \/ OldestFirstGETRows(r)
    <3>1. (\E facts : Reply(r, facts)) \/ Refuse(r)
      BY <2>3 DEF UserFirstGETRows, OldestFirstGETRows
    <3> QED BY <3>1, AnswerMoves
  <2> QED BY <1>6, <2>1, <2>2, <2>3
<1>7. CASE UserPinnedGET(r) \/ PinnedScoreGET(r)
  BY <1>7, AnswerMoves DEF UserPinnedGET, PinnedScoreGET
<1>8. CASE UserPinnedPOST(r)
  <2>1. ASSUME NEW s \in scores, Player[s] = md[r].id
        PROVE  Names("pin:pinned", s, md[r].id)
    BY <2>1 DEF Names, ScoresTypeOK
  <2>2. StepOf("pin:pinned", endpoint[r])
    BY <1>8 DEF UserPinnedPOST, Serves, StepOf
  <2> QED BY <1>8, <2>1, <2>2, AnswerMoves, ContinueMoves DEF UserPinnedPOST
<1>9. CASE UserPinnedPOSTPinned(r)
  <2>1. StepOf("pin:pinned", endpoint[r]) /\ Names("pin:pinned", arg[r], md[r].id)
    BY <1>1, <1>9, HandlerSteps DEF UserPinnedPOSTPinned
  <2>2. StepOf("pin:insert", endpoint[r]) /\ Names("pin:insert", arg[r], md[r].id)
    BY <2>1 DEF StepOf, Names
  <2> QED BY <1>9, <2>2, AnswerMoves, ContinueMoves DEF UserPinnedPOSTPinned
<1>10. CASE UserPinnedPOSTInsert(r) \/ UserPinnedDeletePOSTDelete(r)
  BY <1>10, AnswerMoves DEF UserPinnedPOSTInsert, UserPinnedDeletePOSTDelete
<1>11. CASE UserPinnedDeletePOST(r)
  <2>1. ASSUME NEW s \in Scores
        PROVE  Names("unpin:delete", s, md[r].id)
    BY DEF Names
  <2>2. StepOf("unpin:delete", endpoint[r])
    BY <1>11 DEF UserPinnedDeletePOST, Serves, StepOf
  <2> QED BY <1>11, <2>1, <2>2, AnswerMoves, ContinueMoves DEF UserPinnedDeletePOST
<1>12. CASE WipeUserPOST(r)
  <2>1. StepOf("wipe:tx", endpoint[r]) /\ "wipe:tx" \notin Naming
    BY <1>12 DEF WipeUserPOST, Serves, StepOf, Naming
  <2> QED BY <1>12, <2>1, AnswerMoves, FreelyMoves DEF WipeUserPOST
<1>13. CASE WipeUserPOSTCommit(r)
  <2>1. StepOf("wipe:tx", endpoint[r])
    BY <1>1, <1>13, HandlerSteps DEF WipeUserPOSTCommit
  <2>2. StepOf("wipe:user", endpoint[r]) /\ "wipe:user" \notin Naming
    BY <2>1 DEF StepOf, Naming
  <2>3. Continue(r, "wipe:user", arg[r], {}) \/ Refuse(r)
    BY <1>13 DEF WipeUserPOSTCommit
  <2> QED BY <2>2, <2>3, AnswerMoves, FreelyMoves
<1>14. CASE WipeUserPOSTAnswer(r)
  BY <1>14, AnswerMoves DEF WipeUserPOSTAnswer
<1>15. CASE ScoreReportPOST(r)
  <2>1. StepOf("reports:anticheat", endpoint[r]) /\ "reports:anticheat" \notin Naming
    BY <1>15 DEF ScoreReportPOST, Serves, StepOf, Naming
  <2> QED BY <1>15, <2>1, AnswerMoves, FreelyMoves DEF ScoreReportPOST
<1>16. CASE ScoreReportPOSTAnticheat(r)
  <2>1. StepOf("reports:anticheat", endpoint[r])
    BY <1>1, <1>16, HandlerSteps DEF ScoreReportPOSTAnticheat
  <2>2. ASSUME NEW l \in {"reports:new", "reports:insert"}
        PROVE  StepOf(l, endpoint[r]) /\ l \notin Naming
    BY <2>1 DEF StepOf, Naming
  <2>3. Refuse(r) \/ \E l \in {"reports:new", "reports:insert"} : \E x : Continue(r, l, x, {})
    BY <1>16 DEF ScoreReportPOSTAnticheat
  <2> QED BY <2>2, <2>3, AnswerMoves, FreelyMoves
<1>17. CASE ScoreReportPOSTInsert(r)
  <2>1. StepOf("reports:anticheat", endpoint[r])
    BY <1>1, <1>17, HandlerSteps DEF ScoreReportPOSTInsert, StepOf
  <2>2. ASSUME NEW l \in {"reports:commit", "reports:commit new"}
        PROVE  StepOf(l, endpoint[r]) /\ l \notin Naming
    BY <2>1 DEF StepOf, Naming
  <2>3. Refuse(r) \/ \E l \in {"reports:commit", "reports:commit new"} : \E x : Continue(r, l, x, {})
    BY <1>17 DEF ScoreReportPOSTInsert
  <2> QED BY <2>2, <2>3, AnswerMoves, FreelyMoves
<1>18. CASE ScoreReportPOSTCommit(r)
  BY <1>18, AnswerMoves DEF ScoreReportPOSTCommit
<1> QED BY <1>3, <1>4, <1>5, <1>6, <1>7, <1>8, <1>9, <1>10, <1>11, <1>12, <1>13, <1>14, <1>15,
           <1>16, <1>17, <1>18 DEF scoreHandlers

LEMMA CommentHandlersMove ==
  ASSUME PipelineInv, NEW r \in Requests, commentHandlers(r), CommentsTypeOK
  PROVE  Serving(r) /\ Moves(r) /\ CommentsTypeOK'
<1>1. Serving(r)
  BY DEF commentHandlers, CommentPOST, CommentPOSTMe, CommentPOSTOpen, CommentPOSTInsert,
         CommentGET, CommentGETRows, CommentDELETE, CommentDELETERow, CommentInfoGET,
         CommentInfoGETProfile, Serves, Serving, Looking
<1>2. ASSUME CommentPOSTInsert(r)
      PROVE  arg[r] \in Users /\ md[r].id \in Users
  <2>1. StepOf("comments/post:insert", endpoint[r]) /\ Names("comments/post:insert", arg[r], md[r].id)
    BY <1>1, <1>2, HandlerSteps DEF CommentPOSTInsert
  <2>2. endpoint[r] \in Write /\ arg[r] \in Users
    BY <2>1 DEF StepOf, Names, Write
  <2> QED BY <1>1, <2>2, WriterIsUser
<1>3. CommentsTypeOK'
  <2>1. CASE UNCHANGED <<comments, disabled>>
    BY <2>1 DEF CommentsTypeOK
  <2>2. CASE CommentPOSTInsert(r)
    <3>1. [id |-> r, op |-> md[r].id, prof |-> arg[r]] \in [id : CommentIds, op : Users, prof : Users]
      BY <1>2, <2>2 DEF CommentIds
    <3> QED BY <2>2, <3>1 DEF CommentPOSTInsert, CommentsTypeOK
  <2>3. CASE CommentDELETERow(r)
    BY <2>3 DEF CommentDELETERow, CommentsTypeOK
  <2> QED BY <2>1, <2>2, <2>3
          DEF commentHandlers, CommentPOST, CommentPOSTMe, CommentPOSTOpen, CommentGET,
              CommentGETRows, CommentDELETE, CommentInfoGET, CommentInfoGETProfile
<1>4. SUFFICES Moves(r)
  BY <1>1, <1>3
<1>5. CASE CommentPOST(r)
  <2>1. ASSUME NEW u \in Users
        PROVE  Names("comments/post:me", u, md[r].id)
    BY DEF Names
  <2>2. StepOf("comments/post:me", endpoint[r])
    BY <1>5 DEF CommentPOST, Serves, StepOf
  <2> QED BY <1>5, <2>1, <2>2, AnswerMoves, ContinueMoves DEF CommentPOST
<1>6. CASE CommentPOSTMe(r)
  <2>1. StepOf("comments/post:me", endpoint[r]) /\ Names("comments/post:me", arg[r], md[r].id)
    BY <1>1, <1>6, HandlerSteps DEF CommentPOSTMe
  <2>2. StepOf("comments/post:open", endpoint[r]) /\ Names("comments/post:open", arg[r], md[r].id)
    BY <2>1 DEF StepOf, Names
  <2> QED BY <1>6, <2>2, AnswerMoves, ContinueMoves DEF CommentPOSTMe
<1>7. CASE CommentPOSTOpen(r)
  <2>1. StepOf("comments/post:open", endpoint[r]) /\ Names("comments/post:open", arg[r], md[r].id)
    BY <1>1, <1>7, HandlerSteps DEF CommentPOSTOpen
  <2>2. StepOf("comments/post:insert", endpoint[r]) /\ Names("comments/post:insert", arg[r], md[r].id)
    BY <2>1 DEF StepOf, Names
  <2> QED BY <1>7, <2>2, AnswerMoves, ContinueMoves DEF CommentPOSTOpen
<1>8. CASE CommentPOSTInsert(r) \/ CommentGETRows(r) \/ CommentDELETERow(r) \/ CommentInfoGETProfile(r)
  BY <1>8, AnswerMoves
     DEF CommentPOSTInsert, CommentGETRows, CommentDELETERow, CommentInfoGETProfile
<1>9. CASE CommentGET(r)
  <2>1. StepOf("comments:rows", endpoint[r]) /\ "comments:rows" \notin Naming
    BY <1>9 DEF CommentGET, Serves, StepOf, Naming
  <2> QED BY <1>9, <2>1, AnswerMoves, FreelyMoves DEF CommentGET
<1>10. CASE CommentDELETE(r)
  <2>1. StepOf("comments/delete:row", endpoint[r])
    BY <1>10 DEF CommentDELETE, Serves, StepOf
  <2>2. ASSUME NEW c \in comments
        PROVE  Names("comments/delete:row", c.id, md[r].id)
    BY DEF Names, CommentsTypeOK
  <2> QED BY <1>10, <2>1, <2>2, AnswerMoves, ContinueMoves DEF CommentDELETE
<1>11. CASE CommentInfoGET(r)
  <2>1. /\ StepOf("comments/info:profile", endpoint[r])
        /\ \A u \in Users : Names("comments/info:profile", u, md[r].id)
    BY <1>11 DEF CommentInfoGET, Serves, StepOf, Names
  <2> QED BY <1>11, <2>1, AnswerMoves, ContinueMoves DEF CommentInfoGET
<1> QED BY <1>5, <1>6, <1>7, <1>8, <1>9, <1>10, <1>11 DEF commentHandlers

\* The statements of UsersSelfSettingsPOST and UserSelfUserpagePOST are of a user.
LEMMA SettingsAreOfUsers ==
  ASSUME PipelineInv, NEW r \in Requests,
         \/ Serves(r, "self/userpage") \/ Serves(r, "self/settings/post")
         \/ pc[r] \in {"self/settings/post:update", "self/settings/post:get", "self/userpage:get"}
  PROVE  md[r].id \in Users /\ endpoint[r] \in {"self/userpage", "self/settings/post"}
<1>1. Serving(r)
  BY DEF Serves, Serving, Looking
<1>2. endpoint[r] \in {"self/userpage", "self/settings/post"}
  BY <1>1, HandlerSteps DEF Serves, StepOf
<1>3. endpoint[r] \in Write
  BY <1>2 DEF Write
<1> QED BY <1>1, <1>2, <1>3, WriterIsUser

LEMMA ProfileTablesTyped ==
  ASSUME PipelineInv, NEW r \in Requests, profileHandlers(r), CommentsTypeOK, ProfilesTypeOK
  PROVE  CommentsTypeOK' /\ ProfilesTypeOK'
<1>1. CASE UNCHANGED <<comments, disabled, profile>>
  BY <1>1 DEF CommentsTypeOK, ProfilesTypeOK, profile
<1>2. CASE UserSelfUserpagePOST(r)
  <2>1. page' = page \/ \E text \in Texts : page' = [page EXCEPT ![md[r].id] = text]
    BY <1>2 DEF UserSelfUserpagePOST
  <2>2. page' \in [Users -> Texts]
    BY <2>1, UpdateTyped DEF ProfilesTypeOK
  <2> QED BY <1>2, <2>2 DEF UserSelfUserpagePOST, CommentsTypeOK, ProfilesTypeOK
<1>3. CASE UsersSelfSettingsPOSTUpdate(r)
  <2>1. aka' = aka \/ \E text \in Texts : aka' = [aka EXCEPT ![md[r].id] = text]
    BY <1>3 DEF UsersSelfSettingsPOSTUpdate
  <2>2. badge' = badge \/ \E text \in Texts : badge' = [badge EXCEPT ![md[r].id] = text]
    BY <1>3 DEF UsersSelfSettingsPOSTUpdate
  <2>3. aka' \in [Users -> Texts] /\ badge' \in [Users -> Texts]
    BY <2>1, <2>2, UpdateTyped DEF ProfilesTypeOK
  <2>4. md[r].id \in Users
    BY <1>3, SettingsAreOfUsers DEF UsersSelfSettingsPOSTUpdate
  <2>5. disabled' \subseteq disabled \cup {md[r].id}
    BY <1>3 DEF UsersSelfSettingsPOSTUpdate
  <2>6. UNCHANGED <<comments, page, board>>
    BY <1>3 DEF UsersSelfSettingsPOSTUpdate
  <2> QED BY <2>3, <2>4, <2>5, <2>6 DEF CommentsTypeOK, ProfilesTypeOK
<1> QED BY <1>1, <1>2, <1>3
        DEF profileHandlers, UsersGET, UserSelfGET, UserWhatsTheIDGET, UserFullGET,
            UserFullGETPositions, UserLookupGET, UserUserpageGET, UserSelfUserpagePOSTGet,
            UsersSelfSettingsPOST, UsersSelfSettingsGET, UsersSelfDonorInfoGET, LeaderboardGET,
            LeaderboardGETRows, fillLeaderboardRanks

LEMMA ProfileHandlersMove ==
  ASSUME PipelineInv, NEW r \in Requests, profileHandlers(r)
  PROVE  Serving(r) /\ Moves(r)
<1>1. Serving(r)
  BY DEF profileHandlers, UsersGET, UserSelfGET, UserWhatsTheIDGET, UserFullGET,
         UserFullGETPositions, UserLookupGET, UserUserpageGET, UserSelfUserpagePOST,
         UserSelfUserpagePOSTGet, UsersSelfSettingsPOST, UsersSelfSettingsPOSTUpdate,
         UsersSelfSettingsGET, UsersSelfDonorInfoGET, LeaderboardGET, LeaderboardGETRows,
         fillLeaderboardRanks, Serves, Serving, Looking
<1>2. SUFFICES Moves(r)
  BY <1>1
<1>3. CASE UsersGET(r) \/ UserSelfGET(r) \/ UserWhatsTheIDGET(r) \/ UserLookupGET(r)
  BY <1>3, AnswerMoves, RowsMove DEF UsersGET, UserSelfGET, UserWhatsTheIDGET, UserLookupGET
<1>4. CASE UserFullGET(r)
  <2>1. StepOf("users/full:positions", endpoint[r]) /\ "users/full:positions" \notin Naming
    BY <1>4 DEF UserFullGET, Serves, StepOf, Naming
  <2> QED BY <1>4, <2>1, AnswerMoves, FreelyMoves DEF UserFullGET
<1>5. CASE UserFullGETPositions(r) \/ fillLeaderboardRanks(r)
  BY <1>5, AnswerMoves DEF UserFullGETPositions, fillLeaderboardRanks
<1>6. CASE UserUserpageGET(r) \/ UserSelfUserpagePOSTGet(r)
  BY <1>6, AnswerMoves DEF UserUserpageGET, UserSelfUserpagePOSTGet, userpage
<1>7. CASE UserSelfUserpagePOST(r)
  <2>1. StepOf("self/userpage:get", endpoint[r]) /\ "self/userpage:get" \notin Naming
    BY <1>7 DEF UserSelfUserpagePOST, Serves, StepOf, Naming
  <2> QED BY <1>7, <2>1, AnswerMoves, FreelyMoves DEF UserSelfUserpagePOST
<1>8. CASE UsersSelfSettingsPOST(r)
  <2>1. StepOf("self/settings/post:update", endpoint[r]) /\ "self/settings/post:update" \notin Naming
    BY <1>8 DEF UsersSelfSettingsPOST, Serves, StepOf, Naming
  <2> QED BY <1>8, <2>1, FreelyMoves DEF UsersSelfSettingsPOST
<1>9. CASE UsersSelfSettingsPOSTUpdate(r)
  <2>1. StepOf("self/settings/post:update", endpoint[r])
    BY <1>1, <1>9, HandlerSteps DEF UsersSelfSettingsPOSTUpdate
  <2>2. StepOf("self/settings/post:get", endpoint[r]) /\ "self/settings/post:get" \notin Naming
    BY <2>1 DEF StepOf, Naming
  <2> QED BY <1>9, <2>2, AnswerMoves, FreelyMoves DEF UsersSelfSettingsPOSTUpdate
<1>10. CASE UsersSelfSettingsGET(r) \/ UsersSelfDonorInfoGET(r)
  BY <1>10, AnswerMoves DEF UsersSelfSettingsGET, UsersSelfDonorInfoGET
<1>11. CASE LeaderboardGET(r)
  <2>1. StepOf("leaderboard:rows", endpoint[r]) /\ "leaderboard:rows" \notin Naming
    BY <1>11 DEF LeaderboardGET, Serves, StepOf, Naming
  <2> QED BY <1>11, <2>1, AnswerMoves, RowsMove, FreelyMoves DEF LeaderboardGET
<1>12. CASE LeaderboardGETRows(r)
  <2>1. StepOf("leaderboard:rows", endpoint[r])
    BY <1>1, <1>12, HandlerSteps DEF LeaderboardGETRows
  <2>2. StepOf("leaderboard:ranks", endpoint[r]) /\ "leaderboard:ranks" \notin Naming
    BY <2>1 DEF StepOf, Naming
  <2> QED BY <1>12, <2>2, AnswerMoves, FreelyMoves DEF LeaderboardGETRows
<1> QED BY <1>3, <1>4, <1>5, <1>6, <1>7, <1>8, <1>9, <1>10, <1>11, <1>12 DEF profileHandlers

LEMMA BeatmapHandlersMove ==
  ASSUME PipelineInv, NEW r \in Requests, beatmapHandlers(r), BeatmapsTypeOK
  PROVE  Serving(r) /\ Moves(r) /\ BeatmapsTypeOK'
<1>1. Serving(r)
  BY DEF beatmapHandlers, BeatmapSetStatusPOST, BeatmapSetStatusPOSTUpdate,
         BeatmapSetStatusPOSTGet, BeatmapGET, BeatmapRankedFrozenFullGET, BeatmapSearchGET,
         Serves, Serving, Looking
<1>2. BeatmapsTypeOK'
  <2>1. CASE UNCHANGED mapStatus
    BY <2>1 DEF BeatmapsTypeOK
  <2>2. CASE \E new \in OtherStatus : \E set :
               mapStatus' = [m \in Maps |-> IF SetOf[m] = set THEN new ELSE mapStatus[m]]
    BY <2>2, MapsAssumption DEF BeatmapsTypeOK
  <2> QED BY <2>1, <2>2
          DEF beatmapHandlers, BeatmapSetStatusPOST, BeatmapSetStatusPOSTUpdate,
              BeatmapSetStatusPOSTGet, BeatmapGET, BeatmapRankedFrozenFullGET, BeatmapSearchGET
<1>3. SUFFICES Moves(r)
  BY <1>1, <1>2
<1>4. CASE BeatmapSetStatusPOST(r)
  <2>1. StepOf("beatmaps/set_status:update", endpoint[r]) /\ "beatmaps/set_status:update" \notin Naming
    BY <1>4 DEF BeatmapSetStatusPOST, Serves, StepOf, Naming
  <2> QED BY <1>4, <2>1, AnswerMoves, FreelyMoves DEF BeatmapSetStatusPOST
<1>5. CASE BeatmapSetStatusPOSTUpdate(r)
  <2>1. StepOf("beatmaps/set_status:update", endpoint[r])
    BY <1>1, <1>5, HandlerSteps DEF BeatmapSetStatusPOSTUpdate
  <2>2. StepOf("beatmaps/set_status:get", endpoint[r]) /\ "beatmaps/set_status:get" \notin Naming
    BY <2>1 DEF StepOf, Naming
  <2> QED BY <1>5, <2>2, FreelyMoves DEF BeatmapSetStatusPOSTUpdate
<1>6. CASE BeatmapSetStatusPOSTGet(r) \/ BeatmapGET(r) \/ BeatmapRankedFrozenFullGET(r)
  BY <1>6, AnswerMoves, RowsMove
     DEF BeatmapSetStatusPOSTGet, BeatmapGET, BeatmapRankedFrozenFullGET
<1>7. CASE BeatmapSearchGET(r)
  <2>1. (\E facts : Reply(r, facts)) \/ Refuse(r)
    BY <1>7 DEF BeatmapSearchGET
  <2> QED BY <2>1, AnswerMoves
<1> QED BY <1>4, <1>5, <1>6, <1>7 DEF beatmapHandlers

LEMMA ClanHandlersMove ==
  ASSUME PipelineInv, NEW r \in Requests, clanHandlers(r), ClansTypeOK
  PROVE  Serving(r) /\ Moves(r) /\ ClansTypeOK'
<1>1. Serving(r)
  BY DEF clanHandlers, ClansGET, ClanMembersGET, IsInClanGET, ClanInviteGET, ClanInviteGETInvite,
         ClanStatsGET, TotalClanStatsGET, AllClanStatsGET, Serves, Serving, Looking
<1>2. UNCHANGED userClans
  BY DEF clanHandlers, ClansGET, ClanMembersGET, IsInClanGET, ClanInviteGET, ClanInviteGETInvite,
         ClanStatsGET, TotalClanStatsGET, AllClanStatsGET
<1>3. ClansTypeOK'
  BY <1>2 DEF ClansTypeOK, userClans
<1>4. SUFFICES Moves(r)
  BY <1>1, <1>3
<1>5. CASE ClansGET(r) \/ ClanMembersGET(r) \/ IsInClanGET(r) \/ ClanInviteGETInvite(r)
  BY <1>5, AnswerMoves, HalfReadMoves DEF ClansGET, ClanMembersGET, IsInClanGET, ClanInviteGETInvite
<1>6. CASE ClanInviteGET(r)
  <2>1. StepOf("clans/getinvite:invite", endpoint[r]) /\ "clans/getinvite:invite" \notin Naming
    BY <1>6 DEF ClanInviteGET, Serves, StepOf, Naming
  <2> QED BY <1>6, <2>1, AnswerMoves, FreelyMoves DEF ClanInviteGET
<1>7. CASE ClanStatsGET(r)
  <2>1. StepOf("clans/stats:members", endpoint[r])
    BY <1>7 DEF ClanStatsGET, Serves, StepOf
  <2>2. ASSUME NEW list \in ClanLists
        PROVE  Names("clans/stats:members", list, md[r].id)
    BY DEF Names
  <2> QED BY <1>7, <2>1, <2>2, AnswerMoves, ContinueMoves DEF ClanStatsGET
<1>8. CASE TotalClanStatsGET(r) \/ AllClanStatsGET(r)
  <2>1. (\E facts : Reply(r, facts)) \/ Refuse(r) \/ Reject(r)
    BY <1>8 DEF TotalClanStatsGET, AllClanStatsGET
  <2> QED BY <2>1, AnswerMoves, RejectionMoves
<1> QED BY <1>5, <1>6, <1>7, <1>8 DEF clanHandlers

-----------------------------------------------------------------------------
(* The theorems.                                                            *)

TablesTypeOK ==
  /\ RelationshipsTypeOK
  /\ ScoresTypeOK
  /\ CommentsTypeOK
  /\ ProfilesTypeOK
  /\ BeatmapsTypeOK
  /\ ClansTypeOK

ServiceInv == PipelineInv /\ TablesTypeOK

\* The start of the pipeline.
LEMMA InitPipeline ==
  ASSUME Init
  PROVE  PipelineInv
<1>1. PICK start \in Starts : calls = start.calls /\ changes = start.changes
  BY DEF Init
<1>2. CaretakerTypeOK
  BY <1>1, StartsAssumption, TokensAssumption, AnonymousTyped DEF Init, CaretakerInit, CaretakerTypeOK
<1>3. Located
  BY DEF Init, CaretakerInit, Located, Looking, Names
<1>4. Trusted
  BY AnonymousOK DEF Init, CaretakerInit, Trusted, BearerOK, Looking
<1> QED BY <1>2, <1>3, <1>4 DEF PipelineInv

\* The start of the tables.
LEMMA InitTables ==
  ASSUME Init
  PROVE  TablesTypeOK
<1>1. PICK start \in Starts :
        /\ rows = start.rows /\ scores = start.scores /\ pinRows = start.pinRows
        /\ counted = {"stats", "playcounts"} \X Users \X Modes
        /\ comments = start.comments /\ disabled = start.disabled
        /\ page = [u \in Users |-> start.text] /\ aka = page /\ badge = page
        /\ board = start.board /\ mapStatus = start.mapStatus
        /\ clanOf = start.clanOf /\ admins = start.admins
  BY DEF Init
<1>2. RelationshipsTypeOK
  BY <1>1, StartsAssumption DEF RelationshipsTypeOK
<1>3. ScoresTypeOK
  <2>1. anticheats \in [Anticheats -> Nat] /\ removed = {} /\ reports = {} /\ openTx = {}
    BY DEF Init
  <2>2. scores \subseteq Scores /\ pinRows \in [Users \X Scores -> Nat]
    BY <1>1, StartsAssumption
  <2> QED BY <1>1, <2>1, <2>2 DEF ScoresTypeOK
<1>4. CommentsTypeOK
  <2>1. comments \subseteq [id : OldComments, op : Users, prof : Users] /\ disabled \subseteq Users
    BY <1>1, StartsAssumption
  <2> QED BY <2>1 DEF CommentsTypeOK, CommentIds
<1>5. ProfilesTypeOK
  <2>1. start.text \in Texts /\ start.board \in Boards
    BY StartsAssumption
  <2> QED BY <1>1, <2>1 DEF ProfilesTypeOK
<1>6. BeatmapsTypeOK
  BY <1>1, StartsAssumption DEF BeatmapsTypeOK
<1>7. ClansTypeOK
  <2>1. /\ start.clanOf \in [Users -> ClanIds \cup {NoClan}]
        /\ start.admins \subseteq {u \in Users : start.clanOf[u] # NoClan}
    BY StartsAssumption
  <2> QED BY <1>1, <2>1 DEF ClansTypeOK
<1> QED BY <1>2, <1>3, <1>4, <1>5, <1>6, <1>7 DEF TablesTypeOK

LEMMA WorldTables ==
  ASSUME World, TablesTypeOK
  PROVE  TablesTypeOK'
<1>1. RelationshipsTypeOK'
  BY DEF World, TablesTypeOK, RelationshipsTypeOK
<1>2. ScoresTypeOK'
  BY DEF World, TablesTypeOK, ScoresTypeOK, tables
<1>3. CommentsTypeOK'
  BY DEF World, TablesTypeOK, CommentsTypeOK
<1>4. ProfilesTypeOK'
  <2>1. CASE UNCHANGED profile
    BY <2>1 DEF TablesTypeOK, ProfilesTypeOK, profile
  <2>2. CASE MoveBoard
    BY <2>2 DEF MoveBoard, TablesTypeOK, ProfilesTypeOK
  <2> QED BY <2>1, <2>2 DEF World
<1>5. BeatmapsTypeOK'
  BY DEF World, TablesTypeOK, BeatmapsTypeOK
<1>6. ClansTypeOK'
  <2>1. CASE UNCHANGED userClans
    BY <2>1 DEF TablesTypeOK, ClansTypeOK, userClans
  <2>2. CASE ChangeClan
    <3>1. PICK u \in Users, c \in ClanIds \cup {NoClan} :
            clanOf' = [clanOf EXCEPT ![u] = c] /\ admins' = admins \ {u}
      BY <2>2 DEF ChangeClan
    <3> QED BY <3>1 DEF TablesTypeOK, ClansTypeOK
  <2> QED BY <2>1, <2>2 DEF World
<1> QED BY <1>1, <1>2, <1>3, <1>4, <1>5, <1>6 DEF TablesTypeOK

LEMMA StepKeeps ==
  ASSUME ServiceInv, Next
  PROVE  ServiceInv'
<1>1. ASSUME NEW r \in Requests, Caretaking(r)
      PROVE  ServiceInv'
  <2>1. PipelineInv'
    BY <1>1, CaretakingKeeps DEF ServiceInv
  <2>2. UNCHANGED <<rows, tables, comments, disabled, profile, mapStatus, userClans>>
    BY <1>1 DEF Caretaking
  <2>3. RelationshipsTypeOK' /\ ScoresTypeOK' /\ CommentsTypeOK'
    BY <2>2 DEF ServiceInv, TablesTypeOK, RelationshipsTypeOK, ScoresTypeOK, tables, CommentsTypeOK
  <2>4. ProfilesTypeOK' /\ BeatmapsTypeOK' /\ ClansTypeOK'
    BY <2>2 DEF ServiceInv, TablesTypeOK, ProfilesTypeOK, profile, BeatmapsTypeOK, ClansTypeOK, userClans
  <2> QED BY <2>1, <2>3, <2>4 DEF ServiceInv, TablesTypeOK
<1>2. ASSUME NEW r \in Requests, ServeRelationships(r)
      PROVE  ServiceInv'
  <2>1. PipelineInv' /\ RelationshipsTypeOK'
    BY <1>2, RelationshipHandlersMove, MovesKeeps DEF ServeRelationships, ServiceInv, TablesTypeOK
  <2>2. ScoresTypeOK' /\ CommentsTypeOK'
    BY <1>2 DEF ServeRelationships, ServiceInv, TablesTypeOK, ScoresTypeOK, tables, CommentsTypeOK
  <2>3. ProfilesTypeOK' /\ BeatmapsTypeOK' /\ ClansTypeOK'
    BY <1>2 DEF ServeRelationships, ServiceInv, TablesTypeOK, ProfilesTypeOK, profile,
                BeatmapsTypeOK, ClansTypeOK, userClans
  <2> QED BY <2>1, <2>2, <2>3 DEF ServiceInv, TablesTypeOK
<1>3. ASSUME NEW r \in Requests, ServeScores(r)
      PROVE  ServiceInv'
  <2>1. PipelineInv' /\ ScoresTypeOK'
    BY <1>3, ScoreHandlersMove, ScoreTablesTyped, MovesKeeps DEF ServeScores, ServiceInv, TablesTypeOK
  <2>2. RelationshipsTypeOK' /\ CommentsTypeOK'
    BY <1>3 DEF ServeScores, ServiceInv, TablesTypeOK, RelationshipsTypeOK, CommentsTypeOK
  <2>3. ProfilesTypeOK' /\ BeatmapsTypeOK' /\ ClansTypeOK'
    BY <1>3 DEF ServeScores, ServiceInv, TablesTypeOK, ProfilesTypeOK, profile,
                BeatmapsTypeOK, ClansTypeOK, userClans
  <2> QED BY <2>1, <2>2, <2>3 DEF ServiceInv, TablesTypeOK
<1>4. ASSUME NEW r \in Requests, ServeComments(r)
      PROVE  ServiceInv'
  <2>1. PipelineInv' /\ CommentsTypeOK'
    BY <1>4, CommentHandlersMove, MovesKeeps DEF ServeComments, ServiceInv, TablesTypeOK
  <2>2. RelationshipsTypeOK' /\ ScoresTypeOK'
    BY <1>4 DEF ServeComments, ServiceInv, TablesTypeOK, RelationshipsTypeOK, ScoresTypeOK, tables
  <2>3. ProfilesTypeOK' /\ BeatmapsTypeOK' /\ ClansTypeOK'
    BY <1>4 DEF ServeComments, ServiceInv, TablesTypeOK, ProfilesTypeOK, profile,
                BeatmapsTypeOK, ClansTypeOK, userClans
  <2> QED BY <2>1, <2>2, <2>3 DEF ServiceInv, TablesTypeOK
<1>5. ASSUME NEW r \in Requests, ServeProfiles(r)
      PROVE  ServiceInv'
  <2>1. PipelineInv' /\ CommentsTypeOK' /\ ProfilesTypeOK'
    BY <1>5, ProfileHandlersMove, ProfileTablesTyped, MovesKeeps
       DEF ServeProfiles, ServiceInv, TablesTypeOK
  <2>2. RelationshipsTypeOK' /\ ScoresTypeOK'
    BY <1>5 DEF ServeProfiles, ServiceInv, TablesTypeOK, RelationshipsTypeOK, ScoresTypeOK, tables
  <2>3. BeatmapsTypeOK' /\ ClansTypeOK'
    BY <1>5 DEF ServeProfiles, ServiceInv, TablesTypeOK, BeatmapsTypeOK, ClansTypeOK, userClans
  <2> QED BY <2>1, <2>2, <2>3 DEF ServiceInv, TablesTypeOK
<1>6. ASSUME NEW r \in Requests, ServeBeatmaps(r)
      PROVE  ServiceInv'
  <2>1. PipelineInv' /\ BeatmapsTypeOK'
    BY <1>6, BeatmapHandlersMove, MovesKeeps DEF ServeBeatmaps, ServiceInv, TablesTypeOK
  <2>2. RelationshipsTypeOK' /\ ScoresTypeOK' /\ CommentsTypeOK'
    BY <1>6 DEF ServeBeatmaps, ServiceInv, TablesTypeOK, RelationshipsTypeOK, ScoresTypeOK, tables,
                CommentsTypeOK
  <2>3. ProfilesTypeOK' /\ ClansTypeOK'
    BY <1>6 DEF ServeBeatmaps, ServiceInv, TablesTypeOK, ProfilesTypeOK, profile, ClansTypeOK, userClans
  <2> QED BY <2>1, <2>2, <2>3 DEF ServiceInv, TablesTypeOK
<1>7. ASSUME NEW r \in Requests, ServeClans(r)
      PROVE  ServiceInv'
  <2>1. PipelineInv' /\ ClansTypeOK'
    BY <1>7, ClanHandlersMove, MovesKeeps DEF ServeClans, ServiceInv, TablesTypeOK
  <2>2. RelationshipsTypeOK' /\ ScoresTypeOK' /\ CommentsTypeOK'
    BY <1>7 DEF ServeClans, ServiceInv, TablesTypeOK, RelationshipsTypeOK, ScoresTypeOK, tables,
                CommentsTypeOK
  <2>3. ProfilesTypeOK' /\ BeatmapsTypeOK'
    BY <1>7 DEF ServeClans, ServiceInv, TablesTypeOK, ProfilesTypeOK, profile, BeatmapsTypeOK
  <2> QED BY <2>1, <2>2, <2>3 DEF ServiceInv, TablesTypeOK
<1>8. CASE World
  BY <1>8, WorldKeeps, WorldTables DEF ServiceInv
<1> QED BY <1>1, <1>2, <1>3, <1>4, <1>5, <1>6, <1>7, <1>8 DEF Next

LEMMA StutterKeeps ==
  ASSUME ServiceInv, UNCHANGED vars
  PROVE  ServiceInv'
<1>1. PipelineInv'
  BY DEF ServiceInv, PipelineInv, CaretakerTypeOK, Located, Trusted, BearerOK, vars, worldVars, requestVars
<1>2. RelationshipsTypeOK' /\ ScoresTypeOK' /\ CommentsTypeOK'
  BY DEF ServiceInv, TablesTypeOK, RelationshipsTypeOK, ScoresTypeOK, tables, CommentsTypeOK, vars
<1>3. ProfilesTypeOK' /\ BeatmapsTypeOK' /\ ClansTypeOK'
  BY DEF ServiceInv, TablesTypeOK, ProfilesTypeOK, profile, BeatmapsTypeOK, ClansTypeOK, userClans, vars
<1> QED BY <1>1, <1>2, <1>3 DEF ServiceInv, TablesTypeOK

\* The inductive invariant holds.
THEOREM Invariance == Spec => []ServiceInv
<1>1. Init => ServiceInv
  BY InitPipeline, InitTables DEF ServiceInv
<1>2. ServiceInv /\ [Next]_vars => ServiceInv'
  BY StepKeeps, StutterKeeps
<1> QED BY <1>1, <1>2, PTL DEF Spec

\* Requests, users, tokens and tables keep their types, whatever the calls.
THEOREM TypeCorrect == Spec => []TypeOK
<1>1. ServiceInv => TypeOK
  BY DEF ServiceInv, PipelineInv, TablesTypeOK, TypeOK
<1> QED BY <1>1, Invariance, PTL

\* A request acts for the owner of a token that was there, within what the token
\* grants and what one rank of the owner allowed while the request ran.
THEOREM EntitledAlways == Spec => []Entitled
<1>1. ASSUME ServiceInv, NEW r \in Requests, md[r].token # NoToken
      PROVE  \E rank \in RanksHeld(r, md[r].id) :
               md[r].privs \subseteq CanOnly(granted(md[r].token), rank)
  <2>1. PICK rank \in Ranks : /\ <<"rank", md[r].id, rank>> \in held[r]
                              /\ md[r].privs \subseteq CanOnly(granted(md[r].token), rank)
    BY <1>1 DEF ServiceInv, PipelineInv, Trusted, UserOK
  <2>2. rank \in RanksHeld(r, md[r].id)
    BY <2>1 DEF RanksHeld
  <2> QED BY <2>1, <2>2
<1>2. ServiceInv => Entitled
  <2> SUFFICES ASSUME ServiceInv PROVE Entitled
    OBVIOUS
  <2>1. ASSUME NEW r \in Requests
        PROVE  /\ md[r].token = NoToken => md[r] = Anonymous
               /\ md[r].token # NoToken =>
                    md[r].id = Owner[md[r].token] /\ <<"token", md[r].id, md[r].token>> \in held[r]
               /\ pc[r] \notin Looking \cup {"done"} =>
                    privilegesNeeded(endpoint[r]) \subseteq md[r].privs
    BY DEF ServiceInv, PipelineInv, Trusted, UserOK
  <2> QED BY <1>1, <2>1 DEF Entitled, granted
<1> QED BY <1>2, Invariance, PTL

\* A page of clans lies within the n clans, unless its start has wrapped around,
\* which takes a product that no int can hold.
THEOREM PagesInBounds ==
  ASSUME NEW p \in 0..(MaxInt - 1), NEW l \in PageSizes, NEW n \in Nat
  PROVE  IF pageStart(p, l, n) < 0 THEN p * l > MaxInt
         ELSE pageStart(p, l, n) <= pageEnd(p, l, n) /\ pageEnd(p, l, n) <= n
<1>1. MaxInt \in Nat /\ l \in Nat /\ p \in Nat
  BY ClansAssumption
<1> DEFINE x == p * l
           i == int(x)
<1>2. x \in Nat
  BY <1>1
<1>3. i \in Int /\ (i < 0 => x > MaxInt)
  <2> HIDE DEF x
  <2>1. CASE x <= MaxInt
    <3>1. (x + MaxInt + 1) % (2 * (MaxInt + 1)) = x + MaxInt + 1
      BY <1>1, <1>2, <2>1
    <3> QED BY <1>1, <1>2, <3>1 DEF int
  <2>2. CASE x > MaxInt
    BY <1>1, <1>2, <2>2 DEF int
  <2> QED BY <1>1, <1>2, <2>1, <2>2
<1> HIDE DEF i
<1> QED BY <1>1, <1>3 DEF i, pageStart, pageEnd

-----------------------------------------------------------------------------
(* What is shown of restricted users.                                       *)

\* The fact y may be shown to r, when the facts were there.
Shows(r, y, facts) ==
  LET me == md[r].id IN
  y[1] \in Kept =>
    /\ \/ <<"public", y[2], y[2]>> \in facts
       \/ y[2] = me
       \/ /\ \E rank : <<"rank", me, rank>> \in facts /\ "AdminManageUsers" \in rank
          /\ endpoint[r] # "scores"
    /\ y[1] = "email" =>
         \/ y[2] = me
         \/ \E rank : <<"rank", me, rank>> \in facts /\ privilegeMustBe["ManageUser"] \subseteq rank

Publics == {<<"public", u, u>> : u \in {u \in Users : "UserPublic" \in privileges[u]}}

\* The fact y may be shown to r now.
MayShow(r, y) == Shows(r, y, held[r] \cup Publics)

\* What a request has read it may show, and pins are of the user's scores.
SeenInv ==
  /\ DOMAIN seen = Requests
  /\ \A r \in Requests : IF Serving(r) THEN \A y \in seen[r] : Shows(r, y, held[r]) ELSE seen[r] = {}
PinsInv == \A u \in Users, s \in Scores : pinRows[<<u, s>>] > 0 => Player[s] = u

VisibilityInv == ServiceInv /\ SeenInv /\ PinsInv

\* The handler of r goes on, or the request is answered, with what may be shown.
Discloses(r) ==
  \/ \E l, x, facts : /\ Continue(r, l, x, facts) /\ l \notin Looking \cup {"done"}
                      /\ \A y \in facts : MayShow(r, y)
  \/ \E status, facts : Finish(r, status, facts) /\ \A y \in facts : MayShow(r, y)

LEMMA ShowsMore ==
  ASSUME NEW r, NEW y, NEW f, NEW g, f \subseteq g, Shows(r, y, f)
  PROVE  Shows(r, y, g)
BY DEF Shows

LEMMA SeenShown ==
  ASSUME VisibilityInv, NEW r \in Requests, NEW y \in seen[r]
  PROVE  MayShow(r, y)
<1>1. Shows(r, y, held[r])
  BY DEF VisibilityInv, SeenInv
<1> QED BY <1>1, ShowsMore DEF MayShow

LEMMA UnkeptShown ==
  ASSUME NEW r, NEW kind, kind \notin Kept, NEW u, NEW z
  PROVE  MayShow(r, <<kind, u, z>>)
BY DEF MayShow, Shows

LEMMA OwnShown ==
  ASSUME NEW r, NEW kind, NEW z
  PROVE  MayShow(r, <<kind, md[r].id, z>>)
BY DEF MayShow, Shows

LEMMA PublicShown ==
  ASSUME NEW r, NEW kind, kind # "email", NEW u \in Users, "UserPublic" \in privileges[u], NEW z
  PROVE  MayShow(r, <<kind, u, z>>)
BY DEF MayShow, Shows, Publics

\* Who manages users had a rank for it while the request ran.
LEMMA ManagerShown ==
  ASSUME VisibilityInv, NEW r \in Requests, ManagesUsers(md[r]), endpoint[r] # "scores",
         NEW kind, kind # "email", NEW u, NEW z
  PROVE  MayShow(r, <<kind, u, z>>)
<1>1. <<"rank", md[r].id, md[r].user>> \in held[r] /\ "AdminManageUsers" \in md[r].user
  BY DEF VisibilityInv, ServiceInv, PipelineInv, Trusted, UserOK, ManagesUsers
<1> QED BY <1>1 DEF MayShow, Shows

LEMMA VisibleShown ==
  ASSUME VisibilityInv, NEW r \in Requests, NEW kind, kind # "email", NEW u \in Users, NEW z,
         \/ Visible(r, u, FALSE)
         \/ Visible(r, u, TRUE) /\ endpoint[r] # "scores"
  PROVE  MayShow(r, <<kind, u, z>>)
BY PublicShown, OwnShown, ManagerShown DEF Visible

\* A token with ManageUser had an owner with the rank for it while the request ran.
LEMMA ManageUserRank ==
  ASSUME VisibilityInv, NEW r \in Requests, "ManageUser" \in md[r].privs
  PROVE  \E rank : <<"rank", md[r].id, rank>> \in held[r] /\ privilegeMustBe["ManageUser"] \subseteq rank
<1>1. md[r].token # NoToken
  <2>1. md[r] # Anonymous
    BY DEF Anonymous
  <2> QED BY <2>1 DEF VisibilityInv, ServiceInv, PipelineInv, Trusted, UserOK
<1>2. PICK rank \in Ranks : /\ <<"rank", md[r].id, rank>> \in held[r]
                            /\ md[r].privs \subseteq CanOnly(granted(md[r].token), rank)
  BY <1>1 DEF VisibilityInv, ServiceInv, PipelineInv, Trusted, UserOK
<1> QED BY <1>2 DEF CanOnly

LEMMA ForManagersShown ==
  ASSUME VisibilityInv, NEW r \in Requests, "ManageUser" \in md[r].privs, endpoint[r] # "scores",
         NEW kind, NEW u, NEW z
  PROVE  MayShow(r, <<kind, u, z>>)
<1>1. "AdminManageUsers" \in privilegeMustBe["ManageUser"]
  BY DEF privilegeMustBe
<1> QED BY <1>1, ManageUserRank DEF MayShow, Shows

LEMMA AnswerDiscloses ==
  ASSUME NEW r, NEW facts, Reply(r, facts), \A y \in facts : MayShow(r, y)
  PROVE  Discloses(r)
BY DEF Reply, Discloses

LEMMA NothingDiscloses ==
  ASSUME NEW r, Reply(r, {})
  PROVE  Discloses(r)
BY AnswerDiscloses

LEMMA RefusalDiscloses ==
  ASSUME NEW r, Refuse(r)
  PROVE  Discloses(r)
BY DEF Refuse, Discloses

LEMMA RowsDisclose ==
  ASSUME NEW r, NEW facts, ReplyRows(r, facts), \A y \in facts : MayShow(r, y)
  PROVE  Discloses(r)
BY AnswerDiscloses DEF ReplyRows

LEMMA RejectionDiscloses ==
  ASSUME NEW r, Reject(r)
  PROVE  Discloses(r)
BY DEF Reject, Discloses

LEMMA UnreadShown ==
  ASSUME NEW r
  PROVE  MayShow(r, Unread)
BY UnkeptShown DEF Unread, Kept

\* The rows of a query, some of them half read, after what was read before.
LEMMA HalfReadDiscloses ==
  ASSUME NEW r, NEW before, NEW facts, NEW some \in SUBSET facts, NEW gap \in Gaps(facts),
         Reply(r, before \cup some \cup gap), \A y \in before \cup facts : MayShow(r, y)
  PROVE  Discloses(r)
<1>1. \A y \in gap : MayShow(r, y)
  BY UnreadShown DEF Gaps
<1> QED BY <1>1, AnswerDiscloses

LEMMA ContinueDiscloses ==
  ASSUME NEW r, NEW l, NEW x, NEW facts, Continue(r, l, x, facts), l \notin Looking \cup {"done"},
         \A y \in facts : MayShow(r, y)
  PROVE  Discloses(r)
BY DEF Discloses

LEMMA FactDiscloses ==
  ASSUME NEW r, NEW l, NEW x, NEW y, Continue(r, l, x, {y}), l \notin Looking \cup {"done"},
         MayShow(r, y)
  PROVE  Discloses(r)
<1>1. \A z \in {y} : MayShow(r, z)
  OBVIOUS
<1> QED BY <1>1, ContinueDiscloses

\* Relationships shows nobody but the friend that is about to be added.
LEMMA RelationshipsDisclose ==
  ASSUME VisibilityInv, NEW r \in Requests, relationshipHandlers(r), Serving(r)
  PROVE  Discloses(r)
<1>1. \A a, b : /\ MayShow(r, Friend(a, b)) /\ MayShow(r, Relation(a, b))
                /\ MayShow(r, <<"stranger", a, b>>)
                /\ MayShow(r, NotFollowedCount(a)) /\ MayShow(r, FollowersCount(a))
  BY UnkeptShown DEF Friend, Relation, NotFollowedCount, FollowersCount, Kept
<1>2. \A y \in seen[r] : MayShow(r, y)
  BY SeenShown
<1> DEFINE me == md[r].id
           u == arg[r]
<1>3. CASE FriendsGET(r)
  <2>1. "friends:mine" \notin Looking \cup {"done"}
    BY DEF Looking
  <2>2. \A y \in {Relation(b, me) : b \in Users} : MayShow(r, y)
    BY <1>1
  <2>3. ASSUME NEW some
        PROVE  \A y \in {Friend(b, me) : b \in some} \cup {Unread} : MayShow(r, y)
    BY <1>1, UnreadShown
  <2> QED BY <1>3, <2>1, <2>2, <2>3, RefusalDiscloses, ContinueDiscloses DEF FriendsGET
<1>4. CASE FriendsGETMine(r)
  <2> DEFINE mine == {b \in Users : Befriended(me, b)}
             listed(some) == {Friend(me, b) : b \in some}
             mutual(some) == UNION {Mutual(r, b) : b \in some}
  <2>1. ASSUME NEW some
        PROVE  \A y \in listed(some) : MayShow(r, y)
    BY <1>1
  <2>2. ASSUME NEW some
        PROVE  \A y \in mutual(some) : MayShow(r, y)
    <3>1. UNION {Mutual(r, b) : b \in some} \subseteq seen[r]
      BY DEF Mutual
    <3> QED BY <1>2, <3>1, Zenon
  <2>3. ASSUME NEW gap \in Gaps(mine)
        PROVE  \A y \in gap : MayShow(r, y)
    BY UnreadShown DEF Gaps
  <2>4. \/ Refuse(r)
        \/ \E some \in SUBSET mine, gap \in Gaps(mine) :
             Reply(r, listed(some) \cup gap \cup mutual(some))
    BY <1>4, Zenon DEF FriendsGETMine
  <2> HIDE DEF mine, listed, mutual
  <2>5. ASSUME NEW some, NEW gap \in Gaps(mine)
        PROVE  \A y \in listed(some) \cup gap \cup mutual(some) : MayShow(r, y)
    BY <2>1, <2>2, <2>3
  <2> QED BY <2>4, <2>5, RefusalDiscloses, AnswerDiscloses
<1>5. CASE FriendsWithGET(r)
  <2>1. ASSUME NEW v
        PROVE  \A y \in {Relation(me, v)} \cup (IF Befriended(me, v) THEN {Relation(v, me)} ELSE {}) :
                 MayShow(r, y)
    BY <1>1
  <2> QED BY <1>5, <2>1, RefusalDiscloses, NothingDiscloses, AnswerDiscloses DEF FriendsWithGET
<1>6. CASE FriendsAddPOST(r)
  <2>1. ASSUME NEW v \in Users, Visible(r, v, TRUE)
        PROVE  \A y \in {<<"user", v, v>>} : MayShow(r, y)
    BY <1>6, <2>1, VisibleShown DEF FriendsAddPOST, Serves
  <2>2. "friends/add:relation" \notin Looking \cup {"done"}
    BY DEF Looking
  <2> QED BY <1>6, <2>1, <2>2, RefusalDiscloses, ContinueDiscloses DEF FriendsAddPOST
<1>7. CASE AddFriendExists(r)
  <2>1. \A y \in seen[r] \cup {Friend(me, u), Relation(u, me)} : MayShow(r, y)
    BY <1>1, <1>2
  <2>2. "friends/add:insert" \notin Looking \cup {"done"} /\ \A y \in {Relation(u, me)} : MayShow(r, y)
    BY <1>1 DEF Looking
  <2> QED BY <1>7, <2>1, <2>2, RefusalDiscloses, AnswerDiscloses, ContinueDiscloses DEF AddFriendExists
<1>8. CASE AddFriendInsert(r)
  <2>1. \A y \in seen[r] \cup {Friend(me, u)} : MayShow(r, y)
    BY <1>1, <1>2
  <2> QED BY <1>8, <2>1, RefusalDiscloses, AnswerDiscloses DEF AddFriendInsert
<1>9. CASE FriendsDelPOST(r)
  <2>1. ASSUME NEW v
        PROVE  \A y \in {<<"stranger", me, v>>} : MayShow(r, y)
    BY <1>1
  <2> QED BY <1>9, <2>1, RefusalDiscloses, NothingDiscloses, AnswerDiscloses DEF FriendsDelPOST
<1>10. CASE FollowersGET(r)
  <2>1. "followers_friends:rows" \notin Looking \cup {"done"}
    BY DEF Looking
  <2>2. \A y \in {Relation(me, b) : b \in Users} : MayShow(r, y)
    BY <1>1
  <2> QED BY <1>10, <2>1, <2>2, RefusalDiscloses, ContinueDiscloses DEF FollowersGET
<1>11. CASE FollowersGETRows(r)
  <2> DEFINE listed(some) == {Friend(b, me) : b \in some}
             subbed(some) == UNION {Subbed(r, b) : b \in some}
  <2>1. ASSUME NEW some
        PROVE  \A y \in listed(some) : MayShow(r, y)
    BY <1>1
  <2>2. ASSUME NEW some
        PROVE  \A y \in subbed(some) : MayShow(r, y)
    <3>1. \A y \in {<<"stranger", me, b>> : b \in some} : MayShow(r, y)
      BY <1>1
    <3>2. UNION {Subbed(r, b) : b \in some} \subseteq seen[r] \cup {<<"stranger", me, b>> : b \in some}
      BY DEF Subbed
    <3> QED BY <1>2, <3>1, <3>2, Zenon
  <2>3. ASSUME NEW gap \in Gaps(NotFollowed(me))
        PROVE  \A y \in gap : MayShow(r, y)
    BY UnreadShown DEF Gaps
  <2>4. \/ Refuse(r)
        \/ \E some \in SUBSET NotFollowed(me), gap \in Gaps(NotFollowed(me)) :
             Reply(r, listed(some) \cup gap \cup subbed(some))
    BY <1>11, Zenon DEF FollowersGETRows
  <2> HIDE DEF listed, subbed
  <2>5. ASSUME NEW some, NEW gap \in Gaps(NotFollowed(me))
        PROVE  \A y \in listed(some) \cup gap \cup subbed(some) : MayShow(r, y)
    BY <2>1, <2>2, <2>3
  <2> QED BY <2>4, <2>5, RefusalDiscloses, AnswerDiscloses
<1>12. CASE FollowersGetResponse(r)
  <2>1. "followers:all" \notin Looking \cup {"done"}
    BY DEF Looking
  <2>2. ASSUME NEW v
        PROVE  \A y \in {NotFollowedCount(v)} : MayShow(r, y)
    BY <1>1
  <2> QED BY <1>12, <2>1, <2>2, RefusalDiscloses, ContinueDiscloses DEF FollowersGetResponse
<1>13. CASE FollowersGetResponseAll(r)
  <2>1. \A y \in seen[r] \cup {FollowersCount(arg[r])} : MayShow(r, y)
    BY <1>1, <1>2
  <2> QED BY <1>13, <2>1, RefusalDiscloses, AnswerDiscloses DEF FollowersGetResponseAll
<1> QED BY <1>3, <1>4, <1>5, <1>6, <1>7, <1>8, <1>9, <1>10, <1>11, <1>12, <1>13
        DEF relationshipHandlers

\* Scores shows the scores of visible users, and the user to be wiped to a manager.
LEMMA ScoresDisclose ==
  ASSUME VisibilityInv, NEW r \in Requests, scoreHandlers(r), Serving(r)
  PROVE  Discloses(r)
<1>1. \A y \in seen[r] : MayShow(r, y)
  BY SeenShown
<1>2. scores \subseteq Scores /\ \A s \in Scores : Player[s] \in Users
  BY ScoresAssumption DEF VisibilityInv, ServiceInv, TablesTypeOK, ScoresTypeOK
<1>3. \A u, s : MayShow(r, Pin(u, s)) /\ MayShow(r, <<"first", u, s>>)
  BY UnkeptShown DEF Pin, Kept
<1>4. ASSUME NEW s \in scores, \/ Visible(r, Player[s], FALSE)
                               \/ Visible(r, Player[s], TRUE) /\ endpoint[r] # "scores"
      PROVE  MayShow(r, Score(s))
  BY <1>2, <1>4, VisibleShown DEF Score
<1>5. CASE ScoresGET(r)
  <2>1. "scores:rows" \notin Looking \cup {"done"} /\ \A y \in {} : MayShow(r, y)
    BY DEF Looking
  <2> QED BY <1>5, <2>1, RefusalDiscloses, NothingDiscloses, ContinueDiscloses DEF ScoresGET
<1>6. CASE ScoresGETRows(r)
  <2>1. ASSUME NEW t
        PROVE  \A y \in {Score(s) : s \in {s \in scores : /\ ScoreTable[s] = t
                                                          /\ Completed[s] = 3
                                                          /\ Visible(r, Player[s], FALSE)}} :
                 MayShow(r, y)
    BY <1>4
  <2> QED BY <1>6, <2>1, RefusalDiscloses, RowsDisclose DEF ScoresGETRows
<1>7. CASE UserScoresBestGET(r) \/ UserScoresRecentGET(r)
  <2> DEFINE shown(some, u, t) == {s \in some \cap scores : /\ Player[s] = u
                                                            /\ ScoreTable[s] = t
                                                            /\ Visible(r, u, TRUE)}
  <2>1. endpoint[r] # "scores"
    BY <1>7 DEF UserScoresBestGET, UserScoresRecentGET, Serves
  <2>2. PICK some : userScoresPuts(r, some)
    BY <1>7 DEF UserScoresBestGET, UserScoresRecentGET
  <2>3. ASSUME NEW u \in Users, NEW t \in 0..2, ReplyRows(r, {Score(s) : s \in shown(some, u, t)})
        PROVE  Discloses(r)
    <3>1. \A y \in {Score(s) : s \in shown(some, u, t)} : MayShow(r, y)
      BY <1>4, <2>1
    <3> QED BY <2>3, <3>1, RowsDisclose
  <2> QED BY <2>2, <2>3, RefusalDiscloses DEF userScoresPuts
<1>8. CASE UserFirstGET(r) \/ OldestFirstGET(r)
  <2>1. \A u, t, m : MayShow(r, FirstsOf(u, t, m)) /\ MayShow(r, FirstsOfNormal(t)) /\ MayShow(r, Unread)
    BY UnkeptShown, UnreadShown DEF FirstsOf, FirstsOfNormal, Kept
  <2>2. \A l \in {"scores/first:rows", "first/oldest:rows"} : l \notin Looking \cup {"done"}
    BY DEF Looking
  <2> QED BY <1>8, <2>1, <2>2, RefusalDiscloses, FactDiscloses DEF UserFirstGET, OldestFirstGET, CountThen
<1>9. CASE UserFirstGETRows(r) \/ OldestFirstGETRows(r)
  <2>1. ASSUME NEW found, \A y \in found : MayShow(r, y),
               \E some \in SUBSET found, gap \in Gaps(found) : Reply(r, seen[r] \cup some \cup gap)
        PROVE  Discloses(r)
    BY <1>1, <2>1, HalfReadDiscloses
  <2>2. CASE UserFirstGETRows(r)
    <3> DEFINE u == arg[r][1]
               mine == {<<"first", u, s>> : s \in {s \in firstPlaces(arg[r][2], arg[r][3]) : Player[s] = u}}
    <3>1. \A y \in mine : MayShow(r, y)
      BY <1>3
    <3>2. \/ \E some \in SUBSET mine, gap \in Gaps(mine) : Reply(r, seen[r] \cup some \cup gap)
          \/ Refuse(r)
      BY <2>2, Zenon DEF UserFirstGETRows
    <3> HIDE DEF mine
    <3> QED BY <2>1, <3>1, <3>2, RefusalDiscloses
  <2>3. CASE OldestFirstGETRows(r)
    <3> DEFINE found == {<<"first", Player[s], s>> : s \in {s \in firstPlaces(arg[r][2], arg[r][3]) :
                           "UserNormal" \in privileges[Player[s]]}}
    <3>1. \A y \in found : MayShow(r, y)
      BY <1>3
    <3>2. \/ \E some \in SUBSET found, gap \in Gaps(found) : Reply(r, seen[r] \cup some \cup gap)
          \/ Refuse(r)
      BY <2>3, Zenon DEF OldestFirstGETRows
    <3> HIDE DEF found
    <3> QED BY <2>1, <3>1, <3>2, RefusalDiscloses
  <2> QED BY <1>9, <2>2, <2>3
<1>10. CASE UserPinnedGET(r)
  <2> DEFINE pinned(u, t) == {s \in scores : Pinned(u, s) /\ ScoreTable[s] = t /\ Visible(r, u, TRUE)}
             shown(u, some) == {Pin(u, s) : s \in some} \cup {Score(s) : s \in some}
  <2>1. endpoint[r] # "scores"
    BY <1>10 DEF UserPinnedGET, Serves
  <2>2. ASSUME NEW u \in Users, NEW t \in 0..2, NEW some \in SUBSET pinned(u, t), Reply(r, shown(u, some))
        PROVE  Discloses(r)
    <3>1. ASSUME NEW s \in some
          PROVE  MayShow(r, Score(s))
      <4>1. s \in scores /\ Player[s] = u /\ Visible(r, u, TRUE)
        BY <1>2 DEF Pinned, VisibilityInv, PinsInv
      <4> QED BY <1>4, <2>1, <4>1
    <3>2. \A y \in shown(u, some) : MayShow(r, y)
      BY <1>3, <3>1
    <3> QED BY <2>2, <3>2, AnswerDiscloses
  <2>3. \/ \E u \in Users, t \in 0..2 : \E some \in SUBSET pinned(u, t) : Reply(r, shown(u, some))
        \/ Refuse(r)
    BY <1>10, Zenon DEF UserPinnedGET
  <2> HIDE DEF pinned, shown
  <2>4. CASE Refuse(r)
    BY <2>4, RefusalDiscloses
  <2>5. CASE \E u \in Users, t \in 0..2 : \E some \in SUBSET pinned(u, t) : Reply(r, shown(u, some))
    BY <2>2, <2>5, Zenon
  <2> QED BY <2>3, <2>4, <2>5
<1>11. CASE PinnedScoreGET(r)
  <2>1. ASSUME NEW u, NEW s, Reply(r, {Pin(u, s)})
        PROVE  Discloses(r)
    <3>1. \A y \in {Pin(u, s)} : MayShow(r, y)
      BY <1>3
    <3> QED BY <2>1, <3>1, AnswerDiscloses
  <2> QED BY <1>11, <2>1, RefusalDiscloses DEF PinnedScoreGET
<1>12. CASE UserPinnedPOST(r)
  <2>1. "pin:pinned" \notin Looking \cup {"done"}
    BY DEF Looking
  <2>2. ASSUME NEW s \in scores, Player[s] = md[r].id
        PROVE  \A y \in {Score(s)} : MayShow(r, y)
    BY <2>2, OwnShown DEF Score
  <2> QED BY <1>12, <2>1, <2>2, RefusalDiscloses, ContinueDiscloses DEF UserPinnedPOST
<1>13. CASE UserPinnedPOSTPinned(r)
  <2>1. "pin:insert" \notin Looking \cup {"done"} /\ \A y \in {} : MayShow(r, y)
    BY DEF Looking
  <2> QED BY <1>13, <2>1, RefusalDiscloses, ContinueDiscloses DEF UserPinnedPOSTPinned
<1>14. CASE UserPinnedPOSTInsert(r) \/ UserPinnedDeletePOSTDelete(r) \/ WipeUserPOSTAnswer(r)
  BY <1>1, <1>14, RefusalDiscloses, AnswerDiscloses
     DEF UserPinnedPOSTInsert, UserPinnedDeletePOSTDelete, WipeUserPOSTAnswer
<1>15. CASE UserPinnedDeletePOST(r)
  <2>1. "unpin:delete" \notin Looking \cup {"done"}
    BY DEF Looking
  <2>2. ASSUME NEW s
        PROVE  \A y \in {Pin(md[r].id, s)} : MayShow(r, y)
    BY <1>3
  <2> QED BY <1>15, <2>1, <2>2, RefusalDiscloses, ContinueDiscloses DEF UserPinnedDeletePOST
<1>16. CASE WipeUserPOST(r)
  <2>1. endpoint[r] = "wipe" /\ "wipe:tx" \notin Looking \cup {"done"}
    BY <1>16 DEF WipeUserPOST, Serves, Looking
  <2>2. privilegesNeeded("wipe") = {"ManageUser"}
    BY DEF privilegesNeeded, ReadConfidential, Write, Beatmap, ManageUser, Free
  <2>3. "ManageUser" \in md[r].privs
    BY <2>1, <2>2 DEF VisibilityInv, ServiceInv, PipelineInv, Trusted, Serving
  <2>4. ASSUME NEW u
        PROVE  \A y \in {<<"user", u, u>>} : MayShow(r, y)
    BY <2>1, <2>3, ForManagersShown
  <2> QED BY <1>16, <2>1, <2>4, RefusalDiscloses, ContinueDiscloses DEF WipeUserPOST
<1>17. ASSUME NEW l, l \notin Looking \cup {"done"}, NEW x, Continue(r, l, x, {})
       PROVE  Discloses(r)
  <2>1. \A y \in {} : MayShow(r, y)
    OBVIOUS
  <2> QED BY <1>17, <2>1, ContinueDiscloses
<1>18. CASE WipeUserPOSTCommit(r)
  <2>1. Continue(r, "wipe:user", arg[r], {}) \/ Refuse(r)
    BY <1>18 DEF WipeUserPOSTCommit
  <2> QED BY <1>17, <2>1, RefusalDiscloses DEF Looking
<1>19. CASE ScoreReportPOST(r)
  <2>1. Continue(r, "reports:anticheat", Nobody, {}) \/ Refuse(r)
    BY <1>19 DEF ScoreReportPOST
  <2> QED BY <1>17, <2>1, RefusalDiscloses DEF Looking
<1>20. CASE ScoreReportPOSTAnticheat(r)
  <2>1. Refuse(r) \/ \E l \in {"reports:new", "reports:insert"} : \E x : Continue(r, l, x, {})
    BY <1>20 DEF ScoreReportPOSTAnticheat
  <2> QED BY <1>17, <2>1, RefusalDiscloses DEF Looking
<1>21. CASE ScoreReportPOSTInsert(r)
  <2>1. Refuse(r) \/ \E l \in {"reports:commit", "reports:commit new"} : \E x : Continue(r, l, x, {})
    BY <1>21 DEF ScoreReportPOSTInsert
  <2> QED BY <1>17, <2>1, RefusalDiscloses DEF Looking
<1>22. CASE ScoreReportPOSTCommit(r)
  BY <1>22, RefusalDiscloses, NothingDiscloses DEF ScoreReportPOSTCommit
<1> QED BY <1>5, <1>6, <1>7, <1>8, <1>9, <1>10, <1>11, <1>12, <1>13, <1>14, <1>15, <1>16, <1>18,
           <1>19, <1>20, <1>21, <1>22 DEF scoreHandlers

\* Comments shows comments of public users, and visible profiles.
LEMMA CommentsDisclose ==
  ASSUME VisibilityInv, NEW r \in Requests, commentHandlers(r), Serving(r)
  PROVE  Discloses(r)
<1>1. \A y \in seen[r] : MayShow(r, y)
  BY SeenShown
<1>2. \A u, n : MayShow(r, <<"public", u, n>>) /\ MayShow(r, <<"disabled", u, n>>)
                /\ MayShow(r, Total(u)) /\ MayShow(r, Open(u))
  BY UnkeptShown DEF Total, Open, Kept
<1>3. comments \subseteq [id : CommentIds, op : Users, prof : Users]
  BY DEF VisibilityInv, ServiceInv, TablesTypeOK, CommentsTypeOK
<1>4. \A l \in {"comments/post:me", "comments/post:open", "comments/post:insert", "comments:rows",
                "comments/delete:row", "comments/info:profile"} : l \notin Looking \cup {"done"}
  BY DEF Looking
<1>5. endpoint[r] \in {"comments", "comments/info"} => endpoint[r] # "scores"
  OBVIOUS
<1>6. CASE CommentPOST(r)
  <2>1. ASSUME NEW u \in Users, Continue(r, "comments/post:me", u, {<<"public", u, u>>})
        PROVE  Discloses(r)
    BY <1>2, <1>4, <2>1, FactDiscloses
  <2> QED BY <1>6, <2>1, RefusalDiscloses DEF CommentPOST
<1>7. CASE CommentPOSTMe(r)
  BY <1>2, <1>4, <1>7, FactDiscloses, RefusalDiscloses DEF CommentPOSTMe
<1>8. CASE CommentPOSTOpen(r)
  BY <1>2, <1>4, <1>8, FactDiscloses, RefusalDiscloses DEF CommentPOSTOpen
<1>9. CASE CommentPOSTInsert(r)
  BY <1>1, <1>9, AnswerDiscloses, RefusalDiscloses DEF CommentPOSTInsert
<1>10. CASE CommentGET(r)
  <2>1. ASSUME NEW u \in Users, Visible(r, u, TRUE),
               Continue(r, "comments:rows", u, {<<"user", u, u>>})
        PROVE  Discloses(r)
    <3>1. \A y \in {<<"user", u, u>>} : MayShow(r, y)
      BY <1>10, <2>1, VisibleShown DEF CommentGET, Serves
    <3> QED BY <1>4, <2>1, <3>1, ContinueDiscloses
  <2> QED BY <1>10, <2>1, RefusalDiscloses DEF CommentGET
<1>11. CASE CommentGETRows(r)
  <2>1. ASSUME NEW some \in SUBSET Readable(arg[r]),
               Reply(r, seen[r] \cup {Comment(c) : c \in some})
        PROVE  Discloses(r)
    <3>1. ASSUME NEW c \in some
          PROVE  MayShow(r, Comment(c))
      <4>1. c.op \in Users /\ "UserPublic" \in privileges[c.op]
        BY <1>3 DEF Readable
      <4> QED BY <4>1, PublicShown DEF Comment
    <3>2. \A y \in seen[r] \cup {Comment(c) : c \in some} : MayShow(r, y)
      BY <1>1, <3>1
    <3> QED BY <2>1, <3>2, AnswerDiscloses
  <2> QED BY <1>11, <2>1, RefusalDiscloses DEF CommentGETRows
<1>12. CASE CommentDELETE(r)
  <2>1. ASSUME NEW x, Continue(r, "comments/delete:row", x, {})
        PROVE  Discloses(r)
    BY <1>4, <2>1, ContinueDiscloses
  <2> QED BY <1>12, <2>1, RefusalDiscloses DEF CommentDELETE
<1>13. CASE CommentDELETERow(r)
  <2>1. \A y \in {NoComment(arg[r])} : MayShow(r, y)
    BY UnkeptShown DEF NoComment, Kept
  <2> QED BY <1>13, <2>1, AnswerDiscloses, RefusalDiscloses DEF CommentDELETERow
<1>14. CASE CommentInfoGET(r)
  <2>1. ASSUME NEW u \in Users, Continue(r, "comments/info:profile", u, {Total(u)})
        PROVE  Discloses(r)
    BY <1>2, <1>4, <2>1, FactDiscloses
  <2> QED BY <1>14, <2>1, RefusalDiscloses DEF CommentInfoGET
<1>15. CASE CommentInfoGETProfile(r)
  <2> DEFINE u == arg[r]
             shown == seen[r] \cup {<<"user", u, u>>,
                                    IF u \in disabled THEN <<"disabled", u, u>> ELSE Open(u)}
  <2>1. ASSUME Visible(r, u, TRUE), Reply(r, shown)
        PROVE  Discloses(r)
    <3>1. u \in Users /\ endpoint[r] # "scores"
      BY <1>15 DEF CommentInfoGETProfile, VisibilityInv, ServiceInv, PipelineInv, Located,
            Names, StepOf, Looking
    <3>2. MayShow(r, <<"user", u, u>>)
      BY <2>1, <3>1, VisibleShown
    <3>3. \A y \in shown : MayShow(r, y)
      BY <1>1, <1>2, <3>2
    <3> QED BY <2>1, <3>3, AnswerDiscloses
  <2> QED BY <1>15, <2>1, RefusalDiscloses DEF CommentInfoGETProfile
<1> QED BY <1>6, <1>7, <1>8, <1>9, <1>10, <1>11, <1>12, <1>13, <1>14, <1>15 DEF commentHandlers

\* Profiles shows visible users, and e-mail addresses to those who manage users.
LEMMA ProfilesDisclose ==
  ASSUME VisibilityInv, NEW r \in Requests, profileHandlers(r), Serving(r)
  PROVE  Discloses(r)
<1> USE DEF Kept
<1>1. \A y \in seen[r] : MayShow(r, y)
  BY SeenShown
<1>2. ASSUME NEW u, NEW z
      PROVE  /\ MayShow(r, <<"public", u, z>>) /\ MayShow(r, <<"page", u, z>>)
             /\ MayShow(r, <<"aka", u, z>>) /\ MayShow(r, <<"badge", u, z>>)
             /\ MayShow(r, <<"badger", u, z>>) /\ MayShow(r, <<"donor", u, z>>)
             /\ MayShow(r, <<"disabled", u, z>>) /\ MayShow(r, Open(u))
             /\ MayShow(r, <<"listed", u, z>>) /\ MayShow(r, <<"position", u, z>>)
  BY UnkeptShown DEF Open
<1>3. \A l \in {"users/full:positions", "self/userpage:get", "self/settings/post:update",
                "self/settings/post:get", "leaderboard:rows", "leaderboard:ranks"} :
        l \notin Looking \cup {"done"}
  BY DEF Looking
<1>4. ASSUME NEW u \in Users, Visible(r, u, TRUE), endpoint[r] # "scores"
      PROVE  MayShow(r, User(u)) /\ \A y \in UserAndEmail(r, u) : MayShow(r, y)
  <2>1. MayShow(r, User(u))
    BY <1>4, VisibleShown DEF User
  <2>2. CASE "ManageUser" \in md[r].privs
    BY <1>4, <2>1, <2>2, ForManagersShown DEF UserAndEmail, Email
  <2>3. CASE "ManageUser" \notin md[r].privs
    BY <2>1, <2>3 DEF UserAndEmail
  <2> QED BY <2>1, <2>2, <2>3
<1>5. ASSUME NEW l \in {"self/userpage:get", "self/settings/post:get", "leaderboard:rows",
                        "leaderboard:ranks"},
             NEW x, Continue(r, l, x, {})
      PROVE  Discloses(r)
  BY <1>3, <1>5, ContinueDiscloses
<1>6. \A p \in Position : MayShow(r, p)
  BY <1>2 DEF Position
<1>7. CASE UsersGET(r)
  <2>1. \A y \in {User(u) : u \in {u \in Users : Visible(r, u, TRUE)}} : MayShow(r, y)
    BY <1>4, <1>7 DEF UsersGET, Serves
  <2> QED BY <1>7, <2>1, RowsDisclose, RefusalDiscloses DEF UsersGET
<1>8. CASE UserSelfGET(r)
  <2>1. \A y \in {User(md[r].id)} : MayShow(r, y)
    BY OwnShown DEF User
  <2> QED BY <1>8, <2>1, AnswerDiscloses, RefusalDiscloses DEF UserSelfGET
<1>9. CASE UserWhatsTheIDGET(r)
  <2>1. ASSUME NEW u \in Users, "UserPublic" \in privileges[u] \/ ManagesUsers(md[r]),
               Reply(r, {User(u)})
        PROVE  Discloses(r)
    <3>1. MayShow(r, User(u))
      BY <1>9, <2>1, PublicShown, ManagerShown DEF UserWhatsTheIDGET, Serves, User
    <3>2. \A y \in {User(u)} : MayShow(r, y)
      BY <3>1
    <3> QED BY <2>1, <3>2, AnswerDiscloses
  <2> QED BY <1>9, <2>1, RefusalDiscloses DEF UserWhatsTheIDGET
<1>10. CASE UserFullGET(r)
  <2>1. ASSUME NEW u \in Users, Visible(r, u, TRUE),
               Continue(r, "users/full:positions", u, UserAndEmail(r, u))
        PROVE  Discloses(r)
    <3>1. \A y \in UserAndEmail(r, u) : MayShow(r, y)
      BY <1>4, <1>10, <2>1 DEF UserFullGET, Serves
    <3> QED BY <1>3, <2>1, <3>1, ContinueDiscloses
  <2> QED BY <1>10, <2>1, RefusalDiscloses DEF UserFullGET
<1>11. CASE UserFullGETPositions(r)
  <2>1. ASSUME NEW positions \in positionsOf(arg[r]), Reply(r, seen[r] \cup positions)
        PROVE  Discloses(r)
    <3>1. \A y \in seen[r] \cup positions : MayShow(r, y)
      <4>1. CASE positions = {p \in Position : p[2] = arg[r]}
        BY <1>1, <1>6, <4>1
      <4>2. CASE positions = {<<"position", arg[r], 1>>}
        BY <1>1, <1>2, <4>2
      <4> QED BY <4>1, <4>2 DEF positionsOf
    <3> QED BY <2>1, <3>1, AnswerDiscloses
  <2> QED BY <1>11, <2>1 DEF UserFullGETPositions
<1>12. CASE UserLookupGET(r)
  <2>1. ASSUME NEW some \in SUBSET {u \in Users : Visible(r, u, TRUE)},
               Reply(r, UNION {UserAndEmail(r, u) : u \in some})
        PROVE  Discloses(r)
    <3>1. \A y \in UNION {UserAndEmail(r, u) : u \in some} : MayShow(r, y)
      BY <1>4, <1>12 DEF UserLookupGET, Serves
    <3> QED BY <2>1, <3>1, AnswerDiscloses
  <2> QED BY <1>12, <2>1, RefusalDiscloses DEF UserLookupGET
<1>13. ASSUME NEW u, userpage(r, u)
       PROVE  Discloses(r)
  <2>1. \A y \in {<<"page", u, page[u]>>} : MayShow(r, y)
    BY <1>2
  <2> QED BY <1>13, <2>1, AnswerDiscloses, RefusalDiscloses DEF userpage
<1>14. CASE UserUserpageGET(r) \/ UserSelfUserpagePOSTGet(r)
  BY <1>13, <1>14 DEF UserUserpageGET, UserSelfUserpagePOSTGet
<1>15. CASE UserSelfUserpagePOST(r)
  BY <1>5, <1>15, RefusalDiscloses DEF UserSelfUserpagePOST
<1>16. CASE UsersSelfSettingsPOST(r)
  <2>1. ASSUME NEW can, Continue(r, "self/settings/post:update", Nobody, {<<"badger", u, u>> : u \in can})
        PROVE  Discloses(r)
    <3>1. \A y \in {<<"badger", u, u>> : u \in can} : MayShow(r, y)
      BY <1>2
    <3> QED BY <1>3, <2>1, <3>1, ContinueDiscloses
  <2> QED BY <1>16, <2>1 DEF UsersSelfSettingsPOST
<1>17. CASE UsersSelfSettingsPOSTUpdate(r)
  <2>1. Continue(r, "self/settings/post:get", Nobody, {}) \/ Refuse(r)
    BY <1>17 DEF UsersSelfSettingsPOSTUpdate
  <2> QED BY <1>5, <2>1, RefusalDiscloses
<1>18. CASE UsersSelfSettingsGET(r)
  <2> DEFINE me == md[r].id
             settings == {User(me), Email(me), <<"aka", me, aka[me]>>}
                         \cup {IF me \in disabled THEN <<"disabled", me, me>> ELSE Open(me)}
                         \cup {<<"badge", u, badge[u]>> : u \in {me} \cap CanBadge}
  <2>1. MayShow(r, User(me)) /\ MayShow(r, Email(me))
    BY OwnShown DEF User, Email
  <2>2. \A y \in settings : MayShow(r, y)
    BY <1>2, <2>1
  <2>3. Reply(r, settings) \/ Refuse(r)
    BY <1>18, Zenon DEF UsersSelfSettingsGET
  <2> HIDE DEF settings
  <2> QED BY <2>2, <2>3, AnswerDiscloses, RefusalDiscloses
<1>19. CASE UsersSelfDonorInfoGET(r)
  <2>1. \A y \in {Donor(md[r].id)} : MayShow(r, y)
    BY <1>2 DEF Donor
  <2> QED BY <1>19, <2>1, AnswerDiscloses, RefusalDiscloses DEF UsersSelfDonorInfoGET
<1>20. CASE LeaderboardGET(r)
  <2> DEFINE public == {u \in Users : {"UserPublic", "UserNormal"} \subseteq privileges[u]}
  <2>1. ASSUME ReplyRows(r, {User(u) : u \in public})
        PROVE  Discloses(r)
    <3>1. \A y \in {User(u) : u \in public} : MayShow(r, y)
      BY PublicShown DEF User
    <3> QED BY <2>1, <3>1, RowsDisclose
  <2>2. ASSUME NEW some \in SUBSET Listed, Continue(r, "leaderboard:rows", Nobody, some)
        PROVE  Discloses(r)
    <3>1. \A y \in some : MayShow(r, y)
      BY <1>2 DEF Listed
    <3> QED BY <1>3, <2>2, <3>1, ContinueDiscloses
  <2> QED BY <1>20, <2>1, <2>2, NothingDiscloses, RefusalDiscloses DEF LeaderboardGET
<1>21. CASE LeaderboardGETRows(r)
  BY <1>5, <1>21, RefusalDiscloses DEF LeaderboardGETRows
<1>22. CASE fillLeaderboardRanks(r)
  <2>1. ASSUME NEW some \in SUBSET seen[r], NEW ranks \in {{}, Position},
               Reply(r, some \cup {p \in ranks : <<"listed", p[2], p[2]>> \in some})
        PROVE  Discloses(r)
    <3>1. \A y \in some \cup {p \in ranks : <<"listed", p[2], p[2]>> \in some} : MayShow(r, y)
      BY <1>1, <1>6
    <3> QED BY <2>1, <3>1, AnswerDiscloses
  <2> QED BY <1>22, <2>1 DEF fillLeaderboardRanks
<1> QED BY <1>7, <1>8, <1>9, <1>10, <1>11, <1>12, <1>14, <1>15, <1>16, <1>17, <1>18, <1>19, <1>20,
           <1>21, <1>22 DEF profileHandlers

\* The facts of Beatmaps and Clans are not kept from anybody.
LEMMA BeatmapsDisclose ==
  ASSUME VisibilityInv, NEW r \in Requests, beatmapHandlers(r), Serving(r)
  PROVE  Discloses(r)
<1>1. \A m : MayShow(r, MapFact(m))
  BY UnkeptShown DEF MapFact, Kept
<1>2. ASSUME NEW l \in {"beatmaps/set_status:update", "beatmaps/set_status:get"}, NEW x,
             Continue(r, l, x, {})
      PROVE  Discloses(r)
  BY <1>2, ContinueDiscloses DEF Looking
<1>3. ASSUME NEW ms, ReplyRows(r, {MapFact(m) : m \in ms})
      PROVE  Discloses(r)
  <2>1. \A y \in {MapFact(m) : m \in ms} : MayShow(r, y)
    BY <1>1
  <2> QED BY <1>3, <2>1, RowsDisclose
<1>4. CASE BeatmapSetStatusPOST(r)
  BY <1>2, <1>4, RefusalDiscloses DEF BeatmapSetStatusPOST
<1>5. CASE BeatmapSetStatusPOSTUpdate(r)
  BY <1>2, <1>5 DEF BeatmapSetStatusPOSTUpdate
<1>6. CASE BeatmapSetStatusPOSTGet(r)
  BY <1>3, <1>6, RefusalDiscloses DEF BeatmapSetStatusPOSTGet
<1>7. CASE BeatmapGET(r)
  BY <1>3, <1>7, RefusalDiscloses DEF BeatmapGET, BeatmapFacts
<1>8. CASE BeatmapRankedFrozenFullGET(r)
  BY <1>3, <1>8, RefusalDiscloses DEF BeatmapRankedFrozenFullGET
<1>9. CASE BeatmapSearchGET(r)
  <2> DEFINE shown(ms) == UNION {{MapFact(m) : m \in Seqs!ToSet(set.maps)} :
                                   set \in Seqs!ToSet(searchGroups(ms))}
  <2>1. (\E ms : Reply(r, shown(ms))) \/ Refuse(r)
    BY <1>9 DEF BeatmapSearchGET
  <2>2. \A ms : \A y \in shown(ms) : MayShow(r, y)
    BY <1>1
  <2> HIDE DEF shown
  <2> QED BY <2>1, <2>2, AnswerDiscloses, RefusalDiscloses
<1> QED BY <1>4, <1>5, <1>6, <1>7, <1>8, <1>9 DEF beatmapHandlers

LEMMA ClansDisclose ==
  ASSUME VisibilityInv, NEW r \in Requests, clanHandlers(r), Serving(r)
  PROVE  Discloses(r)
<1>1. \A list, c, n : MayShow(r, ClanRank(list, c, n))
  BY UnkeptShown DEF ClanRank, Kept
<1>2. \A u : MayShow(r, Member(u)) /\ MayShow(r, <<"clan admin", u, clanOf[u]>>)
  BY UnkeptShown DEF Member, Kept
<1>3. \A y \in seen[r] : MayShow(r, y)
  BY SeenShown
<1>4. "clans/getinvite:invite" \notin Looking \cup {"done"} /\ "clans/stats:members" \notin Looking \cup {"done"}
  BY DEF Looking
<1>5. CASE ClansGET(r)
  BY <1>5, NothingDiscloses, RefusalDiscloses DEF ClansGET
<1>6. CASE ClanMembersGET(r)
  <2>1. ASSUME NEW us, Reply(r, {Member(u) : u \in us})
        PROVE  Discloses(r)
    <3>1. \A y \in {Member(u) : u \in us} : MayShow(r, y)
      BY <1>2
    <3> QED BY <2>1, <3>1, AnswerDiscloses
  <2> QED BY <1>6, <2>1, RefusalDiscloses DEF ClanMembersGET
<1>7. CASE IsInClanGET(r)
  <2>1. ASSUME NEW u, ReplyHalfRead(r, IF clanOf[u] = NoClan THEN {} ELSE {Member(u)})
        PROVE  Discloses(r)
    <3> DEFINE row == IF clanOf[u] = NoClan THEN {} ELSE {Member(u)}
    <3>1. \A y \in {} \cup row : MayShow(r, y)
      BY <1>2
    <3>2. PICK some \in SUBSET row, gap \in Gaps(row) : Reply(r, some \cup gap)
      BY <2>1, Zenon DEF ReplyHalfRead
    <3> HIDE DEF row
    <3>3. Reply(r, {} \cup some \cup gap)
      BY <3>2
    <3> QED BY <3>1, <3>3, HalfReadDiscloses
  <2> QED BY <1>7, <2>1, RefusalDiscloses DEF IsInClanGET
<1>8. CASE ClanInviteGET(r)
  BY <1>2, <1>4, <1>8, FactDiscloses, RefusalDiscloses DEF ClanInviteGET
<1>9. CASE ClanInviteGETInvite(r)
  BY <1>3, <1>9, AnswerDiscloses DEF ClanInviteGETInvite
<1>10. CASE ClanStatsGET(r)
  <2>1. Refuse(r) \/ \E list : Continue(r, "clans/stats:members", list, {})
    BY <1>10 DEF ClanStatsGET
  <2> QED BY <1>4, <2>1, ContinueDiscloses, RefusalDiscloses
<1>11. CASE TotalClanStatsGET(r)
  <2>1. ASSUME NEW rank \in RanksIn(arg[r]), Reply(r, {rank})
        PROVE  Discloses(r)
    <3>1. \E c, n : rank = ClanRank(arg[r], c, n)
      BY DEF RanksIn
    <3>2. \A y \in {rank} : MayShow(r, y)
      BY <1>1, <3>1
    <3> QED BY <2>1, <3>2, AnswerDiscloses
  <2> QED BY <1>11, <2>1, NothingDiscloses, RefusalDiscloses DEF TotalClanStatsGET
<1>12. CASE AllClanStatsGET(r)
  <2>1. ASSUME NEW order, NEW from, NEW to, Reply(r, pageOf(arg[r], order, from, to))
        PROVE  Discloses(r)
    <3>1. \A y \in pageOf(arg[r], order, from, to) : MayShow(r, y)
      BY <1>1, UnreadShown DEF pageOf
    <3> QED BY <2>1, <3>1, AnswerDiscloses
  <2>2. Refuse(r) \/ Reject(r) \/ \E order, from, to : Reply(r, pageOf(arg[r], order, from, to))
    BY <1>12 DEF AllClanStatsGET
  <2> QED BY <2>1, <2>2, RejectionDiscloses, RefusalDiscloses
<1> QED BY <1>5, <1>6, <1>7, <1>8, <1>9, <1>10, <1>11, <1>12 DEF clanHandlers

LEMMA TokensDisclose ==
  ASSUME VisibilityInv, NEW r \in Requests, tokenHandlers(r), Serving(r)
  PROVE  Discloses(r)
<1>1. ASSUME NEW u, NEW t
      PROVE  MayShow(r, <<"token", u, t>>)
  BY UnkeptShown DEF Kept
<1>2. CASE TokenSelfDeletePOST(r)
  BY <1>2, RefusalDiscloses DEF TokenSelfDeletePOST, Discloses
<1>3. CASE TokenSelfGET(r)
  <2>1. \A y \in {<<"token", md[r].id, md[r].token>>} : MayShow(r, y)
    BY <1>1
  <2> QED BY <1>3, <2>1, AnswerDiscloses, RefusalDiscloses DEF TokenSelfGET
<1>4. CASE TokenGET(r)
  <2> DEFINE mine == {t \in live \ (Private \cup Bearers) : Owner[t] = md[r].id}
  <2>1. \A y \in {<<"token", md[r].id, t>> : t \in mine} : MayShow(r, y)
    BY <1>1
  <2> QED BY <1>4, <2>1, RowsDisclose, RefusalDiscloses DEF TokenGET
<1> QED BY <1>2, <1>3, <1>4 DEF tokenHandlers

\* A request that the step is not about.
LEMMA OthersSeen ==
  ASSUME SeenInv, Remember, NEW q \in Requests, seen'[q] = seen[q], pc'[q] = pc[q],
         md'[q] = md[q], endpoint'[q] = endpoint[q]
  PROVE  IF Serving(q)' THEN \A y \in seen'[q] : Shows(q, y, held[q])' ELSE seen'[q] = {}
<1>1. CASE Serving(q)
  <2>1. held[q] \subseteq held'[q] /\ Serving(q)'
    BY <1>1, HeldGrows DEF Serving, Looking
  <2>2. ASSUME NEW y \in seen[q]
        PROVE  Shows(q, y, held[q])'
    BY <1>1, <2>1 DEF SeenInv, Shows
  <2> QED BY <2>1, <2>2
<1>2. CASE ~Serving(q)
  BY <1>2 DEF SeenInv, Serving
<1> QED BY <1>1, <1>2

\* A request that has read nothing leaves everything as it is, in the pipeline.
LEMMA LookingSeen ==
  ASSUME VisibilityInv, Remember, NEW r \in Requests, caretaker(r)
  PROVE  SeenInv' /\ said' = {}
<1>1. ~Serving(r) /\ seen[r] = {}
  <2>1. ~Serving(r)
    BY DEF caretaker, Receive, GetTokenFull, BearerScope, BearerUser, Check, Serving, Looking
  <2> QED BY <2>1 DEF VisibilityInv, SeenInv
<1> DEFINE quiet ==
             /\ said' = {}
             /\ seen' \in {seen, [seen EXCEPT ![r] = @ \cup {}], [seen EXCEPT ![r] = {}]}
             /\ DOMAIN seen' = Requests
             /\ \A q \in Requests \ {r} : md'[q] = md[q] /\ pc'[q] = pc[q] /\ endpoint'[q] = endpoint[q]
<1>2. quiet
  <2>1. /\ DOMAIN seen = Requests /\ DOMAIN md = Requests /\ DOMAIN pc = Requests
        /\ DOMAIN endpoint = Requests
    BY DEF VisibilityInv, SeenInv, ServiceInv, PipelineInv, CaretakerTypeOK, Located
  <2>2. CASE Receive(r)
    BY <2>1, <2>2 DEF Receive
  <2>3. ASSUME NEW user, NEW l, LogIn(r, user, l)
        PROVE  quiet
    BY <2>1, <2>3 DEF LogIn
  <2>4. ASSUME NEW l, Continue(r, l, Nobody, {})
        PROVE  quiet
    BY <2>1, <2>4 DEF Continue
  <2>5. CASE Reject(r)
    BY <2>1, <2>5 DEF Reject, Finish
  <2> QED BY <2>2, <2>3, <2>4, <2>5 DEF caretaker, GetTokenFull, BearerScope, BearerUser, Check
<1>3. seen'[r] = {} /\ \A q \in Requests \ {r} : seen'[q] = seen[q]
  BY <1>1, <1>2 DEF VisibilityInv, SeenInv
<1>4. ASSUME NEW q \in Requests
      PROVE  IF Serving(q)' THEN \A y \in seen'[q] : Shows(q, y, held[q])' ELSE seen'[q] = {}
  <2>1. CASE q = r
    BY <1>3, <2>1
  <2>2. CASE q # r
    BY <1>2, <1>3, <2>2, OthersSeen DEF VisibilityInv
  <2> QED BY <2>1, <2>2
<1> QED BY <1>2, <1>4 DEF SeenInv

\* What a handler reads or shows now, it may show.
LEMMA DisclosesKeeps ==
  ASSUME VisibilityInv, Remember, NEW r \in Requests, Serving(r), Discloses(r)
  PROVE  SeenInv'
<1>1. /\ DOMAIN seen = Requests /\ DOMAIN md = Requests /\ DOMAIN pc = Requests
  BY DEF VisibilityInv, SeenInv, ServiceInv, PipelineInv, CaretakerTypeOK, Located
<1>2. ASSUME NEW l, NEW x, NEW facts, Continue(r, l, x, facts), l \notin Looking \cup {"done"},
             \A y \in facts : MayShow(r, y)
      PROVE  SeenInv'
  <2>1. /\ pc' = [pc EXCEPT ![r] = l] /\ seen' = [seen EXCEPT ![r] = @ \cup facts]
        /\ UNCHANGED <<md, endpoint, privileges>>
    BY <1>2 DEF Continue, worldVars
  <2>2. held[r] \cup Publics \subseteq held'[r] /\ Serving(r)'
    <3>1. held'[r] = held[r] \cup Facts(endpoint[r])' /\ Serving(r)'
      BY <1>1, <1>2, <2>1 DEF Remember, Serving, Looking
    <3>2. Publics \subseteq UserFacts'
      BY <2>1 DEF Publics, UserFacts
    <3> QED BY <3>1, <3>2 DEF Facts
  <2>3. ASSUME NEW y \in seen'[r]
        PROVE  Shows(r, y, held[r])'
    <3>1. MayShow(r, y)
      BY <1>1, <1>2, <2>1, <2>3, SeenShown
    <3>2. Shows(r, y, held'[r])
      BY <2>2, <3>1, ShowsMore DEF MayShow
    <3> QED BY <2>1, <3>2 DEF Shows
  <2>4. ASSUME NEW q \in Requests \ {r}
        PROVE  IF Serving(q)' THEN \A y \in seen'[q] : Shows(q, y, held[q])' ELSE seen'[q] = {}
    BY <1>1, <2>1, OthersSeen DEF VisibilityInv
  <2> QED BY <1>1, <2>1, <2>2, <2>3, <2>4 DEF SeenInv
<1>3. ASSUME NEW status, NEW facts, Finish(r, status, facts)
      PROVE  SeenInv'
  <2>1. /\ pc' = [pc EXCEPT ![r] = "done"] /\ md' = [md EXCEPT ![r] = Anonymous]
        /\ seen' = [seen EXCEPT ![r] = {}] /\ endpoint' = endpoint
    BY <1>3 DEF Finish
  <2>2. ~Serving(r)' /\ seen'[r] = {}
    BY <1>1, <2>1 DEF Serving
  <2>3. ASSUME NEW q \in Requests \ {r}
        PROVE  IF Serving(q)' THEN \A y \in seen'[q] : Shows(q, y, held[q])' ELSE seen'[q] = {}
    BY <1>1, <2>1, OthersSeen DEF VisibilityInv
  <2> QED BY <1>1, <2>1, <2>2, <2>3 DEF SeenInv
<1> QED BY <1>2, <1>3 DEF Discloses

\* What the answer shows keeps to RestrictedUnseen.
LEMMA DisclosesShows ==
  ASSUME VisibilityInv, NEW r \in Requests, Discloses(r)
  PROVE  \A q \in Requests : Discreet(q)
<1>1. DOMAIN answer = Requests
  BY DEF VisibilityInv, ServiceInv, PipelineInv, CaretakerTypeOK
<1>2. ASSUME NEW l, NEW x, NEW facts, Continue(r, l, x, facts)
      PROVE  \A q \in Requests : Discreet(q)
  BY <1>2 DEF Continue, Discreet, Answered
<1>3. ASSUME NEW status, NEW facts, Finish(r, status, facts), \A y \in facts : MayShow(r, y)
      PROVE  \A q \in Requests : Discreet(q)
  <2>1. answer' = [answer EXCEPT ![r] = status] /\ said' = facts /\ privileges' = privileges
    BY <1>3 DEF Finish
  <2>2. Publics \subseteq UserFacts'
    BY <2>1 DEF Publics, UserFacts
  <2>3. ASSUME NEW q \in Requests, Answered(q), NEW x \in said', x[1] \in Kept
        PROVE  /\ \/ <<"public", x[2], x[2]>> \in held[q] \cup UserFacts'
                  \/ x[2] = md[q].id
                  \/ /\ \E rank \in RanksHeld(q, md[q].id) : "AdminManageUsers" \in rank
                     /\ endpoint[q] # "scores"
               /\ x[1] = "email" =>
                    \/ x[2] = md[q].id
                    \/ \E rank \in RanksHeld(q, md[q].id) : privilegeMustBe["ManageUser"] \subseteq rank
    <3>1. q = r
      BY <1>1, <2>1, <2>3 DEF Answered
    <3>2. Shows(r, x, held[r] \cup Publics)
      BY <1>3, <2>1, <2>3 DEF MayShow
    <3>3. ASSUME NEW rank, <<"rank", md[r].id, rank>> \in held[r] \cup Publics
          PROVE  rank \in RanksHeld(r, md[r].id)
      BY <3>3 DEF Publics, RanksHeld
    <3> QED BY <2>2, <2>3, <3>1, <3>2, <3>3 DEF Shows
  <2> QED BY <2>3 DEF Discreet
<1> QED BY <1>2, <1>3 DEF Discloses

\* A pin is made of a score of the user.
LEMMA PinsKept ==
  ASSUME VisibilityInv, NEW r \in Requests, scoreHandlers(r), Serving(r)
  PROVE  PinsInv'
<1>1. pinRows \in [Users \X Scores -> Nat]
  BY DEF VisibilityInv, ServiceInv, TablesTypeOK, ScoresTypeOK
<1>2. CASE UNCHANGED pinRows
  BY <1>2 DEF VisibilityInv, PinsInv
<1>3. ASSUME UserPinnedPOSTInsert(r), pinRows' = [pinRows EXCEPT ![<<md[r].id, arg[r]>>] = @ + 1]
      PROVE  PinsInv'
  <2>1. Player[arg[r]] = md[r].id
    BY <1>3, HandlerSteps DEF UserPinnedPOSTInsert, Names, VisibilityInv, ServiceInv
  <2>2. ASSUME NEW u \in Users, NEW s \in Scores, pinRows'[<<u, s>>] > 0
        PROVE  Player[s] = u
    <3>1. CASE u = md[r].id /\ s = arg[r]
      BY <2>1, <3>1
    <3>2. CASE ~(u = md[r].id /\ s = arg[r])
      <4>1. pinRows'[<<u, s>>] = pinRows[<<u, s>>]
        BY <1>1, <1>3, <3>2
      <4> QED BY <2>2, <4>1 DEF VisibilityInv, PinsInv
    <3> QED BY <3>1, <3>2
  <2> QED BY <2>2 DEF PinsInv
<1>4. CASE pinRows' = [pinRows EXCEPT ![<<md[r].id, arg[r]>>] = 0]
  <2>1. ASSUME NEW u \in Users, NEW s \in Scores, pinRows'[<<u, s>>] > 0
        PROVE  Player[s] = u
    <3>1. CASE u = md[r].id /\ s = arg[r]
      <4>1. pinRows'[<<u, s>>] = 0
        BY <1>1, <1>4, <3>1
      <4> QED BY <2>1, <4>1
    <3>2. CASE ~(u = md[r].id /\ s = arg[r])
      <4>1. pinRows'[<<u, s>>] = pinRows[<<u, s>>]
        BY <1>1, <1>4, <3>2
      <4> QED BY <2>1, <4>1 DEF VisibilityInv, PinsInv
    <3> QED BY <3>1, <3>2
  <2> QED BY <2>1 DEF PinsInv
<1>5. \/ UNCHANGED pinRows
      \/ UserPinnedPOSTInsert(r) /\ pinRows' = [pinRows EXCEPT ![<<md[r].id, arg[r]>>] = @ + 1]
      \/ pinRows' = [pinRows EXCEPT ![<<md[r].id, arg[r]>>] = 0]
  <2>1. CASE UserPinnedPOSTInsert(r) \/ UserPinnedDeletePOSTDelete(r)
    BY <2>1 DEF UserPinnedPOSTInsert, UserPinnedDeletePOSTDelete
  <2>2. CASE ~(UserPinnedPOSTInsert(r) \/ UserPinnedDeletePOSTDelete(r))
    BY <2>2, Zenon DEF scoreHandlers, tables, ScoresGET, ScoresGETRows, UserScoresBestGET,
       UserScoresRecentGET, UserFirstGET, UserFirstGETRows, OldestFirstGET, OldestFirstGETRows, UserPinnedGET,
       PinnedScoreGET, UserPinnedPOST, UserPinnedPOSTPinned, UserPinnedDeletePOST, WipeUserPOST,
       WipeUserPOSTCommit, WipeUserPOSTAnswer, ScoreReportPOST, ScoreReportPOSTAnticheat,
       ScoreReportPOSTInsert, ScoreReportPOSTCommit
  <2> QED BY <2>1, <2>2
<1> QED BY <1>2, <1>3, <1>4, <1>5

\* Where every step leaves what was read and pinned, and what it shows.
LEMMA StepShows ==
  ASSUME VisibilityInv, Next
  PROVE  SeenInv' /\ PinsInv' /\ \A q \in Requests : Discreet(q)
<1>1. ASSUME NEW r \in Requests, Serving(r), Discloses(r), Remember
      PROVE  SeenInv' /\ \A q \in Requests : Discreet(q)
  BY <1>1, DisclosesKeeps, DisclosesShows
<1>2. ASSUME NEW r \in Requests, caretaker(r) \/ tokenHandlers(r), UNCHANGED tables, Remember
      PROVE  SeenInv' /\ PinsInv' /\ \A q \in Requests : Discreet(q)
  <2>1. PinsInv'
    BY <1>2 DEF VisibilityInv, PinsInv, tables
  <2>2. CASE caretaker(r)
    BY <1>2, <2>1, <2>2, LookingSeen DEF Discreet
  <2>3. CASE tokenHandlers(r)
    <3>1. Serving(r)
      BY <2>3 DEF tokenHandlers, TokenSelfDeletePOST, TokenSelfGET, TokenGET, Serves, Serving, Looking
    <3> QED BY <1>1, <1>2, <2>1, <2>3, <3>1, TokensDisclose
  <2> QED BY <1>2, <2>2, <2>3
<1>3. ASSUME NEW r \in Requests, Caretaking(r)
      PROVE  SeenInv' /\ PinsInv' /\ \A q \in Requests : Discreet(q)
  BY <1>2, <1>3 DEF Caretaking
<1>4. ASSUME NEW r \in Requests, ServeScores(r)
      PROVE  SeenInv' /\ PinsInv' /\ \A q \in Requests : Discreet(q)
  <2>1. Serving(r)
    BY <1>4, ScoreHandlersMove DEF ServeScores, VisibilityInv, ServiceInv, TablesTypeOK
  <2> QED BY <1>1, <1>4, <2>1, ScoresDisclose, PinsKept DEF ServeScores
<1>5. ASSUME NEW r \in Requests, UNCHANGED tables, Serving(r), Discloses(r), Remember
      PROVE  SeenInv' /\ PinsInv' /\ \A q \in Requests : Discreet(q)
  BY <1>1, <1>5 DEF VisibilityInv, PinsInv, tables
<1>6. ASSUME NEW r \in Requests, ServeRelationships(r)
      PROVE  SeenInv' /\ PinsInv' /\ \A q \in Requests : Discreet(q)
  BY <1>5, <1>6, RelationshipsDisclose, RelationshipHandlersMove
     DEF ServeRelationships, VisibilityInv, ServiceInv, TablesTypeOK
<1>7. ASSUME NEW r \in Requests, ServeComments(r)
      PROVE  SeenInv' /\ PinsInv' /\ \A q \in Requests : Discreet(q)
  BY <1>5, <1>7, CommentsDisclose, CommentHandlersMove
     DEF ServeComments, VisibilityInv, ServiceInv, TablesTypeOK
<1>8. ASSUME NEW r \in Requests, ServeProfiles(r)
      PROVE  SeenInv' /\ PinsInv' /\ \A q \in Requests : Discreet(q)
  BY <1>5, <1>8, ProfilesDisclose, ProfileHandlersMove
     DEF ServeProfiles, VisibilityInv, ServiceInv, TablesTypeOK
<1>9. ASSUME NEW r \in Requests, ServeBeatmaps(r)
      PROVE  SeenInv' /\ PinsInv' /\ \A q \in Requests : Discreet(q)
  BY <1>5, <1>9, BeatmapsDisclose, BeatmapHandlersMove
     DEF ServeBeatmaps, VisibilityInv, ServiceInv, TablesTypeOK
<1>10. ASSUME NEW r \in Requests, ServeClans(r)
       PROVE  SeenInv' /\ PinsInv' /\ \A q \in Requests : Discreet(q)
  BY <1>5, <1>10, ClansDisclose, ClanHandlersMove
     DEF ServeClans, VisibilityInv, ServiceInv, TablesTypeOK
<1>11. CASE World
  <2>1. UNCHANGED <<tables, requestVars>> /\ said' = {} /\ Remember
    BY <1>11 DEF World, ChangeUser, DropToken, MoveBoard, ChangeClan
  <2>2. PinsInv'
    BY <2>1 DEF VisibilityInv, PinsInv, tables
  <2>3. SeenInv'
    BY <2>1, OthersSeen DEF VisibilityInv, SeenInv, requestVars
  <2> QED BY <2>1, <2>2, <2>3 DEF Discreet
<1> QED BY <1>3, <1>4, <1>6, <1>7, <1>8, <1>9, <1>10, <1>11 DEF Next

\* That there is a user, a score of his, a comment or an e-mail address, as the handlers
\* say it that ask OnlyUserPublic or another check for it, is shown while he is
\* restricted to himself alone and to those who managed users while the request ran.
\* Friend lists, pins, members of clans, pages, boards and first places are facts of
\* other kinds: they show restricted users, and the statement does not cover them.
THEOREM RestrictedStayUnseen == Spec => RestrictedUnseen
<1>1. Init => VisibilityInv
  <2>1. Init => SeenInv
    BY DEF Init, CaretakerInit, SeenInv, Serving, Looking
  <2>2. ASSUME Init
        PROVE  PinsInv
    <3>1. PICK start \in Starts : pinRows = start.pinRows
      BY <2>2 DEF Init
    <3>2. \A u \in Users, s \in Scores : start.pinRows[<<u, s>>] > 0 => Player[s] = u
      BY StartsAssumption
    <3> QED BY <3>1, <3>2 DEF PinsInv
  <2>3. Init => ServiceInv
    BY InitPipeline, InitTables DEF ServiceInv
  <2> QED BY <2>1, <2>2, <2>3 DEF VisibilityInv
<1>2. VisibilityInv /\ [Next]_vars => VisibilityInv'
  <2>1. CASE Next
    BY <2>1, StepKeeps, StepShows DEF VisibilityInv
  <2>2. ASSUME VisibilityInv, UNCHANGED vars
        PROVE  VisibilityInv'
    <3>1. SeenInv' /\ PinsInv'
      BY <2>2 DEF VisibilityInv, SeenInv, PinsInv, vars, requestVars, tables, Serving, Shows
    <3> QED BY <2>2, <3>1, StutterKeeps DEF VisibilityInv
  <2> QED BY <2>1, <2>2
<1>3. VisibilityInv /\ [Next]_vars => [\A r \in Requests : Discreet(r)]_vars
  BY StepShows
<1> QED BY <1>1, <1>2, <1>3, PTL DEF Spec, RestrictedUnseen

-----------------------------------------------------------------------------
(* BeatmapSearchGET, row after row.                                         *)

\* A set with 0 and the successors of its members is Nat: else take the least
\* number that it lacks.
LEMMA SetInduction ==
  ASSUME NEW S \in SUBSET Nat, 0 \in S, \A n \in S : n + 1 \in S
  PROVE  S = Nat
<1> DEFINE T == Nat \ S
<1> SUFFICES ASSUME T # {} PROVE FALSE
  OBVIOUS
<1>1. PICK x \in T : \A y \in T : ~(<<y, x>> \in OpToRel(<, Nat))
  BY NatLessThanWellFounded, WFMin
<1>2. \A y \in T : ~(y < x)
  BY <1>1 DEF OpToRel
<1>3. x - 1 \in Nat /\ x - 1 \in S /\ (x - 1) + 1 = x
  BY <1>2
<1> QED BY <1>3

NoRows == [sets |-> <<>>, last |-> [id |-> Nobody, maps |-> <<>>]]

\* The function of groupRows, for the first n rows.
IsGrouping(g, ms, n) ==
  g = [k \in 0..n |-> IF k = 0 THEN NoRows ELSE addRow(g[k - 1], ms[k])]

\* For every list of rows there is such a function.
LEMMA GroupingExists ==
  ASSUME NEW ms, NEW n \in Nat
  PROVE  \E g : IsGrouping(g, ms, n)
<1> DEFINE S == {k \in Nat : \E g : IsGrouping(g, ms, k)}
<1>1. 0 \in S
  <2>1. IsGrouping([k \in 0..0 |-> NoRows], ms, 0)
    BY DEF IsGrouping
  <2> QED BY <2>1
<1>2. ASSUME NEW k \in S
      PROVE  k + 1 \in S
  <2>1. PICK g : IsGrouping(g, ms, k)
    OBVIOUS
  <2> DEFINE h == [j \in 0..(k + 1) |-> IF j = 0 THEN NoRows ELSE addRow(g[j - 1], ms[j])]
  <2>2. \A j \in 0..k : h[j] = g[j]
    BY <2>1 DEF IsGrouping
  <2>3. \A j \in 0..(k + 1) : j # 0 => j - 1 \in 0..k
    OBVIOUS
  <2>4. \A j \in 0..(k + 1) : j # 0 => h[j - 1] = g[j - 1]
    <3> HIDE DEF h
    <3> QED BY <2>2, <2>3
  <2>5. h = [j \in 0..(k + 1) |-> IF j = 0 THEN NoRows ELSE addRow(h[j - 1], ms[j])]
    BY <2>4
  <2>6. IsGrouping(h, ms, k + 1) /\ k + 1 \in Nat
    <3> HIDE DEF h
    <3> QED BY <2>5 DEF IsGrouping
  <2> HIDE DEF h
  <2> QED BY <2>6
<1>3. S = Nat
  <2> HIDE DEF S
  <2>1. S \in SUBSET Nat
    BY DEF S
  <2> QED BY <1>1, <1>2, <2>1, SetInduction
<1> QED BY <1>3

\* groupRows is the last value of one.
LEMMA GroupRowsDef ==
  ASSUME NEW ms, Len(ms) \in Nat
  PROVE  \E g : IsGrouping(g, ms, Len(ms)) /\ groupRows(ms) = g[Len(ms)]
<1> DEFINE f == CHOOSE g : IsGrouping(g, ms, Len(ms))
<1>1. IsGrouping(f, ms, Len(ms))
  BY GroupingExists
<1>2. groupRows(ms) = f[Len(ms)]
  BY Zenon DEF IsGrouping, groupRows, NoRows
<1> QED BY <1>1, <1>2

\* The maps of a list of sets, and those that were found by now.
MapsOfSets(sets) == UNION {Seqs!ToSet(set.maps) : set \in Seqs!ToSet(sets)}
MapsFound(found) == MapsOfSets(found.sets) \cup Seqs!ToSet(found.last.maps)

BeatmapSet == [id : {SetOf[m] : m \in Maps} \cup {Nobody}, maps : Seq(Maps)]
FoundSoFar == [sets : Seq(BeatmapSet), last : BeatmapSet]

\* The members of a list, with one more and of none.
LEMMA ToSetAppend ==
  ASSUME NEW T, NEW s \in Seq(T), NEW x \in T
  PROVE  Seqs!ToSet(Append(s, x)) = Seqs!ToSet(s) \cup {x}
<1>1. Append(s, x)[Len(s) + 1] = x /\ \A i \in 1..Len(s) : Append(s, x)[i] = s[i]
  OBVIOUS
<1>2. DOMAIN Append(s, x) = 1..(Len(s) + 1) /\ DOMAIN s = 1..Len(s) /\ Len(s) \in Nat
  OBVIOUS
<1>3. Seqs!ToSet(Append(s, x)) = {Append(s, x)[i] : i \in 1..(Len(s) + 1)} /\ Seqs!ToSet(s) = {s[i] : i \in 1..Len(s)}
  BY <1>2 DEF Seqs!ToSet
<1>4. 1..(Len(s) + 1) = (1..Len(s)) \cup {Len(s) + 1}
  BY <1>2
<1> QED BY <1>1, <1>3, <1>4

LEMMA ToSetEmpty == Seqs!ToSet(<<>>) = {}
BY DEF Seqs!ToSet

\* The set that is filled goes to the list with its maps.
LEMMA CloseSetKeeps ==
  ASSUME NEW found \in FoundSoFar
  PROVE  closeSet(found) \in FoundSoFar /\ MapsFound(closeSet(found)) = MapsFound(found)
         /\ MapsOfSets(closeSet(found).sets) = MapsFound(found)
<1>1. found.sets \in Seq(BeatmapSet) /\ found.last \in BeatmapSet
  BY DEF FoundSoFar
<1>2. closeSet(found).sets = Append(found.sets, found.last) /\ closeSet(found).last.maps = <<>>
  BY DEF closeSet
<1>3. Seqs!ToSet(closeSet(found).sets) = Seqs!ToSet(found.sets) \cup {found.last}
  BY <1>1, <1>2, ToSetAppend
<1>4. MapsOfSets(closeSet(found).sets) = MapsFound(found)
  BY <1>3 DEF MapsOfSets, MapsFound
<1>5. MapsFound(closeSet(found)) = MapsFound(found)
  BY <1>2, <1>4, ToSetEmpty DEF MapsFound
<1>6. closeSet(found) \in FoundSoFar
  <2>1. Append(found.sets, found.last) \in Seq(BeatmapSet) /\ <<>> \in Seq(Maps)
    BY <1>1
  <2> QED BY <1>1, <2>1 DEF closeSet, FoundSoFar, BeatmapSet
<1> QED BY <1>4, <1>5, <1>6

\* A row adds its map.
LEMMA AddRowAdds ==
  ASSUME NEW found \in FoundSoFar, NEW m \in Maps
  PROVE  addRow(found, m) \in FoundSoFar /\ MapsFound(addRow(found, m)) = MapsFound(found) \cup {m}
<1> DEFINE here == IF found.last.id = Nobody THEN [found EXCEPT !.last.id = SetOf[m]] ELSE found
           open == IF SetOf[m] # here.last.id THEN closeSet(here) ELSE here
<1>1. here \in FoundSoFar /\ MapsFound(here) = MapsFound(found)
  <2>1. here.sets = found.sets /\ here.last.maps = found.last.maps /\ here \in FoundSoFar
    BY DEF FoundSoFar, BeatmapSet
  <2> QED BY <2>1 DEF MapsFound
<1>2. open \in FoundSoFar /\ MapsFound(open) = MapsFound(found)
  <2> HIDE DEF here
  <2> QED BY <1>1, CloseSetKeeps
<1>3. addRow(found, m) = [open EXCEPT !.last.maps = Append(@, m)]
  BY Zenon DEF addRow
<1> HIDE DEF open
<1>4. open.last.maps \in Seq(Maps)
  BY <1>2 DEF FoundSoFar, BeatmapSet
<1>5. /\ addRow(found, m).sets = open.sets
      /\ addRow(found, m).last.maps = Append(open.last.maps, m)
      /\ addRow(found, m) \in FoundSoFar
  <2>1. /\ open.sets \in Seq(BeatmapSet)
        /\ open.last.id \in {SetOf[x] : x \in Maps} \cup {Nobody}
        /\ open = [sets |-> open.sets, last |-> open.last]
        /\ open.last = [id |-> open.last.id, maps |-> open.last.maps]
    BY <1>2 DEF FoundSoFar, BeatmapSet
  <2>2. addRow(found, m) = [sets |-> open.sets,
                            last |-> [id |-> open.last.id, maps |-> Append(open.last.maps, m)]]
    BY <1>3, <2>1
  <2>3. Append(open.last.maps, m) \in Seq(Maps)
    BY <1>4
  <2> QED BY <2>1, <2>2, <2>3 DEF FoundSoFar, BeatmapSet
<1>6. Seqs!ToSet(addRow(found, m).last.maps) = Seqs!ToSet(open.last.maps) \cup {m}
  BY <1>4, <1>5, ToSetAppend
<1> QED BY <1>2, <1>5, <1>6 DEF MapsFound

\* The sets of the search have the maps of its rows, none less and none more.
THEOREM SearchShowsItsRows ==
  ASSUME NEW ms \in Seq(Maps)
  PROVE  MapsOfSets(searchGroups(ms)) = Seqs!ToSet(ms)
<1>1. PICK g : IsGrouping(g, ms, Len(ms)) /\ groupRows(ms) = g[Len(ms)]
  BY GroupRowsDef
<1> DEFINE rowsTo(k) == {ms[i] : i \in 1..k}
           S == {k \in Nat : k <= Len(ms) => g[k] \in FoundSoFar /\ MapsFound(g[k]) = rowsTo(k)}
<1>2. 0 \in S
  <2>1. g[0] = NoRows
    BY <1>1 DEF IsGrouping
  <2>2. NoRows \in FoundSoFar
    BY DEF NoRows, FoundSoFar, BeatmapSet
  <2>3. MapsFound(NoRows) = {}
    BY ToSetEmpty DEF MapsFound, MapsOfSets, NoRows
  <2>4. rowsTo(0) = {}
    OBVIOUS
  <2> QED BY <2>1, <2>2, <2>3, <2>4
<1>3. ASSUME NEW k \in S
      PROVE  k + 1 \in S
  <2> SUFFICES ASSUME k + 1 <= Len(ms)
               PROVE  g[k + 1] \in FoundSoFar /\ MapsFound(g[k + 1]) = rowsTo(k + 1)
    OBVIOUS
  <2>1. k \in Nat /\ k <= Len(ms) /\ g[k] \in FoundSoFar /\ MapsFound(g[k]) = rowsTo(k)
    OBVIOUS
  <2>2. k + 1 \in 0..Len(ms) /\ k + 1 # 0 /\ (k + 1) - 1 = k
    BY <2>1
  <2>3. g[k + 1] = addRow(g[k], ms[k + 1])
    BY <1>1, <2>2 DEF IsGrouping
  <2>4. ms[k + 1] \in Maps
    BY <2>2
  <2>5. 1..(k + 1) = (1..k) \cup {k + 1}
    BY <2>1
  <2>6. rowsTo(k + 1) = rowsTo(k) \cup {ms[k + 1]}
    BY <2>5
  <2> HIDE DEF rowsTo
  <2> QED BY <2>1, <2>3, <2>4, <2>6, AddRowAdds
<1>4. S = Nat
  <2> HIDE DEF S
  <2>1. S \in SUBSET Nat
    BY DEF S
  <2> QED BY <1>2, <1>3, <2>1, SetInduction
<1>5. groupRows(ms) \in FoundSoFar /\ MapsFound(groupRows(ms)) = rowsTo(Len(ms))
  <2>1. Len(ms) \in S
    <3> HIDE DEF S
    <3> QED BY <1>4
  <2> QED BY <1>1, <2>1
<1>6. Seqs!ToSet(ms) = rowsTo(Len(ms))
  BY DEF Seqs!ToSet
<1> QED BY <1>5, <1>6, CloseSetKeeps DEF searchGroups

-----------------------------------------------------------------------------
(* What is answered was in the database.                                    *)

\* The fact y could have been read by r, once this step is done, or stands for what
\* could not be read.
Known(r, y) == y \in held[r] \cup Facts(endpoint[r])' \cup {Unread}

\* What a request in its handler has read it has held.
SeenHeld ==
  \A r \in Requests : IF Serving(r) THEN seen[r] \subseteq held[r] \cup {Unread} ELSE seen[r] = {}

\* What the call of user me names, at the statement l of a handler that answers
\* with facts of it.
Points(l, x, me) ==
  /\ l \in {"followers:all", "users/full:positions"} => x \in Users
  /\ l \in {"beatmaps/set_status:update", "beatmaps/set_status:get"} => x \in Maps
  /\ l = "followers_friends:rows" => me \in Users
Pointing == {"followers:all", "users/full:positions", "beatmaps/set_status:update",
             "beatmaps/set_status:get", "followers_friends:rows"}
Pointed == \A r \in Requests : Points(pc[r], arg[r], md[r].id)

HeldInv == ServiceInv /\ DOMAIN seen = Requests /\ SeenHeld /\ Pointed

\* The handler of r goes on, or the request is answered, with what is known.
Tells(r) ==
  \/ \E l, x, facts : /\ Continue(r, l, x, facts) /\ l \notin Looking \cup {"done"}
                      /\ Points(l, x, md[r].id)
                      /\ \A y \in facts : Known(r, y)
  \/ \E status, facts : /\ Finish(r, status, facts)
                        /\ \A y \in facts : Known(r, y) \/ \E u \in Users : y = <<"position", u, 1>>

\* Which facts the endpoints of a module read.
LEMMA FactsOf ==
  ASSUME NEW r, endpoint'[r] = endpoint[r]
  PROVE  /\ UserFacts' \subseteq Facts(endpoint[r])'
         /\ endpoint[r] \in OnRelationships => RelationshipFacts' \subseteq Facts(endpoint[r])'
         /\ endpoint[r] \in OnScores => ScoreFacts' \subseteq Facts(endpoint[r])'
         /\ endpoint[r] \in OnBeatmaps => BeatmapFacts' \subseteq Facts(endpoint[r])'
         /\ endpoint[r] \in OnClans => ClanFacts' \subseteq Facts(endpoint[r])'
         /\ endpoint[r] \notin OnRelationships \cup OnScores \cup OnBeatmaps \cup OnClans =>
              CommentFacts' \cup ProfileFacts' \subseteq Facts(endpoint[r])'
BY DEF Facts, OnRelationships, OnScores, OnBeatmaps, OnClans

\* The handlers leave the users alone.
LEMMA MovesQuietly ==
  ASSUME NEW r, Moves(r)
  PROVE  UNCHANGED <<endpoint, privileges>>
BY DEF Moves, Continue, Finish, worldVars

\* What is read of a user is known.
LEMMA UserKnown ==
  ASSUME NEW r, UNCHANGED <<endpoint, privileges>>, NEW u \in Users
  PROVE  /\ Known(r, <<"user", u, u>>) /\ Known(r, <<"email", u, u>>)
         /\ "UserPublic" \in privileges[u] => Known(r, <<"public", u, u>>)
BY FactsOf DEF Known, UserFacts

\* What could not be read counts as known, wherever it stands among other facts.
LEMMA GapKnown ==
  ASSUME NEW r, NEW facts, NEW gap \in Gaps(facts), NEW y \in gap
  PROVE  Known(r, y)
<1>1. y = Unread
  BY DEF Gaps
<1> QED BY <1>1 DEF Known

\* What the request has read so far is known.
LEMMA SeenKnown ==
  ASSUME HeldInv, NEW r \in Requests, Serving(r), NEW y \in seen[r]
  PROVE  Known(r, y)
BY DEF HeldInv, SeenHeld, Known

LEMMA AnswerTells ==
  ASSUME NEW r, NEW facts, Reply(r, facts), \A y \in facts : Known(r, y)
  PROVE  Tells(r)
BY DEF Reply, Tells

LEMMA NothingTells ==
  ASSUME NEW r, Reply(r, {})
  PROVE  Tells(r)
BY AnswerTells

LEMMA RefusalTells ==
  ASSUME NEW r, Refuse(r)
  PROVE  Tells(r)
BY DEF Refuse, Tells

LEMMA RejectionTells ==
  ASSUME NEW r, Reject(r)
  PROVE  Tells(r)
BY DEF Reject, Tells

LEMMA RowsTell ==
  ASSUME NEW r, NEW facts, ReplyRows(r, facts), \A y \in facts : Known(r, y)
  PROVE  Tells(r)
BY AnswerTells DEF ReplyRows

LEMMA HalfReadTells ==
  ASSUME NEW r, NEW facts, ReplyHalfRead(r, facts), \A y \in facts : Known(r, y)
  PROVE  Tells(r)
<1>1. PICK some \in SUBSET facts, gap \in Gaps(facts) : Reply(r, some \cup gap)
  BY DEF ReplyHalfRead
<1>2. \A y \in some \cup gap : Known(r, y)
  BY GapKnown
<1> QED BY <1>1, <1>2, AnswerTells

LEMMA PointsTells ==
  ASSUME NEW r, NEW l, NEW x, NEW facts, Continue(r, l, x, facts), l \notin Looking \cup {"done"},
         Points(l, x, md[r].id), \A y \in facts : Known(r, y)
  PROVE  Tells(r)
BY DEF Tells

LEMMA ContinueTells ==
  ASSUME NEW r, NEW l, NEW x, NEW facts, Continue(r, l, x, facts),
         l \notin Looking \cup {"done"} \cup Pointing, \A y \in facts : Known(r, y)
  PROVE  Tells(r)
<1>1. Points(l, x, md[r].id)
  BY DEF Points, Pointing
<1> QED BY <1>1, PointsTells

LEMMA FactTells ==
  ASSUME NEW r, NEW l, NEW x, NEW y, Continue(r, l, x, {y}),
         l \notin Looking \cup {"done"} \cup Pointing, Known(r, y)
  PROVE  Tells(r)
<1>1. \A z \in {y} : Known(r, z)
  OBVIOUS
<1> QED BY <1>1, ContinueTells

LEMMA OnTells ==
  ASSUME NEW r, NEW l, NEW x, Continue(r, l, x, {}), l \notin Looking \cup {"done"} \cup Pointing
  PROVE  Tells(r)
<1>1. \A z \in {} : Known(r, z)
  OBVIOUS
<1> QED BY <1>1, ContinueTells

\* Relationships tells of rows that were there, or that it has just changed.
LEMMA RelationshipsTell ==
  ASSUME HeldInv, NEW r \in Requests, relationshipHandlers(r)
  PROVE  Tells(r)
<1> DEFINE me == md[r].id
           u == arg[r]
<1>1. Serving(r) /\ Moves(r) /\ RelationshipsTypeOK /\ RelationshipsTypeOK'
  BY RelationshipHandlersMove DEF HeldInv, ServiceInv, TablesTypeOK
<1>2. UNCHANGED <<endpoint, privileges>>
  BY <1>1, MovesQuietly
<1>3. /\ pc[r] # "handler" => StepOf(pc[r], endpoint[r])
      /\ Names(pc[r], arg[r], md[r].id) /\ Points(pc[r], arg[r], md[r].id)
  BY <1>1, HandlerSteps DEF HeldInv, ServiceInv, Pointed
<1>4. endpoint[r] \in OnRelationships
  BY <1>3 DEF relationshipHandlers, FriendsGET, FriendsGETMine, FriendsWithGET, FriendsAddPOST,
         AddFriendExists, AddFriendInsert, FriendsDelPOST, FollowersGET, FollowersGETRows,
         FollowersGetResponse, FollowersGetResponseAll, Serves, StepOf, OnRelationships
<1>5. \A y \in RelationshipFacts' : Known(r, y)
  BY <1>2, <1>4, FactsOf DEF Known
<1>6. ASSUME UNCHANGED rows
      PROVE  RelationshipFacts' = RelationshipFacts
  BY <1>6 DEF RelationshipFacts, Relation, Friend, Befriended, NotFollowedCount, FollowersCount,
          RowsOf, NotFollowed, Followers
<1>7. ASSUME NEW a \in Users, UNCHANGED rows
      PROVE  /\ Known(r, NotFollowedCount(a)) /\ Known(r, FollowersCount(a))
             /\ \A b \in Users : /\ Known(r, Relation(a, b)) /\ Known(r, Relation(b, a))
                                 /\ Befriended(a, b) => Known(r, Friend(a, b))
                                 /\ Befriended(b, a) => Known(r, Friend(b, a))
  <2>1. \A y \in RelationshipFacts : Known(r, y)
    BY <1>5, <1>6, <1>7
  <2>2. NotFollowedCount(a) \in RelationshipFacts /\ FollowersCount(a) \in RelationshipFacts
    BY DEF RelationshipFacts
  <2>3. ASSUME NEW b \in Users
        PROVE  Relation(a, b) \in RelationshipFacts /\ Relation(b, a) \in RelationshipFacts
    <3>1. ASSUME NEW p \in Users \X Users
          PROVE  Relation(p[1], p[2]) \in RelationshipFacts
      BY DEF RelationshipFacts
    <3>2. /\ <<a, b>> \in Users \X Users /\ <<a, b>>[1] = a /\ <<a, b>>[2] = b
          /\ <<b, a>> \in Users \X Users /\ <<b, a>>[1] = b /\ <<b, a>>[2] = a
      OBVIOUS
    <3>3. Relation(a, b) \in RelationshipFacts
      BY <3>1, <3>2
    <3>4. Relation(b, a) \in RelationshipFacts
      BY <3>1, <3>2
    <3> QED BY <3>3, <3>4
  <2>4. \A b, c : Befriended(b, c) => Friend(b, c) = Relation(b, c)
    BY DEF Relation
  <2> QED BY <2>1, <2>2, <2>3, <2>4
<1>8. \A y \in seen[r] : Known(r, y)
  BY <1>1, SeenKnown
<1>9. ASSUME NEW a \in Users, NEW b \in Users
      PROVE  Known(r, IF rows'[<<a, b>>] > 0 THEN <<"friend", a, b>> ELSE <<"stranger", a, b>>)
  <2>1. ASSUME NEW p \in Users \X Users
        PROVE  Relation(p[1], p[2])' \in RelationshipFacts'
    BY DEF RelationshipFacts
  <2>2. <<a, b>> \in Users \X Users /\ <<a, b>>[1] = a /\ <<a, b>>[2] = b
    OBVIOUS
  <2>3. Relation(a, b)' \in RelationshipFacts'
    BY <2>1, <2>2
  <2> QED BY <1>5, <2>3 DEF Relation, Befriended, Friend
<1>10. endpoint[r] \in {"friends", "friends/with", "friends/add", "friends/del"} => me \in Users
  BY <1>1, WriterIsUser DEF HeldInv, ServiceInv, Write, ReadConfidential
<1>11. CASE FriendsGET(r)
  <2>1. "friends:mine" \notin Looking \cup {"done"} \cup Pointing
    BY DEF Looking, Pointing
  <2>2. me \in Users /\ UNCHANGED rows
    BY <1>10, <1>11 DEF FriendsGET, Serves
  <2>3. ASSUME Continue(r, "friends:mine", Nobody, {Relation(b, me) : b \in Users})
        PROVE  Tells(r)
    <3>1. \A y \in {Relation(b, me) : b \in Users} : Known(r, y)
      BY <1>7, <2>2
    <3> QED BY <2>1, <2>3, <3>1, ContinueTells
  <2>4. ASSUME NEW some \in SUBSET Followers(me),
               Continue(r, "friends:mine", Nobody, {Friend(b, me) : b \in some} \cup {Unread})
        PROVE  Tells(r)
    <3>1. \A y \in {Friend(b, me) : b \in some} \cup {Unread} : Known(r, y)
      BY <1>7, <2>2 DEF Followers, Known
    <3> QED BY <2>1, <2>4, <3>1, ContinueTells
  <2> QED BY <1>11, <2>3, <2>4, RefusalTells DEF FriendsGET
<1>12. CASE FriendsGETMine(r)
  <2>1. me \in Users /\ UNCHANGED rows
    BY <1>3, <1>10, <1>12 DEF FriendsGETMine, StepOf
  <2> DEFINE mine == {b \in Users : Befriended(me, b)}
             listed(some) == {Friend(me, b) : b \in some}
             mutual(some) == UNION {Mutual(r, b) : b \in some}
  <2>2. \/ Refuse(r)
        \/ \E some \in SUBSET mine, gap \in Gaps(mine) :
             Reply(r, listed(some) \cup gap \cup mutual(some))
    BY <1>12, Zenon DEF FriendsGETMine
  <2>3. ASSUME NEW some \in SUBSET mine
        PROVE  \A y \in listed(some) : Known(r, y)
    BY <1>7, <2>1
  <2>4. ASSUME NEW some
        PROVE  \A y \in mutual(some) : Known(r, y)
    <3>1. UNION {Mutual(r, b) : b \in some} \subseteq seen[r]
      BY DEF Mutual
    <3> QED BY <1>8, <3>1, Zenon
  <2> HIDE DEF mine, listed, mutual
  <2>5. ASSUME NEW some \in SUBSET mine, NEW gap \in Gaps(mine)
        PROVE  \A y \in listed(some) \cup gap \cup mutual(some) : Known(r, y)
    BY <2>3, <2>4, GapKnown
  <2> QED BY <2>2, <2>5, RefusalTells, AnswerTells
<1>13. CASE FriendsWithGET(r)
  <2>1. me \in Users /\ UNCHANGED rows
    BY <1>10, <1>13 DEF FriendsWithGET, Serves
  <2>2. ASSUME NEW v \in Users
        PROVE  \A y \in {Relation(me, v)} \cup (IF Befriended(me, v) THEN {Relation(v, me)} ELSE {}) :
                 Known(r, y)
    BY <1>7, <2>1
  <2> QED BY <1>13, <2>2, RefusalTells, NothingTells, AnswerTells DEF FriendsWithGET
<1>14. CASE FriendsAddPOST(r)
  <2>1. ASSUME NEW v \in Users
        PROVE  Known(r, <<"user", v, v>>)
    BY <1>2, UserKnown
  <2>2. "friends/add:relation" \notin Looking \cup {"done"} \cup Pointing
    BY DEF Looking, Pointing
  <2>3. ASSUME NEW v \in Users, Continue(r, "friends/add:relation", v, {<<"user", v, v>>})
        PROVE  Tells(r)
    BY <2>1, <2>2, <2>3, FactTells
  <2> QED BY <1>14, <2>3, RefusalTells DEF FriendsAddPOST
<1>15. CASE AddFriendExists(r)
  <2>1. me \in Users /\ u \in Users /\ UNCHANGED rows
    BY <1>3, <1>10, <1>15 DEF AddFriendExists, StepOf, Names
  <2>2. Known(r, Relation(u, me)) /\ (Befriended(me, u) => Known(r, Friend(me, u)))
    BY <1>7, <2>1
  <2>3. Befriended(me, u) => \A y \in seen[r] \cup {Friend(me, u), Relation(u, me)} : Known(r, y)
    BY <1>8, <2>2
  <2>4. "friends/add:insert" \notin Looking \cup {"done"} \cup Pointing
    BY DEF Looking, Pointing
  <2> QED BY <1>15, <2>2, <2>3, <2>4, RefusalTells, AnswerTells, FactTells DEF AddFriendExists
<1>16. CASE AddFriendInsert(r)
  <2>1. me \in Users /\ u \in Users
    BY <1>3, <1>10, <1>16 DEF AddFriendInsert, StepOf, Names
  <2>2. ASSUME rows' = [rows EXCEPT ![<<me, u>>] = @ + 1]
        PROVE  Known(r, Friend(me, u))
    <3>1. rows'[<<me, u>>] > 0
      BY <1>1, <2>1, <2>2 DEF RelationshipsTypeOK
    <3> QED BY <1>9, <2>1, <3>1 DEF Friend
  <2>3. ASSUME rows' = [rows EXCEPT ![<<me, u>>] = @ + 1], Reply(r, seen[r] \cup {Friend(me, u)})
        PROVE  Tells(r)
    <3>1. \A y \in seen[r] \cup {Friend(me, u)} : Known(r, y)
      BY <1>8, <2>2, <2>3
    <3> QED BY <2>3, <3>1, AnswerTells
  <2> QED BY <1>16, <2>3, RefusalTells DEF AddFriendInsert
<1>17. CASE FriendsDelPOST(r)
  <2>1. me \in Users
    BY <1>10, <1>17 DEF FriendsDelPOST, Serves
  <2>2. ASSUME NEW v \in Users, rows' = [rows EXCEPT ![<<me, v>>] = 0],
               Reply(r, {<<"stranger", me, v>>})
        PROVE  Tells(r)
    <3>1. rows'[<<me, v>>] = 0 /\ ~(rows'[<<me, v>>] > 0)
      BY <1>1, <2>1, <2>2 DEF RelationshipsTypeOK
    <3>2. Known(r, <<"stranger", me, v>>)
      BY <1>9, <2>1, <3>1
    <3>3. \A y \in {<<"stranger", me, v>>} : Known(r, y)
      BY <3>2
    <3> QED BY <2>2, <3>3, AnswerTells
  <2> QED BY <1>17, <2>2, RefusalTells, NothingTells DEF FriendsDelPOST
<1>18. CASE FollowersGET(r)
  <2>1. "followers_friends:rows" \notin Looking \cup {"done"}
    BY DEF Looking
  <2>2. ASSUME md[r].user # {}
        PROVE  me \in Users
    <3>1. md[r].token # NoToken
      <4>1. md[r] # Anonymous
        BY <2>2 DEF Anonymous
      <4> QED BY <4>1 DEF HeldInv, ServiceInv, PipelineInv, Trusted, UserOK
    <3>2. md[r].token \in Tokens /\ me = Owner[md[r].token]
      BY <3>1 DEF HeldInv, ServiceInv, PipelineInv, Trusted, UserOK, CaretakerTypeOK, MethodUser
    <3> QED BY <3>2, TokensAssumption
  <2>3. ASSUME me \in Users
        PROVE  /\ Points("followers_friends:rows", Nobody, me)
               /\ \A y \in {Relation(me, b) : b \in Users} : Known(r, y)
    BY <1>7, <1>18, <2>3 DEF Points, FollowersGET
  <2> QED BY <1>18, <2>1, <2>2, <2>3, RefusalTells, PointsTells DEF FollowersGET
<1>19. CASE FollowersGETRows(r)
  <2>1. me \in Users /\ UNCHANGED rows
    BY <1>3, <1>19 DEF FollowersGETRows, Points
  <2> DEFINE listed(some) == {Friend(b, me) : b \in some}
             subbed(some) == UNION {Subbed(r, b) : b \in some}
  <2>2. \/ Refuse(r)
        \/ \E some \in SUBSET NotFollowed(me), gap \in Gaps(NotFollowed(me)) :
             Reply(r, listed(some) \cup gap \cup subbed(some))
    BY <1>19, Zenon DEF FollowersGETRows
  <2>3. ASSUME NEW some \in SUBSET NotFollowed(me)
        PROVE  /\ \A y \in listed(some) : Known(r, y)
               /\ \A y \in subbed(some) : Known(r, y)
    <3>1. \A b \in some : b \in Users /\ Befriended(b, me) /\ ~Befriended(me, b)
      BY DEF NotFollowed, Followers
    <3>2. ASSUME NEW b \in some
          PROVE  Known(r, Friend(b, me)) /\ Known(r, <<"stranger", me, b>>)
      BY <1>7, <2>1, <3>1 DEF Relation
    <3>3. UNION {Subbed(r, b) : b \in some} \subseteq seen[r] \cup {<<"stranger", me, b>> : b \in some}
      BY DEF Subbed
    <3>4. \A y \in {<<"stranger", me, b>> : b \in some} : Known(r, y)
      BY <3>2
    <3>5. \A y \in UNION {Subbed(r, b) : b \in some} : Known(r, y)
      BY <1>8, <3>3, <3>4, Zenon
    <3>6. \A y \in {Friend(b, me) : b \in some} : Known(r, y)
      BY <3>2
    <3> QED BY <3>5, <3>6
  <2> HIDE DEF listed, subbed
  <2>4. ASSUME NEW some \in SUBSET NotFollowed(me), NEW gap \in Gaps(NotFollowed(me))
        PROVE  \A y \in listed(some) \cup gap \cup subbed(some) : Known(r, y)
    BY <2>3, GapKnown
  <2> QED BY <2>2, <2>4, RefusalTells, AnswerTells
<1>20. CASE FollowersGetResponse(r)
  <2>1. "followers:all" \notin Looking \cup {"done"}
    BY DEF Looking
  <2>2. ASSUME NEW v \in Users
        PROVE  /\ Points("followers:all", v, me)
               /\ \A y \in {NotFollowedCount(v)} : Known(r, y)
    BY <1>7, <1>20 DEF Points, FollowersGetResponse
  <2> QED BY <1>20, <2>1, <2>2, RefusalTells, PointsTells DEF FollowersGetResponse
<1>21. CASE FollowersGetResponseAll(r)
  <2>1. u \in Users /\ UNCHANGED rows
    BY <1>3, <1>21 DEF FollowersGetResponseAll, Points
  <2>2. \A y \in seen[r] \cup {FollowersCount(u)} : Known(r, y)
    BY <1>7, <1>8, <2>1
  <2> QED BY <1>21, <2>2, RefusalTells, AnswerTells DEF FollowersGetResponseAll
<1> QED BY <1>11, <1>12, <1>13, <1>14, <1>15, <1>16, <1>17, <1>18, <1>19, <1>20, <1>21
        DEF relationshipHandlers

\* Scores tells of scores and pins that were there.
LEMMA ScoresTell ==
  ASSUME HeldInv, NEW r \in Requests, scoreHandlers(r)
  PROVE  Tells(r)
<1>1. Serving(r) /\ Moves(r) /\ ScoresTypeOK
  BY ScoreHandlersMove DEF HeldInv, ServiceInv, TablesTypeOK
<1>2. UNCHANGED <<endpoint, privileges>>
  BY <1>1, MovesQuietly
<1>3. pc[r] # "handler" => StepOf(pc[r], endpoint[r])
  BY <1>1, HandlerSteps DEF HeldInv, ServiceInv
<1>4. endpoint[r] \in OnScores
  BY <1>3 DEF scoreHandlers, ScoresGET, ScoresGETRows, UserScoresBestGET, UserScoresRecentGET,
         UserFirstGET, UserFirstGETRows, OldestFirstGET, OldestFirstGETRows, UserPinnedGET,
         PinnedScoreGET, UserPinnedPOST, UserPinnedPOSTPinned, UserPinnedPOSTInsert, UserPinnedDeletePOST,
         UserPinnedDeletePOSTDelete, WipeUserPOST, WipeUserPOSTCommit, WipeUserPOSTAnswer,
         ScoreReportPOST, ScoreReportPOSTAnticheat, ScoreReportPOSTInsert, ScoreReportPOSTCommit,
         Serves, StepOf, OnScores
<1>5. ASSUME UNCHANGED tables
      PROVE  \A y \in ScoreFacts : Known(r, y)
  <2>1. ScoreFacts' = ScoreFacts
    BY <1>2, <1>5 DEF ScoreFacts, Score, Pin, Pinned, tables, FirstsOf, FirstsOfNormal
  <2> QED BY <1>2, <1>4, <2>1, FactsOf DEF Known
<1>6. ASSUME UNCHANGED tables
      PROVE  /\ \A s \in scores : Known(r, Score(s))
             /\ \A s \in Firsts \cap scores : Known(r, <<"first", Player[s], s>>)
  <2>1. ASSUME NEW s \in scores
        PROVE  Score(s) \in ScoreFacts
    BY DEF ScoreFacts
  <2>2. ASSUME NEW s \in Firsts \cap scores
        PROVE  <<"first", Player[s], s>> \in ScoreFacts
    BY DEF ScoreFacts
  <2> QED BY <1>5, <1>6, <2>1, <2>2
<1>7. ASSUME UNCHANGED tables, NEW u \in Users, NEW s \in Scores, Pinned(u, s)
      PROVE  Known(r, Pin(u, s))
  <2>1. ASSUME NEW p \in Users \X Scores, Pinned(p[1], p[2])
        PROVE  Pin(p[1], p[2]) \in ScoreFacts
    BY <2>1 DEF ScoreFacts
  <2>2. <<u, s>> \in Users \X Scores /\ <<u, s>>[1] = u /\ <<u, s>>[2] = s
    OBVIOUS
  <2>3. Pin(u, s) \in ScoreFacts
    BY <1>7, <2>1, <2>2
  <2> QED BY <1>5, <1>7, <2>3
<1>8. \A y \in seen[r] : Known(r, y)
  BY <1>1, SeenKnown
<1>9. \A l \in {"scores:rows", "pin:pinned", "pin:insert", "unpin:delete", "wipe:tx", "wipe:user",
                "reports:anticheat", "reports:new", "reports:insert", "reports:commit",
                "reports:commit new"} : l \notin Looking \cup {"done"} \cup Pointing
  BY DEF Looking, Pointing
<1>10. CASE ScoresGET(r)
  BY <1>9, <1>10, RefusalTells, NothingTells, OnTells DEF ScoresGET
<1>11. ASSUME UNCHANGED tables, NEW some \in SUBSET scores, ReplyRows(r, {Score(s) : s \in some})
       PROVE  Tells(r)
  <2>1. \A y \in {Score(s) : s \in some} : Known(r, y)
    BY <1>6, <1>11
  <2> QED BY <1>11, <2>1, RowsTell
<1>12. CASE ScoresGETRows(r)
  <2> DEFINE best(t) == {s \in scores : /\ ScoreTable[s] = t
                                        /\ Completed[s] = 3
                                        /\ Visible(r, Player[s], FALSE)}
  <2>1. \/ \E t \in 0..2 : ReplyRows(r, {Score(s) : s \in best(t)})
        \/ Refuse(r)
    BY <1>12, Zenon DEF ScoresGETRows
  <2>2. \A t : best(t) \in SUBSET scores
    OBVIOUS
  <2>3. UNCHANGED tables
    BY <1>12 DEF ScoresGETRows
  <2> HIDE DEF best
  <2> QED BY <1>11, <2>1, <2>2, <2>3, RefusalTells
<1>13. CASE UserScoresBestGET(r) \/ UserScoresRecentGET(r)
  <2>1. PICK some : userScoresPuts(r, some)
    BY <1>13 DEF UserScoresBestGET, UserScoresRecentGET
  <2> DEFINE shown(u, t) == {s \in some \cap scores : /\ Player[s] = u
                                                      /\ ScoreTable[s] = t
                                                      /\ Visible(r, u, TRUE)}
  <2>2. \/ \E u \in Users, t \in 0..2 : ReplyRows(r, {Score(s) : s \in shown(u, t)})
        \/ Refuse(r)
    BY <2>1, Zenon DEF userScoresPuts
  <2>3. \A u, t : shown(u, t) \in SUBSET scores
    OBVIOUS
  <2>4. UNCHANGED tables
    BY <1>13 DEF UserScoresBestGET, UserScoresRecentGET
  <2> HIDE DEF shown
  <2> QED BY <1>11, <2>2, <2>3, <2>4, RefusalTells
<1>14. ASSUME NEW l \in {"scores/first:rows", "first/oldest:rows"}, NEW x, NEW total,
              CountThen(r, l, x, total), Known(r, total)
       PROVE  Tells(r)
  <2>1. PICK fact \in {total, Unread} : Continue(r, l, x, {fact})
    BY <1>14 DEF CountThen
  <2>2. Known(r, fact)
    BY <1>14 DEF Known
  <2>3. l \notin Looking \cup {"done"} \cup Pointing
    BY DEF Looking, Pointing
  <2> QED BY <2>1, <2>2, <2>3, FactTells
<1>15. CASE UserFirstGET(r)
  <2>1. ASSUME NEW u \in Users, NEW t \in 0..2, NEW m \in Modes
        PROVE  Known(r, FirstsOf(u, t, m))
    <3>1. ASSUME NEW p \in Users \X (0..2) \X Modes
          PROVE  FirstsOf(p[1], p[2], p[3]) \in ScoreFacts
      BY DEF ScoreFacts
    <3>2. <<u, t, m>> \in Users \X (0..2) \X Modes
      OBVIOUS
    <3>3. FirstsOf(<<u, t, m>>[1], <<u, t, m>>[2], <<u, t, m>>[3]) \in ScoreFacts
      BY <3>1, <3>2
    <3>4. FirstsOf(u, t, m) \in ScoreFacts
      BY <3>3
    <3> QED BY <1>5, <1>15, <3>4 DEF UserFirstGET
  <2> QED BY <1>14, <1>15, <2>1, RefusalTells DEF UserFirstGET
<1>16. CASE OldestFirstGET(r)
  <2>1. ASSUME NEW t \in 0..2
        PROVE  Known(r, FirstsOfNormal(t))
    <3>1. FirstsOfNormal(t) \in ScoreFacts
      BY DEF ScoreFacts
    <3> QED BY <1>5, <1>16, <3>1 DEF OldestFirstGET
  <2> QED BY <1>14, <1>16, <2>1 DEF OldestFirstGET
<1>17. ASSUME UNCHANGED tables, NEW found, NEW some \in SUBSET found, NEW gap \in Gaps(found),
              \A y \in found : Known(r, y), Reply(r, seen[r] \cup some \cup gap)
       PROVE  Tells(r)
  <2>1. \A y \in seen[r] \cup some \cup gap : Known(r, y)
    BY <1>8, <1>17, GapKnown
  <2> QED BY <1>17, <2>1, AnswerTells
<1>18. CASE UserFirstGETRows(r)
  <2> DEFINE mine == {<<"first", arg[r][1], s>> :
                        s \in {s \in firstPlaces(arg[r][2], arg[r][3]) : Player[s] = arg[r][1]}}
  <2>1. UNCHANGED tables
    BY <1>18 DEF UserFirstGETRows
  <2>2. \A y \in mine : Known(r, y)
    BY <1>6, <2>1 DEF firstPlaces
  <2>3. \/ \E some \in SUBSET mine, gap \in Gaps(mine) : Reply(r, seen[r] \cup some \cup gap)
        \/ Refuse(r)
    BY <1>18, Zenon DEF UserFirstGETRows
  <2> HIDE DEF mine
  <2> QED BY <1>17, <2>1, <2>2, <2>3, RefusalTells
<1>19. CASE OldestFirstGETRows(r)
  <2> DEFINE found == {<<"first", Player[s], s>> :
                         s \in {s \in firstPlaces(arg[r][2], arg[r][3]) :
                                 "UserNormal" \in privileges[Player[s]]}}
  <2>1. UNCHANGED tables
    BY <1>19 DEF OldestFirstGETRows
  <2>2. \A y \in found : Known(r, y)
    BY <1>6, <2>1 DEF firstPlaces
  <2>3. \/ \E some \in SUBSET found, gap \in Gaps(found) : Reply(r, seen[r] \cup some \cup gap)
        \/ Refuse(r)
    BY <1>19, Zenon DEF OldestFirstGETRows
  <2> HIDE DEF found
  <2> QED BY <1>17, <2>1, <2>2, <2>3, RefusalTells
<1>20. CASE UserPinnedGET(r)
  <2> DEFINE mine(u, t) == {s \in scores : Pinned(u, s) /\ ScoreTable[s] = t /\ Visible(r, u, TRUE)}
             shown(u, some) == {Pin(u, s) : s \in some} \cup {Score(s) : s \in some}
  <2>1. UNCHANGED tables /\ scores \subseteq Scores
    BY <1>1, <1>20 DEF UserPinnedGET, ScoresTypeOK
  <2>2. ASSUME NEW u \in Users, NEW t \in 0..2, NEW some \in SUBSET mine(u, t), Reply(r, shown(u, some))
        PROVE  Tells(r)
    <3>1. \A s \in some : s \in scores /\ s \in Scores /\ Pinned(u, s)
      BY <2>1
    <3>2. \A s \in some : Known(r, Score(s)) /\ Known(r, Pin(u, s))
      BY <1>6, <1>7, <2>1, <3>1
    <3>3. \A y \in shown(u, some) : Known(r, y)
      BY <3>2
    <3> QED BY <2>2, <3>3, AnswerTells
  <2>3. \/ \E u \in Users, t \in 0..2 : \E some \in SUBSET mine(u, t) : Reply(r, shown(u, some))
        \/ Refuse(r)
    BY <1>20, Zenon DEF UserPinnedGET
  <2> HIDE DEF mine, shown
  <2>4. CASE Refuse(r)
    BY <2>4, RefusalTells
  <2>5. CASE \E u \in Users, t \in 0..2 : \E some \in SUBSET mine(u, t) : Reply(r, shown(u, some))
    BY <2>2, <2>5, Zenon
  <2> QED BY <2>3, <2>4, <2>5
<1>21. CASE PinnedScoreGET(r)
  <2>1. ASSUME NEW u \in Users, NEW s \in Scores, Pinned(u, s), Reply(r, {Pin(u, s)})
        PROVE  Tells(r)
    <3>1. Known(r, Pin(u, s))
      BY <1>7, <1>21, <2>1 DEF PinnedScoreGET
    <3>2. \A y \in {Pin(u, s)} : Known(r, y)
      BY <3>1
    <3> QED BY <2>1, <3>2, AnswerTells
  <2> QED BY <1>21, <2>1, RefusalTells DEF PinnedScoreGET
<1>22. CASE UserPinnedPOST(r)
  <2>1. ASSUME NEW s \in scores, Continue(r, "pin:pinned", s, {Score(s)})
        PROVE  Tells(r)
    <3>1. Known(r, Score(s))
      BY <1>6, <1>22 DEF UserPinnedPOST
    <3> QED BY <1>9, <2>1, <3>1, FactTells
  <2> QED BY <1>22, <2>1, RefusalTells DEF UserPinnedPOST
<1>23. CASE UserPinnedPOSTPinned(r)
  BY <1>9, <1>23, RefusalTells, OnTells DEF UserPinnedPOSTPinned
<1>24. CASE UserPinnedPOSTInsert(r) \/ UserPinnedDeletePOSTDelete(r) \/ WipeUserPOSTAnswer(r)
  BY <1>8, <1>24, RefusalTells, AnswerTells
     DEF UserPinnedPOSTInsert, UserPinnedDeletePOSTDelete, WipeUserPOSTAnswer
<1>25. CASE UserPinnedDeletePOST(r)
  <2>1. md[r].id \in Users
    BY <1>1, <1>25, WriterIsUser DEF UserPinnedDeletePOST, Serves, HeldInv, ServiceInv, Write
  <2>2. ASSUME NEW s \in Scores, Pinned(md[r].id, s),
               Continue(r, "unpin:delete", s, {Pin(md[r].id, s)})
        PROVE  Tells(r)
    <3>1. Known(r, Pin(md[r].id, s))
      BY <1>7, <1>25, <2>1, <2>2 DEF UserPinnedDeletePOST
    <3> QED BY <1>9, <2>2, <3>1, FactTells
  <2> QED BY <1>25, <2>2, RefusalTells DEF UserPinnedDeletePOST
<1>26. CASE WipeUserPOST(r)
  <2>1. ASSUME NEW u \in Users, Continue(r, "wipe:tx", u, {<<"user", u, u>>})
        PROVE  Tells(r)
    BY <1>2, <1>9, <2>1, UserKnown, FactTells
  <2> QED BY <1>26, <2>1, RefusalTells DEF WipeUserPOST
<1>27. CASE WipeUserPOSTCommit(r)
  <2>1. Continue(r, "wipe:user", arg[r], {}) \/ Refuse(r)
    BY <1>27 DEF WipeUserPOSTCommit
  <2> QED BY <1>9, <2>1, OnTells, RefusalTells
<1>28. CASE ScoreReportPOST(r)
  BY <1>9, <1>28, OnTells, RefusalTells DEF ScoreReportPOST
<1>29. CASE ScoreReportPOSTAnticheat(r)
  <2>1. Refuse(r) \/ \E l \in {"reports:new", "reports:insert"} : \E x : Continue(r, l, x, {})
    BY <1>29 DEF ScoreReportPOSTAnticheat
  <2> QED BY <1>9, <2>1, OnTells, RefusalTells
<1>30. CASE ScoreReportPOSTInsert(r)
  <2>1. Refuse(r) \/ \E l \in {"reports:commit", "reports:commit new"} : \E x : Continue(r, l, x, {})
    BY <1>30 DEF ScoreReportPOSTInsert
  <2> QED BY <1>9, <2>1, OnTells, RefusalTells
<1>31. CASE ScoreReportPOSTCommit(r)
  BY <1>31, RefusalTells, NothingTells DEF ScoreReportPOSTCommit
<1> QED BY <1>10, <1>12, <1>13, <1>14, <1>15, <1>16, <1>18, <1>19, <1>20, <1>21, <1>22, <1>23,
           <1>24, <1>25, <1>26, <1>27, <1>28, <1>29, <1>30, <1>31 DEF scoreHandlers

\* Comments tells of users, comments and profiles as they were.
LEMMA CommentsTell ==
  ASSUME HeldInv, NEW r \in Requests, commentHandlers(r)
  PROVE  Tells(r)
<1> DEFINE me == md[r].id
           u == arg[r]
<1>1. Serving(r) /\ Moves(r)
  BY CommentHandlersMove DEF HeldInv, ServiceInv, TablesTypeOK
<1>2. UNCHANGED <<endpoint, privileges>>
  BY <1>1, MovesQuietly
<1>3. /\ pc[r] # "handler" => StepOf(pc[r], endpoint[r])
      /\ Names(pc[r], arg[r], md[r].id)
  BY <1>1, HandlerSteps DEF HeldInv, ServiceInv
<1>4. endpoint[r] \in {"comments", "comments/info", "comments/post", "comments/delete"}
  BY <1>3 DEF commentHandlers, CommentPOST, CommentPOSTMe, CommentPOSTOpen, CommentPOSTInsert,
         CommentGET, CommentGETRows, CommentDELETE, CommentDELETERow, CommentInfoGET,
         CommentInfoGETProfile, Serves, StepOf
<1>5. endpoint[r] \notin OnRelationships \cup OnScores \cup OnBeatmaps \cup OnClans
  BY <1>4 DEF OnRelationships, OnScores, OnBeatmaps, OnClans
<1>6. ASSUME UNCHANGED <<comments, disabled>>
      PROVE  \A y \in CommentFacts : Known(r, y)
  <2>1. CommentFacts' = CommentFacts
    BY <1>2, <1>6 DEF CommentFacts, Comment, Total, Readable, Open, NoComment
  <2> QED BY <1>2, <1>5, <2>1, FactsOf DEF Known
<1>7. ASSUME NEW v \in Users, UNCHANGED <<comments, disabled>>
      PROVE  /\ Known(r, Total(v))
             /\ v \notin disabled => Known(r, Open(v))
             /\ v \in disabled => Known(r, <<"disabled", v, v>>)
  BY <1>6, <1>7 DEF CommentFacts
<1>8. \A y \in seen[r] : Known(r, y)
  BY <1>1, SeenKnown
<1>9. \A l \in {"comments/post:me", "comments/post:open", "comments/post:insert", "comments:rows",
                "comments/delete:row", "comments/info:profile"} :
        l \notin Looking \cup {"done"} \cup Pointing
  BY DEF Looking, Pointing
<1>10. CASE CommentPOST(r)
  <2>1. ASSUME NEW v \in Users, "UserPublic" \in privileges[v],
               Continue(r, "comments/post:me", v, {<<"public", v, v>>})
        PROVE  Tells(r)
    BY <1>2, <1>9, <2>1, UserKnown, FactTells
  <2> QED BY <1>10, <2>1, RefusalTells DEF CommentPOST
<1>11. CASE CommentPOSTMe(r)
  <2>1. me \in Users
    BY <1>1, <1>3, <1>11, WriterIsUser DEF CommentPOSTMe, StepOf, HeldInv, ServiceInv, Write
  <2> QED BY <1>2, <1>9, <1>11, <2>1, UserKnown, FactTells, RefusalTells DEF CommentPOSTMe
<1>12. CASE CommentPOSTOpen(r)
  <2>1. u \in Users /\ UNCHANGED <<comments, disabled>>
    BY <1>3, <1>12 DEF CommentPOSTOpen, Names
  <2> QED BY <1>7, <1>9, <1>12, <2>1, FactTells, RefusalTells DEF CommentPOSTOpen
<1>13. CASE CommentPOSTInsert(r)
  BY <1>8, <1>13, AnswerTells, RefusalTells DEF CommentPOSTInsert
<1>14. CASE CommentGET(r)
  <2>1. ASSUME NEW v \in Users, Continue(r, "comments:rows", v, {<<"user", v, v>>})
        PROVE  Tells(r)
    BY <1>2, <1>9, <2>1, UserKnown, FactTells
  <2> QED BY <1>14, <2>1, RefusalTells DEF CommentGET
<1>15. CASE CommentGETRows(r)
  <2>1. ASSUME NEW some \in SUBSET Readable(u), Reply(r, seen[r] \cup {Comment(c) : c \in some})
        PROVE  Tells(r)
    <3>1. \A c \in some : Comment(c) \in CommentFacts
      BY DEF Readable, CommentFacts
    <3>2. \A y \in seen[r] \cup {Comment(c) : c \in some} : Known(r, y)
      BY <1>6, <1>8, <1>15, <3>1 DEF CommentGETRows
    <3> QED BY <2>1, <3>2, AnswerTells
  <2> QED BY <1>15, <2>1, RefusalTells DEF CommentGETRows
<1>16. CASE CommentDELETE(r)
  <2>1. ASSUME NEW x, Continue(r, "comments/delete:row", x, {})
        PROVE  Tells(r)
    BY <1>9, <2>1, OnTells
  <2> QED BY <1>16, <2>1, RefusalTells DEF CommentDELETE
<1>17. CASE CommentDELETERow(r)
  <2>1. arg[r] \in CommentIds
    BY <1>3, <1>17 DEF CommentDELETERow, Names
  <2>2. ASSUME comments' = {c \in comments : c.id # arg[r]}, Reply(r, {NoComment(arg[r])})
        PROVE  Tells(r)
    <3>1. arg[r] \in CommentIds \ {c.id : c \in comments'}
      BY <2>1, <2>2
    <3>2. NoComment(arg[r]) \in CommentFacts'
      <4>1. ASSUME NEW id \in CommentIds \ {c.id : c \in comments'}
            PROVE  <<"no comment", Nobody, id>> \in CommentFacts'
        BY DEF CommentFacts, NoComment
      <4> QED BY <3>1, <4>1 DEF NoComment
    <3>3. Known(r, NoComment(arg[r]))
      BY <1>2, <1>5, <3>2, FactsOf DEF Known
    <3>4. \A y \in {NoComment(arg[r])} : Known(r, y)
      BY <3>3
    <3> QED BY <2>2, <3>4, AnswerTells
  <2> QED BY <1>17, <2>2, RefusalTells DEF CommentDELETERow
<1>18. CASE CommentInfoGET(r)
  <2>1. ASSUME NEW v \in Users, Continue(r, "comments/info:profile", v, {Total(v)})
        PROVE  Tells(r)
    <3>1. Known(r, Total(v))
      BY <1>7, <1>18 DEF CommentInfoGET
    <3> QED BY <1>9, <2>1, <3>1, FactTells
  <2> QED BY <1>18, <2>1, RefusalTells DEF CommentInfoGET
<1>19. CASE CommentInfoGETProfile(r)
  <2> DEFINE shown == seen[r] \cup {<<"user", u, u>>,
                                    IF u \in disabled THEN <<"disabled", u, u>> ELSE Open(u)}
  <2>1. u \in Users /\ UNCHANGED <<comments, disabled>>
    BY <1>3, <1>19 DEF CommentInfoGETProfile, Names
  <2>2. Known(r, <<"user", u, u>>)
    BY <1>2, <2>1, UserKnown
  <2>3. Known(r, IF u \in disabled THEN <<"disabled", u, u>> ELSE Open(u))
    BY <1>7, <2>1
  <2>4. \A y \in shown : Known(r, y)
    BY <1>8, <2>2, <2>3
  <2>5. Reply(r, shown) \/ Refuse(r)
    BY <1>19, Zenon DEF CommentInfoGETProfile
  <2> HIDE DEF shown
  <2> QED BY <2>4, <2>5, AnswerTells, RefusalTells
<1> QED BY <1>10, <1>11, <1>12, <1>13, <1>14, <1>15, <1>16, <1>17, <1>18, <1>19 DEF commentHandlers

\* Profiles tells of users, settings and the board as they were, but for the
\* position of a user when Redis fails.
LEMMA ProfilesTell ==
  ASSUME HeldInv, NEW r \in Requests, profileHandlers(r)
  PROVE  Tells(r)
<1> DEFINE me == md[r].id
<1>1. Serving(r) /\ Moves(r) /\ ProfilesTypeOK
  BY ProfileHandlersMove DEF HeldInv, ServiceInv, TablesTypeOK
<1>2. UNCHANGED <<endpoint, privileges>>
  BY <1>1, MovesQuietly
<1>3. /\ pc[r] # "handler" => StepOf(pc[r], endpoint[r])
      /\ Points(pc[r], arg[r], md[r].id)
  BY <1>1, HandlerSteps DEF HeldInv, ServiceInv, Pointed
<1>4. endpoint[r] \in {"users", "users/self", "users/whatid", "users/full", "users/lookup",
                       "users/userpage", "self/userpage", "self/settings/post", "self/settings",
                       "self/donor_info", "leaderboard"}
  BY <1>3 DEF profileHandlers, UsersGET, UserSelfGET, UserWhatsTheIDGET, UserFullGET,
         UserFullGETPositions, UserLookupGET, UserUserpageGET, UserSelfUserpagePOST,
         UserSelfUserpagePOSTGet, UsersSelfSettingsPOST, UsersSelfSettingsPOSTUpdate,
         UsersSelfSettingsGET, UsersSelfDonorInfoGET, LeaderboardGET, LeaderboardGETRows,
         fillLeaderboardRanks, Serves, StepOf
<1>5. endpoint[r] \notin OnRelationships \cup OnScores \cup OnBeatmaps \cup OnClans
  BY <1>4 DEF OnRelationships, OnScores, OnBeatmaps, OnClans
<1>6. ASSUME UNCHANGED <<comments, disabled, profile>>
      PROVE  \A y \in CommentFacts \cup ProfileFacts : Known(r, y)
  <2>1. CommentFacts' = CommentFacts
    BY <1>2, <1>6 DEF CommentFacts, Comment, Total, Readable, Open, NoComment
  <2>2. ProfileFacts' = ProfileFacts
    BY <1>2, <1>6 DEF ProfileFacts, Donor, Listed, Position, profile
  <2> QED BY <1>2, <1>5, <2>1, <2>2, FactsOf DEF Known
<1>7. ASSUME NEW u \in Users, UNCHANGED <<comments, disabled, profile>>
      PROVE  /\ Known(r, <<"page", u, page[u]>>) /\ Known(r, <<"aka", u, aka[u]>>)
             /\ Known(r, <<"badge", u, badge[u]>>) /\ Known(r, Donor(u))
             /\ u \in CanBadge => Known(r, <<"badger", u, u>>)
             /\ u \notin disabled => Known(r, Open(u))
             /\ u \in disabled => Known(r, <<"disabled", u, u>>)
  BY <1>6, <1>7 DEF CommentFacts, ProfileFacts
<1>8. ASSUME UNCHANGED <<comments, disabled, profile>>
      PROVE  \A y \in Listed \cup Position : Known(r, y)
  BY <1>6, <1>8 DEF ProfileFacts
<1>9. \A u \in Users : Known(r, User(u)) /\ Known(r, Email(u))
  BY <1>2, UserKnown DEF User, Email
<1>10. \A u \in Users : \A y \in UserAndEmail(r, u) : Known(r, y)
  BY <1>9 DEF UserAndEmail
<1>11. \A y \in seen[r] : Known(r, y)
  BY <1>1, SeenKnown
<1>12. endpoint[r] \in Write \cup ReadConfidential => me \in Users
  BY <1>1, WriterIsUser DEF HeldInv, ServiceInv
<1>13. \A l \in {"self/userpage:get", "self/settings/post:update", "self/settings/post:get",
                 "leaderboard:rows", "leaderboard:ranks"} :
         l \notin Looking \cup {"done"} \cup Pointing
  BY DEF Looking, Pointing
<1>14. ASSUME NEW u \in Users, UNCHANGED <<comments, disabled, profile>>, userpage(r, u)
       PROVE  Tells(r)
  <2>1. \A y \in {<<"page", u, page[u]>>} : Known(r, y)
    BY <1>7, <1>14
  <2> QED BY <1>14, <2>1, AnswerTells, RefusalTells DEF userpage
<1>15. CASE UsersGET(r)
  <2>1. \A y \in {User(u) : u \in {u \in Users : Visible(r, u, TRUE)}} : Known(r, y)
    BY <1>9
  <2> QED BY <1>15, <2>1, RowsTell, RefusalTells DEF UsersGET
<1>16. CASE UserSelfGET(r)
  <2>1. me # Nobody => me \in Users
    BY DEF HeldInv, ServiceInv, PipelineInv, CaretakerTypeOK, MethodUser
  <2>2. me # Nobody => \A y \in {User(me)} : Known(r, y)
    BY <1>9, <2>1
  <2> QED BY <1>16, <2>2, AnswerTells, RefusalTells DEF UserSelfGET
<1>17. CASE UserWhatsTheIDGET(r)
  <2>1. ASSUME NEW u \in Users, Reply(r, {User(u)})
        PROVE  Tells(r)
    <3>1. \A y \in {User(u)} : Known(r, y)
      BY <1>9
    <3> QED BY <2>1, <3>1, AnswerTells
  <2> QED BY <1>17, <2>1, RefusalTells DEF UserWhatsTheIDGET
<1>18. CASE UserFullGET(r)
  <2>1. ASSUME NEW u \in Users, Continue(r, "users/full:positions", u, UserAndEmail(r, u))
        PROVE  Tells(r)
    <3>1. "users/full:positions" \notin Looking \cup {"done"} /\ Points("users/full:positions", u, me)
      BY DEF Looking, Points
    <3> QED BY <1>10, <2>1, <3>1, PointsTells
  <2> QED BY <1>18, <2>1, RefusalTells DEF UserFullGET
<1>19. CASE UserFullGETPositions(r)
  <2>1. arg[r] \in Users
    BY <1>3, <1>19 DEF UserFullGETPositions, Points
  <2>2. ASSUME NEW positions \in positionsOf(arg[r]), Reply(r, seen[r] \cup positions)
        PROVE  Tells(r)
    <3>1. \A y \in positions : y \in Position \/ y = <<"position", arg[r], 1>>
      BY DEF positionsOf
    <3>2. \A y \in seen[r] \cup positions : Known(r, y) \/ \E u \in Users : y = <<"position", u, 1>>
      BY <1>8, <1>11, <1>19, <2>1, <3>1 DEF UserFullGETPositions
    <3>3. Finish(r, "ok", seen[r] \cup positions)
      BY <2>2 DEF Reply
    <3> QED BY <3>2, <3>3, Zenon DEF Tells
  <2> QED BY <1>19, <2>2 DEF UserFullGETPositions
<1>20. CASE UserLookupGET(r)
  <2>1. ASSUME NEW some \in SUBSET {u \in Users : Visible(r, u, TRUE)},
               Reply(r, UNION {UserAndEmail(r, u) : u \in some})
        PROVE  Tells(r)
    <3>1. \A y \in UNION {UserAndEmail(r, u) : u \in some} : Known(r, y)
      BY <1>10
    <3> QED BY <2>1, <3>1, AnswerTells
  <2> QED BY <1>20, <2>1, RefusalTells DEF UserLookupGET
<1>21. CASE UserUserpageGET(r)
  BY <1>14, <1>21 DEF UserUserpageGET
<1>22. CASE UserSelfUserpagePOST(r)
  BY <1>13, <1>22, OnTells, RefusalTells DEF UserSelfUserpagePOST
<1>23. CASE UserSelfUserpagePOSTGet(r)
  <2>1. me \in Users
    BY <1>3, <1>12, <1>23 DEF UserSelfUserpagePOSTGet, StepOf, Write
  <2> QED BY <1>14, <1>23, <2>1 DEF UserSelfUserpagePOSTGet
<1>24. CASE UsersSelfSettingsPOST(r)
  <2>1. me \in Users
    BY <1>12, <1>24 DEF UsersSelfSettingsPOST, Serves, Write
  <2>2. ASSUME NEW can \in SUBSET ({me} \cap CanBadge),
               Continue(r, "self/settings/post:update", Nobody, {<<"badger", u, u>> : u \in can})
        PROVE  Tells(r)
    <3>1. \A y \in {<<"badger", u, u>> : u \in can} : Known(r, y)
      BY <1>7, <1>24, <2>1 DEF UsersSelfSettingsPOST
    <3> QED BY <1>13, <2>2, <3>1, ContinueTells
  <2> QED BY <1>24, <2>2 DEF UsersSelfSettingsPOST
<1>25. CASE UsersSelfSettingsPOSTUpdate(r)
  <2>1. Continue(r, "self/settings/post:get", Nobody, {}) \/ Refuse(r)
    BY <1>25 DEF UsersSelfSettingsPOSTUpdate
  <2> QED BY <1>13, <2>1, OnTells, RefusalTells
<1>26. CASE UsersSelfSettingsGET(r)
  <2> DEFINE settings == {User(me), Email(me), <<"aka", me, aka[me]>>}
                         \cup {IF me \in disabled THEN <<"disabled", me, me>> ELSE Open(me)}
                         \cup {<<"badge", u, badge[u]>> : u \in {me} \cap CanBadge}
  <2>1. me \in Users /\ UNCHANGED <<comments, disabled, profile>>
    BY <1>3, <1>12, <1>26 DEF UsersSelfSettingsGET, Serves, StepOf, Write, ReadConfidential
  <2>2. /\ Known(r, User(me)) /\ Known(r, Email(me)) /\ Known(r, <<"aka", me, aka[me]>>)
        /\ Known(r, <<"badge", me, badge[me]>>)
        /\ Known(r, IF me \in disabled THEN <<"disabled", me, me>> ELSE Open(me))
    BY <1>7, <1>9, <2>1
  <2>3. \A y \in settings : Known(r, y)
    BY <2>2
  <2>4. Reply(r, settings) \/ Refuse(r)
    BY <1>26, Zenon DEF UsersSelfSettingsGET
  <2> HIDE DEF settings
  <2> QED BY <2>3, <2>4, AnswerTells, RefusalTells
<1>27. CASE UsersSelfDonorInfoGET(r)
  <2>1. me \in Users
    BY <1>12, <1>27 DEF UsersSelfDonorInfoGET, Serves, ReadConfidential
  <2>2. \A y \in {Donor(me)} : Known(r, y)
    BY <1>7, <1>27, <2>1 DEF UsersSelfDonorInfoGET
  <2> QED BY <1>27, <2>2, AnswerTells, RefusalTells DEF UsersSelfDonorInfoGET
<1>28. CASE LeaderboardGET(r)
  <2> DEFINE public == {u \in Users : {"UserPublic", "UserNormal"} \subseteq privileges[u]}
  <2>1. ASSUME ReplyRows(r, {User(u) : u \in public})
        PROVE  Tells(r)
    <3>1. \A y \in {User(u) : u \in public} : Known(r, y)
      BY <1>9
    <3> QED BY <2>1, <3>1, RowsTell
  <2>2. ASSUME NEW some \in SUBSET Listed, Continue(r, "leaderboard:rows", Nobody, some)
        PROVE  Tells(r)
    <3>1. \A y \in some : Known(r, y)
      BY <1>8, <1>28 DEF LeaderboardGET
    <3> QED BY <1>13, <2>2, <3>1, ContinueTells
  <2> QED BY <1>28, <2>1, <2>2, NothingTells, RefusalTells DEF LeaderboardGET
<1>29. CASE LeaderboardGETRows(r)
  BY <1>13, <1>29, OnTells, RefusalTells DEF LeaderboardGETRows
<1>30. CASE fillLeaderboardRanks(r)
  <2>1. ASSUME NEW some \in SUBSET seen[r], NEW ranks \in {{}, Position},
               Reply(r, some \cup {p \in ranks : <<"listed", p[2], p[2]>> \in some})
        PROVE  Tells(r)
    <3>1. \A y \in some \cup {p \in ranks : <<"listed", p[2], p[2]>> \in some} : Known(r, y)
      BY <1>8, <1>11, <1>30 DEF fillLeaderboardRanks
    <3> QED BY <2>1, <3>1, AnswerTells
  <2> QED BY <1>30, <2>1 DEF fillLeaderboardRanks
<1> QED BY <1>15, <1>16, <1>17, <1>18, <1>19, <1>20, <1>21, <1>22, <1>23, <1>24, <1>25, <1>26,
           <1>27, <1>28, <1>29, <1>30 DEF profileHandlers

\* The orders of the rows of a finite table are sequences.
LEMMA OrdersAreSequences ==
  ASSUME NEW S, IsFiniteSet(S), NEW order \in Seqs!SetToSeqs(S)
  PROVE  order \in Seq(S) /\ Len(order) = Cardinality(S)
<1>1. Cardinality(S) \in Nat
  BY FS_CardinalityType
<1>2. Seqs!Cardinality(S) = Cardinality(S)
  BY DEF Seqs!Cardinality, Cardinality
<1>3. order \in [1..Cardinality(S) -> S]
  BY <1>2 DEF Seqs!SetToSeqs
<1> QED BY <1>1, <1>3

\* Beatmaps tells of maps as they were, a search too.
LEMMA BeatmapsTell ==
  ASSUME HeldInv, NEW r \in Requests, beatmapHandlers(r)
  PROVE  Tells(r)
<1>1. Serving(r) /\ Moves(r)
  BY BeatmapHandlersMove DEF HeldInv, ServiceInv, TablesTypeOK
<1>2. UNCHANGED <<endpoint, privileges>>
  BY <1>1, MovesQuietly
<1>3. /\ pc[r] # "handler" => StepOf(pc[r], endpoint[r])
      /\ Points(pc[r], arg[r], md[r].id)
  BY <1>1, HandlerSteps DEF HeldInv, ServiceInv, Pointed
<1>4. endpoint[r] \in OnBeatmaps
  BY <1>3 DEF beatmapHandlers, BeatmapSetStatusPOST, BeatmapSetStatusPOSTUpdate,
         BeatmapSetStatusPOSTGet, BeatmapGET, BeatmapRankedFrozenFullGET, BeatmapSearchGET, Serves,
         StepOf, OnBeatmaps
<1>5. ASSUME UNCHANGED mapStatus, NEW m \in Maps
      PROVE  Known(r, MapFact(m))
  <2>1. BeatmapFacts' = BeatmapFacts
    BY <1>5 DEF BeatmapFacts, MapFact
  <2>2. MapFact(m) \in BeatmapFacts
    BY DEF BeatmapFacts
  <2> QED BY <1>2, <1>4, <2>1, <2>2, FactsOf DEF Known
<1>6. \A l \in {"beatmaps/set_status:update", "beatmaps/set_status:get"} :
        l \notin Looking \cup {"done"}
  BY DEF Looking
<1>7. ASSUME NEW l \in {"beatmaps/set_status:update", "beatmaps/set_status:get"}, NEW m \in Maps,
             Continue(r, l, m, {})
      PROVE  Tells(r)
  <2>1. Points(l, m, md[r].id)
    BY DEF Points
  <2>2. \A y \in {} : Known(r, y)
    OBVIOUS
  <2> QED BY <1>6, <1>7, <2>1, <2>2, PointsTells
<1>8. ASSUME UNCHANGED mapStatus, NEW ms \in SUBSET Maps, ReplyRows(r, {MapFact(m) : m \in ms})
      PROVE  Tells(r)
  <2>1. \A y \in {MapFact(m) : m \in ms} : Known(r, y)
    BY <1>5, <1>8
  <2> QED BY <1>8, <2>1, RowsTell
<1>9. CASE BeatmapSetStatusPOST(r)
  BY <1>7, <1>9, RefusalTells DEF BeatmapSetStatusPOST
<1>10. CASE BeatmapSetStatusPOSTUpdate(r)
  <2>1. arg[r] \in Maps
    BY <1>3, <1>10 DEF BeatmapSetStatusPOSTUpdate, Points
  <2>2. Continue(r, "beatmaps/set_status:get", arg[r], {})
    BY <1>10 DEF BeatmapSetStatusPOSTUpdate
  <2> QED BY <1>7, <2>1, <2>2
<1>11. CASE BeatmapSetStatusPOSTGet(r)
  <2>1. arg[r] \in Maps
    BY <1>3, <1>11 DEF BeatmapSetStatusPOSTGet, Points
  <2>2. {{arg[r]}, MapsOf(SetOf[arg[r]])} \subseteq SUBSET Maps
    BY <2>1 DEF MapsOf
  <2> QED BY <1>8, <1>11, <2>2, RefusalTells DEF BeatmapSetStatusPOSTGet
<1>12. CASE BeatmapGET(r)
  BY <1>8, <1>12, RefusalTells DEF BeatmapGET, BeatmapFacts
<1>13. CASE BeatmapRankedFrozenFullGET(r)
  <2> DEFINE frozen == {m \in Maps : mapStatus[m].frozen = 1}
  <2>1. frozen \in SUBSET Maps
    OBVIOUS
  <2>2. ReplyRows(r, {MapFact(m) : m \in frozen}) \/ Refuse(r)
    BY <1>13, Zenon DEF BeatmapRankedFrozenFullGET
  <2>3. UNCHANGED mapStatus
    BY <1>13 DEF BeatmapRankedFrozenFullGET
  <2> HIDE DEF frozen
  <2> QED BY <1>8, <2>1, <2>2, <2>3, RefusalTells
<1>14. CASE BeatmapSearchGET(r)
  <2> DEFINE shown(ms) == UNION {{MapFact(m) : m \in Seqs!ToSet(set.maps)} :
                                   set \in Seqs!ToSet(searchGroups(ms))}
             frozen(ranked) == {m \in Maps : mapStatus[m] = [ranked |-> ranked, frozen |-> 1]}
  <2>1. \/ \E ranked : \E ms \in Seqs!SetToAllKPermutations(frozen(ranked)) : Reply(r, shown(ms))
        \/ Refuse(r)
    BY <1>14, Zenon DEF BeatmapSearchGET
  <2>2. ASSUME NEW ranked, NEW ms \in Seqs!SetToAllKPermutations(frozen(ranked))
        PROVE  ms \in Seq(Maps)
    <3>1. PICK some \in SUBSET frozen(ranked) : ms \in Seqs!SetToSeqs(some)
      BY DEF Seqs!SetToAllKPermutations
    <3>2. some \in SUBSET Maps /\ IsFiniteSet(some)
      BY <3>1, FS_Subset, MapsAssumption
    <3>3. ms \in Seq(some)
      BY <3>1, <3>2, OrdersAreSequences
    <3> QED BY <3>2, <3>3
  <2>3. ASSUME NEW ms \in Seq(Maps), Reply(r, shown(ms))
        PROVE  Tells(r)
    <3>1. MapsOfSets(searchGroups(ms)) \subseteq Maps
      BY SearchShowsItsRows DEF Seqs!ToSet
    <3>2. \A m \in MapsOfSets(searchGroups(ms)) : Known(r, MapFact(m))
      BY <1>5, <1>14, <3>1 DEF BeatmapSearchGET
    <3>3. \A y \in shown(ms) : Known(r, y)
      BY <3>2 DEF MapsOfSets
    <3> HIDE DEF shown
    <3> QED BY <2>3, <3>3, AnswerTells
  <2> HIDE DEF shown, frozen
  <2> QED BY <2>1, <2>2, <2>3, RefusalTells
<1> QED BY <1>9, <1>10, <1>11, <1>12, <1>13, <1>14 DEF beatmapHandlers

\* An order of a finite set is a sequence over it.
LEMMA ListsAreSequences ==
  ASSUME NEW S, IsFiniteSet(S), NEW order \in Lists!SetToSeqs(S)
  PROVE  order \in Seq(S)
<1>1. Cardinality(S) \in Nat
  BY FS_CardinalityType
<1>2. Lists!Cardinality(S) = Cardinality(S)
  BY DEF Lists!Cardinality, Cardinality
<1>3. order \in [1..Cardinality(S) -> S]
  BY <1>2 DEF Lists!SetToSeqs
<1> QED BY <1>1, <1>3

\* The bounds of a page are integers.
LEMMA PageIsInt ==
  ASSUME NEW p \in 0..(MaxInt - 1), NEW l \in PageSizes, NEW n \in Nat
  PROVE  pageStart(p, l, n) \in Int /\ pageEnd(p, l, n) \in Int
<1>1. MaxInt \in Nat /\ l \in Nat /\ p \in Nat
  BY ClansAssumption
<1> DEFINE x == p * l
<1>2. x \in Nat
  BY <1>1
<1>3. int(x) \in Int
  <2> HIDE DEF x
  <2>1. (x + MaxInt + 1) % (2 * (MaxInt + 1)) \in Int
    BY <1>1, <1>2
  <2> QED BY <1>1, <2>1 DEF int
<1>4. int(p * l) \in Int
  BY <1>3
<1> QED BY <1>1, <1>4 DEF pageStart, pageEnd

\* What a page says is the ranks of its clans in the list, or that a clan of it
\* could not be read.
LEMMA PageTells ==
  ASSUME NEW list, NEW order \in rankings(list), NEW from, NEW to, from..to \subseteq DOMAIN order,
         NEW r, \A rank \in RanksIn(list) : Known(r, rank)
  PROVE  \A y \in pageOf(list, order, from, to) : Known(r, y)
<1> DEFINE ranks(o) == {ClanRank(list, o[n], n) : n \in {n \in DOMAIN o : o[n] \in list.read}}
<1>1. UNION {ranks(o) : o \in rankings(list)} \subseteq RanksIn(list)
  BY Zenon DEF RanksIn
<1>2. ASSUME NEW n \in DOMAIN order, order[n] \in list.read
      PROVE  Known(r, ClanRank(list, order[n], n))
  <2>1. ranks(order) \in {ranks(o) : o \in rankings(list)}
    OBVIOUS
  <2>2. ClanRank(list, order[n], n) \in ranks(order)
    BY <1>2
  <2> HIDE DEF ranks
  <2> QED BY <1>1, <2>1, <2>2
<1>3. Known(r, Unread)
  BY DEF Known
<1>4. ASSUME NEW n \in from..to
      PROVE  Known(r, IF order[n] \in list.read THEN ClanRank(list, order[n], n) ELSE Unread)
  BY <1>2, <1>3
<1> QED BY <1>4 DEF pageOf

\* Clans tells of members, and of ranks in an order that there could be.
LEMMA ClansTell ==
  ASSUME HeldInv, NEW r \in Requests, clanHandlers(r)
  PROVE  Tells(r)
<1>1. Serving(r) /\ Moves(r) /\ ClansTypeOK
  BY ClanHandlersMove DEF HeldInv, ServiceInv, TablesTypeOK
<1>2. UNCHANGED <<endpoint, privileges>>
  BY <1>1, MovesQuietly
<1>3. /\ pc[r] # "handler" => StepOf(pc[r], endpoint[r])
      /\ Names(pc[r], arg[r], md[r].id)
  BY <1>1, HandlerSteps DEF HeldInv, ServiceInv
<1>4. endpoint[r] \in OnClans
  BY <1>3 DEF clanHandlers, ClansGET, ClanMembersGET, IsInClanGET, ClanInviteGET,
         ClanInviteGETInvite, ClanStatsGET, TotalClanStatsGET, AllClanStatsGET, Serves, StepOf,
         OnClans
<1>5. ASSUME UNCHANGED userClans
      PROVE  \A y \in ClanFacts : Known(r, y)
  <2>1. ClanFacts' = ClanFacts
    BY <1>2, <1>5 DEF ClanFacts, RanksIn, rankings, listPP, loadClanStats, publicMembers, ClanRank,
          Member, userClans
  <2> QED BY <1>2, <1>4, <2>1, FactsOf DEF Known
<1>6. ASSUME UNCHANGED userClans
      PROVE  /\ \A u \in Users : clanOf[u] # NoClan => Known(r, Member(u))
             /\ \A u \in admins : Known(r, <<"clan admin", u, clanOf[u]>>)
  <2>1. \A u \in Users : clanOf[u] # NoClan => Member(u) \in ClanFacts
    BY DEF ClanFacts
  <2>2. \A u \in admins : <<"clan admin", u, clanOf[u]>> \in ClanFacts
    BY DEF ClanFacts
  <2> QED BY <1>5, <1>6, <2>1, <2>2
<1>7. ASSUME UNCHANGED userClans, NEW list \in ClanLists, NEW rank \in RanksIn(list)
      PROVE  Known(r, rank)
  <2>1. UNION {RanksIn(some) : some \in ClanLists} \subseteq ClanFacts
    BY Zenon DEF ClanFacts
  <2>2. rank \in ClanFacts
    BY <1>7, <2>1
  <2> QED BY <1>5, <1>7, <2>2
<1>8. \A y \in seen[r] : Known(r, y)
  BY <1>1, SeenKnown
<1>9. \A l \in {"clans/getinvite:invite", "clans/stats:members"} :
        l \notin Looking \cup {"done"} \cup Pointing
  BY DEF Looking, Pointing
<1>10. CASE ClansGET(r)
  BY <1>10, NothingTells, RefusalTells DEF ClansGET
<1>11. CASE ClanMembersGET(r)
  <2>1. ASSUME NEW c \in ClanIds, NEW us \in SUBSET {u \in Users : clanOf[u] = c},
               Reply(r, {Member(u) : u \in us})
        PROVE  Tells(r)
    <3>1. \A u \in Users : clanOf[u] = c => Known(r, Member(u))
      BY <1>6, <1>11, ClansAssumption DEF ClanMembersGET
    <3>2. \A y \in {Member(u) : u \in us} : Known(r, y)
      BY <3>1
    <3> QED BY <2>1, <3>2, AnswerTells
  <2> QED BY <1>11, <2>1, RefusalTells DEF ClanMembersGET
<1>12. CASE IsInClanGET(r)
  <2>1. ASSUME NEW u \in Users, ReplyHalfRead(r, IF clanOf[u] = NoClan THEN {} ELSE {Member(u)})
        PROVE  Tells(r)
    <3>1. clanOf[u] # NoClan => Known(r, Member(u))
      BY <1>6, <1>12 DEF IsInClanGET
    <3>2. \A y \in IF clanOf[u] = NoClan THEN {} ELSE {Member(u)} : Known(r, y)
      BY <3>1
    <3> QED BY <2>1, <3>2, HalfReadTells
  <2> QED BY <1>12, <2>1, RefusalTells DEF IsInClanGET
<1>13. CASE ClanInviteGET(r)
  BY <1>6, <1>9, <1>13, FactTells, RefusalTells DEF ClanInviteGET
<1>14. CASE ClanInviteGETInvite(r)
  BY <1>8, <1>14, AnswerTells DEF ClanInviteGETInvite
<1>15. CASE ClanStatsGET(r)
  <2>1. Refuse(r) \/ \E list : Continue(r, "clans/stats:members", list, {})
    BY <1>15 DEF ClanStatsGET
  <2> QED BY <1>9, <2>1, OnTells, RefusalTells
<1>16. CASE TotalClanStatsGET(r)
  <2>1. arg[r] \in ClanLists /\ UNCHANGED userClans
    BY <1>3, <1>16 DEF TotalClanStatsGET, Names
  <2>2. ASSUME NEW rank \in RanksIn(arg[r]), Reply(r, {rank})
        PROVE  Tells(r)
    <3>1. \A y \in {rank} : Known(r, y)
      BY <1>7, <2>1
    <3> QED BY <2>2, <3>1, AnswerTells
  <2> QED BY <1>16, <2>2, NothingTells, RefusalTells DEF TotalClanStatsGET
<1>17. CASE AllClanStatsGET(r)
  <2>1. arg[r] \in ClanLists /\ UNCHANGED userClans
    BY <1>3, <1>17 DEF AllClanStatsGET, Names
  <2>2. ASSUME NEW order \in rankings(arg[r]), NEW p \in 0..(MaxInt - 1), NEW l \in PageSizes,
               ~(pageStart(p, l, Len(order)) < 0),
               Reply(r, pageOf(arg[r], order, pageStart(p, l, Len(order)) + 1,
                                              pageEnd(p, l, Len(order))))
        PROVE  Tells(r)
    <3> DEFINE from == pageStart(p, l, Len(order)) + 1
               to == pageEnd(p, l, Len(order))
    <3>1. Len(order) \in Nat /\ DOMAIN order = 1..Len(order)
      <4>1. ClansIn(arg[r]) \subseteq ClanIds
        BY <2>1 DEF ClansIn, ClanLists
      <4>2. IsFiniteSet(ClansIn(arg[r]))
        BY <4>1, ClansAssumption, FS_Subset
      <4>3. order \in Seq(ClansIn(arg[r]))
        BY <4>2, ListsAreSequences DEF rankings
      <4> QED BY <4>3
    <3>2. from \in Int /\ to \in Int /\ to <= Len(order) /\ 0 < from
      BY <2>2, <3>1, PagesInBounds, PageIsInt
    <3>3. from..to \subseteq DOMAIN order
      BY <3>1, <3>2
    <3> HIDE DEF from, to
    <3>4. \A y \in pageOf(arg[r], order, from, to) : Known(r, y)
      BY <1>7, <2>1, <2>2, <3>3, PageTells
    <3> QED BY <2>2, <3>4, AnswerTells DEF from, to
  <2>3. \/ \E order \in rankings(arg[r]), p \in 0..(MaxInt - 1), l \in PageSizes :
             IF pageStart(p, l, Len(order)) < 0 THEN Reject(r)
             ELSE Reply(r, pageOf(arg[r], order, pageStart(p, l, Len(order)) + 1,
                                                 pageEnd(p, l, Len(order))))
        \/ Refuse(r)
    BY <1>17, Zenon DEF AllClanStatsGET
  <2> QED BY <2>2, <2>3, RefusalTells, RejectionTells, Zenon
<1> QED BY <1>10, <1>11, <1>12, <1>13, <1>14, <1>15, <1>16, <1>17 DEF clanHandlers

\* Tokens are told of as they are in the table.
LEMMA TokensTell ==
  ASSUME HeldInv, NEW r \in Requests, tokenHandlers(r)
  PROVE  Tells(r)
<1>1. ASSUME NEW t \in live, UNCHANGED <<endpoint, live>>
      PROVE  Known(r, <<"token", Owner[t], t>>)
  BY <1>1, FactsOf DEF Known, UserFacts
<1>2. CASE TokenSelfDeletePOST(r)
  BY <1>2, RefusalTells DEF TokenSelfDeletePOST, Tells
<1>3. CASE TokenSelfGET(r)
  <2>1. md[r].token \in live => md[r].id = Owner[md[r].token]
    BY TokensAssumption DEF HeldInv, ServiceInv, PipelineInv, Trusted, UserOK, CaretakerTypeOK
  <2>2. ASSUME md[r].token \in live, Reply(r, {<<"token", md[r].id, md[r].token>>})
        PROVE  Tells(r)
    <3>1. UNCHANGED <<endpoint, live>>
      BY <2>2 DEF Reply, Finish
    <3>2. \A y \in {<<"token", md[r].id, md[r].token>>} : Known(r, y)
      BY <1>1, <2>1, <2>2, <3>1
    <3> QED BY <2>2, <3>2, AnswerTells
  <2> QED BY <1>3, <2>2, RefusalTells DEF TokenSelfGET
<1>4. CASE TokenGET(r)
  <2> DEFINE mine == {t \in live \ (Private \cup Bearers) : Owner[t] = md[r].id}
  <2>1. ASSUME ReplyRows(r, {<<"token", md[r].id, t>> : t \in mine})
        PROVE  Tells(r)
    <3>1. UNCHANGED <<endpoint, live>>
      BY <2>1 DEF ReplyRows, Reply, Finish
    <3>2. \A y \in {<<"token", md[r].id, t>> : t \in mine} : Known(r, y)
      BY <1>1, <3>1
    <3> QED BY <2>1, <3>2, RowsTell
  <2> QED BY <1>4, <2>1, RefusalTells DEF TokenGET
<1> QED BY <1>2, <1>3, <1>4 DEF tokenHandlers

\* A request that the step is not about.
LEMMA OthersHeld ==
  ASSUME SeenHeld, Pointed, Remember, NEW q \in Requests, seen'[q] = seen[q], pc'[q] = pc[q],
         arg'[q] = arg[q], md'[q] = md[q]
  PROVE  /\ IF Serving(q)' THEN seen'[q] \subseteq held'[q] \cup {Unread} ELSE seen'[q] = {}
         /\ Points(pc[q], arg[q], md[q].id)'
<1>1. Serving(q) => held[q] \subseteq held'[q]
  BY HeldGrows DEF Serving, Looking
<1> QED BY <1>1 DEF SeenHeld, Pointed, Serving, Points

\* A request that has read nothing leaves everything as it is, in the pipeline.
LEMMA LookingHeld ==
  ASSUME HeldInv, Remember, NEW r \in Requests, caretaker(r)
  PROVE  DOMAIN seen' = Requests /\ SeenHeld' /\ Pointed' /\ said' = {}
<1>1. ~Serving(r) /\ seen[r] = {}
  <2>1. ~Serving(r)
    BY DEF caretaker, Receive, GetTokenFull, BearerScope, BearerUser, Check, Serving, Looking
  <2> QED BY <2>1 DEF HeldInv, SeenHeld
<1> DEFINE quiet ==
             /\ said' = {}
             /\ seen' \in {seen, [seen EXCEPT ![r] = @ \cup {}], [seen EXCEPT ![r] = {}]}
             /\ DOMAIN seen' = Requests
             /\ pc'[r] \notin Pointing
             /\ \A q \in Requests \ {r} : md'[q] = md[q] /\ pc'[q] = pc[q] /\ arg'[q] = arg[q]
<1>2. quiet
  <2> USE DEF Pointing
  <2>1. /\ DOMAIN seen = Requests /\ DOMAIN md = Requests /\ DOMAIN pc = Requests
        /\ DOMAIN arg = Requests
    BY DEF HeldInv, ServiceInv, PipelineInv, CaretakerTypeOK, Located
  <2>2. CASE Receive(r)
    BY <2>1, <2>2 DEF Receive
  <2>3. ASSUME NEW user, NEW l \in {"check"}, LogIn(r, user, l)
        PROVE  quiet
    BY <2>1, <2>3 DEF LogIn
  <2>4. ASSUME NEW l \in {"bearer:user", "handler"}, Continue(r, l, Nobody, {})
        PROVE  quiet
    BY <2>1, <2>4 DEF Continue
  <2>5. CASE Reject(r)
    BY <2>1, <2>5 DEF Reject, Finish
  <2> QED BY <2>2, <2>3, <2>4, <2>5 DEF caretaker, GetTokenFull, BearerScope, BearerUser, Check
<1>3. seen'[r] = {} /\ \A q \in Requests \ {r} : seen'[q] = seen[q]
  BY <1>1, <1>2 DEF HeldInv
<1>4. ASSUME NEW q \in Requests
      PROVE  /\ IF Serving(q)' THEN seen'[q] \subseteq held'[q] \cup {Unread} ELSE seen'[q] = {}
             /\ Points(pc[q], arg[q], md[q].id)'
  <2>1. CASE q = r
    BY <1>2, <1>3, <2>1 DEF Points, Pointing
  <2>2. CASE q # r
    BY <1>2, <1>3, <2>2, OthersHeld DEF HeldInv
  <2> QED BY <2>1, <2>2
<1> QED BY <1>2, <1>4 DEF SeenHeld, Pointed

\* What a handler reads now it has held, and what it answers with was held.
LEMMA TellsKeeps ==
  ASSUME HeldInv, Remember, NEW r \in Requests, Serving(r), Tells(r)
  PROVE  DOMAIN seen' = Requests /\ SeenHeld' /\ Pointed'
<1>1. /\ DOMAIN seen = Requests /\ DOMAIN md = Requests /\ DOMAIN pc = Requests
      /\ DOMAIN arg = Requests
  BY DEF HeldInv, ServiceInv, PipelineInv, CaretakerTypeOK, Located
<1>2. ASSUME NEW l, NEW x, NEW facts, Continue(r, l, x, facts), l \notin Looking \cup {"done"},
             Points(l, x, md[r].id), \A y \in facts : Known(r, y)
      PROVE  DOMAIN seen' = Requests /\ SeenHeld' /\ Pointed'
  <2>1. /\ pc' = [pc EXCEPT ![r] = l] /\ seen' = [seen EXCEPT ![r] = @ \cup facts]
        /\ arg' = [arg EXCEPT ![r] = x] /\ UNCHANGED md
    BY <1>2 DEF Continue
  <2>2. held'[r] = held[r] \cup Facts(endpoint[r])' /\ Serving(r)'
    BY <1>1, <1>2, <2>1 DEF Remember, Serving, Looking
  <2>3. seen'[r] \subseteq held'[r] \cup {Unread}
    BY <1>1, <1>2, <2>1, <2>2 DEF HeldInv, SeenHeld, Known
  <2>4. Points(pc[r], arg[r], md[r].id)'
    BY <1>1, <1>2, <2>1 DEF Points
  <2>5. ASSUME NEW q \in Requests \ {r}
        PROVE  /\ IF Serving(q)' THEN seen'[q] \subseteq held'[q] \cup {Unread} ELSE seen'[q] = {}
               /\ Points(pc[q], arg[q], md[q].id)'
    BY <1>1, <2>1, OthersHeld DEF HeldInv
  <2> QED BY <1>1, <2>1, <2>2, <2>3, <2>4, <2>5 DEF SeenHeld, Pointed
<1>3. ASSUME NEW status, NEW facts, Finish(r, status, facts)
      PROVE  DOMAIN seen' = Requests /\ SeenHeld' /\ Pointed'
  <2>1. /\ pc' = [pc EXCEPT ![r] = "done"] /\ md' = [md EXCEPT ![r] = Anonymous]
        /\ seen' = [seen EXCEPT ![r] = {}] /\ arg' = [arg EXCEPT ![r] = Nobody]
    BY <1>3 DEF Finish
  <2>2. ~Serving(r)' /\ seen'[r] = {} /\ Points(pc[r], arg[r], md[r].id)'
    BY <1>1, <2>1 DEF Serving, Points
  <2>3. ASSUME NEW q \in Requests \ {r}
        PROVE  /\ IF Serving(q)' THEN seen'[q] \subseteq held'[q] \cup {Unread} ELSE seen'[q] = {}
               /\ Points(pc[q], arg[q], md[q].id)'
    BY <1>1, <2>1, OthersHeld DEF HeldInv
  <2> QED BY <1>1, <2>1, <2>2, <2>3 DEF SeenHeld, Pointed
<1> QED BY <1>2, <1>3 DEF Tells

\* What r is answered now was held by it.
AnswerHeld(r) ==
  Answered(r) => said' \subseteq held[r] \cup Facts(endpoint[r])'
                                \cup {Unread} \cup {<<"position", u, 1>> : u \in Users}

\* A handler that tells what is known answers what was held.
LEMMA TellsAnswers ==
  ASSUME HeldInv, NEW r \in Requests, Tells(r)
  PROVE  \A q \in Requests : AnswerHeld(q)
<1>1. DOMAIN answer = Requests
  BY DEF HeldInv, ServiceInv, PipelineInv, CaretakerTypeOK
<1>2. ASSUME NEW l, NEW x, NEW facts, Continue(r, l, x, facts)
      PROVE  \A q \in Requests : AnswerHeld(q)
  BY <1>2 DEF Continue, AnswerHeld, Answered
<1>3. ASSUME NEW status, NEW facts, Finish(r, status, facts),
             \A y \in facts : Known(r, y) \/ \E u \in Users : y = <<"position", u, 1>>
      PROVE  \A q \in Requests : AnswerHeld(q)
  <2>1. answer' = [answer EXCEPT ![r] = status] /\ said' = facts
    BY <1>3 DEF Finish
  <2>2. \A q \in Requests \ {r} : ~Answered(q)
    BY <1>1, <2>1 DEF Answered
  <2>3. AnswerHeld(r)
    BY <1>3, <2>1 DEF AnswerHeld, Known
  <2> QED BY <2>2, <2>3 DEF AnswerHeld
<1> QED BY <1>2, <1>3 DEF Tells

\* Every step keeps the invariant and answers what was held.
LEMMA StepTells ==
  ASSUME HeldInv, Next
  PROVE  DOMAIN seen' = Requests /\ SeenHeld' /\ Pointed' /\ \A q \in Requests : AnswerHeld(q)
<1>1. ASSUME NEW r \in Requests, Serving(r), Tells(r), Remember
      PROVE  DOMAIN seen' = Requests /\ SeenHeld' /\ Pointed' /\ \A q \in Requests : AnswerHeld(q)
  BY <1>1, TellsKeeps, TellsAnswers
<1>2. ASSUME NEW r \in Requests, Caretaking(r)
      PROVE  DOMAIN seen' = Requests /\ SeenHeld' /\ Pointed' /\ \A q \in Requests : AnswerHeld(q)
  <2>1. Remember
    BY <1>2 DEF Caretaking
  <2>2. CASE caretaker(r)
    BY <2>1, <2>2, LookingHeld DEF AnswerHeld
  <2>3. CASE tokenHandlers(r)
    <3>1. Serving(r)
      BY <2>3 DEF tokenHandlers, TokenSelfDeletePOST, TokenSelfGET, TokenGET, Serves, Serving, Looking
    <3> QED BY <1>1, <2>1, <2>3, <3>1, TokensTell
  <2> QED BY <1>2, <2>2, <2>3 DEF Caretaking
<1>3. ASSUME NEW r \in Requests, ServeRelationships(r)
      PROVE  DOMAIN seen' = Requests /\ SeenHeld' /\ Pointed' /\ \A q \in Requests : AnswerHeld(q)
  BY <1>1, <1>3, RelationshipsTell, RelationshipHandlersMove
     DEF ServeRelationships, HeldInv, ServiceInv, TablesTypeOK
<1>4. ASSUME NEW r \in Requests, ServeScores(r)
      PROVE  DOMAIN seen' = Requests /\ SeenHeld' /\ Pointed' /\ \A q \in Requests : AnswerHeld(q)
  BY <1>1, <1>4, ScoresTell, ScoreHandlersMove DEF ServeScores, HeldInv, ServiceInv, TablesTypeOK
<1>5. ASSUME NEW r \in Requests, ServeComments(r)
      PROVE  DOMAIN seen' = Requests /\ SeenHeld' /\ Pointed' /\ \A q \in Requests : AnswerHeld(q)
  BY <1>1, <1>5, CommentsTell, CommentHandlersMove
     DEF ServeComments, HeldInv, ServiceInv, TablesTypeOK
<1>6. ASSUME NEW r \in Requests, ServeProfiles(r)
      PROVE  DOMAIN seen' = Requests /\ SeenHeld' /\ Pointed' /\ \A q \in Requests : AnswerHeld(q)
  BY <1>1, <1>6, ProfilesTell, ProfileHandlersMove
     DEF ServeProfiles, HeldInv, ServiceInv, TablesTypeOK
<1>7. ASSUME NEW r \in Requests, ServeBeatmaps(r)
      PROVE  DOMAIN seen' = Requests /\ SeenHeld' /\ Pointed' /\ \A q \in Requests : AnswerHeld(q)
  BY <1>1, <1>7, BeatmapsTell, BeatmapHandlersMove
     DEF ServeBeatmaps, HeldInv, ServiceInv, TablesTypeOK
<1>8. ASSUME NEW r \in Requests, ServeClans(r)
      PROVE  DOMAIN seen' = Requests /\ SeenHeld' /\ Pointed' /\ \A q \in Requests : AnswerHeld(q)
  BY <1>1, <1>8, ClansTell, ClanHandlersMove DEF ServeClans, HeldInv, ServiceInv, TablesTypeOK
<1>9. CASE World
  <2>1. UNCHANGED requestVars /\ Remember
    BY <1>9 DEF World, ChangeUser, DropToken, MoveBoard, ChangeClan
  <2>2. DOMAIN seen' = Requests /\ SeenHeld' /\ Pointed'
    BY <2>1, OthersHeld DEF HeldInv, SeenHeld, Pointed, requestVars
  <2>3. \A q \in Requests : AnswerHeld(q)
    BY <2>1 DEF AnswerHeld, Answered, requestVars
  <2> QED BY <2>2, <2>3
<1> QED BY <1>2, <1>3, <1>4, <1>5, <1>6, <1>7, <1>8, <1>9 DEF Next

\* What an answer says was in the database while the request ran, each fact at a
\* moment of its own, however the requests interleave and users, tokens, boards
\* and clans change.  The rank of a clan is its rank in the list that the handler
\* read, which may lack clans.  Two things in an answer are no facts: what stands
\* there for a row or a count that could not be read, and the positions that Redis
\* does not give.
THEOREM AnswersWereTrue == Spec => AnswersHeld
<1>1. Init => HeldInv
  <2>1. Init => DOMAIN seen = Requests /\ SeenHeld /\ Pointed
    BY DEF Init, CaretakerInit, SeenHeld, Pointed, Points, Serving, Looking
  <2>2. Init => ServiceInv
    BY InitPipeline, InitTables DEF ServiceInv
  <2> QED BY <2>1, <2>2 DEF HeldInv
<1>2. HeldInv /\ [Next]_vars => HeldInv'
  <2>1. CASE Next
    BY <2>1, StepKeeps, StepTells DEF HeldInv
  <2>2. ASSUME HeldInv, UNCHANGED vars
        PROVE  HeldInv'
    <3>1. DOMAIN seen' = Requests /\ SeenHeld' /\ Pointed'
      BY <2>2 DEF HeldInv, SeenHeld, Pointed, Points, vars, requestVars, Serving
    <3> QED BY <2>2, <3>1, StutterKeeps DEF HeldInv
  <2> QED BY <2>1, <2>2
<1>3. HeldInv /\ [Next]_vars =>
        [\A r \in Requests :
           Answered(r) => said' \subseteq held[r] \cup Facts(endpoint[r])'
                                         \cup {Unread} \cup {<<"position", u, 1>> : u \in Users}]_vars
  BY StepTells DEF AnswerHeld
<1> QED BY <1>1, <1>2, <1>3, PTL DEF Spec, AnswersHeld

-----------------------------------------------------------------------------
(* The pages of AllClanStatsGET.                                            *)

\* The start of the next page.
LEMMA NextPage ==
  ASSUME NEW p \in Nat, NEW l \in Nat
  PROVE  (p + 1) * l = p * l + l /\ p * l \in Nat
OBVIOUS

\* A page ends where a later one starts, or before.
LEMMA PagesApart ==
  ASSUME NEW p \in Nat, NEW q \in Nat, NEW l \in Nat, p < q
  PROVE  p * l + l <= q * l
<1> DEFINE d == q - (p + 1)
<1>1. d \in Nat /\ q = d + (p + 1)
  OBVIOUS
<1>2. d * l \in Nat /\ (p + 1) * l \in Int
  BY <1>1
<1>3. (d + (p + 1)) * l = d * l + (p + 1) * l
  BY <1>1
<1>4. q * l = d * l + (p + 1) * l
  BY <1>1, <1>3
<1> HIDE DEF d
<1> QED BY <1>2, <1>4, NextPage

\* Page p starts after p places at least.
LEMMA PagesAreLate ==
  ASSUME NEW p \in Nat, NEW l \in Nat \ {0}
  PROVE  p <= p * l
<1>1. PICK e \in Nat : l = e + 1
  <2>1. l - 1 \in Nat /\ l = (l - 1) + 1
    OBVIOUS
  <2> QED BY <2>1
<1>2. p * e \in Nat /\ p * (e + 1) = p * e + p
  OBVIOUS
<1>3. p * l = p * (e + 1)
  BY <1>1
<1> QED BY <1>2, <1>3

\* The number k is among the l numbers of page p; every number is on a page.
PageHas(p, l, k) == p * l <= k /\ k < p * l + l

LEMMA OnAPage ==
  ASSUME NEW l \in Nat \ {0}, NEW j \in Nat
  PROVE  \E p \in Nat : PageHas(p, l, j)
<1> DEFINE S == {k \in Nat : \E p \in Nat : PageHas(p, l, k)}
<1>1. 0 \in S
  <2>1. 0 * l = 0
    OBVIOUS
  <2>2. PageHas(0, l, 0)
    BY <2>1 DEF PageHas
  <2> QED BY <2>2
<1>2. ASSUME NEW k \in S
      PROVE  k + 1 \in S
  <2>1. PICK p \in Nat : PageHas(p, l, k)
    OBVIOUS
  <2>2. (p + 1) * l = p * l + l /\ p * l \in Nat
    BY NextPage
  <2>3. PageHas(p, l, k + 1) \/ PageHas(p + 1, l, k + 1)
    BY <2>1, <2>2 DEF PageHas
  <2>4. \E q \in Nat : PageHas(q, l, k + 1)
    BY <2>3
  <2> QED BY <2>4
<1>3. S = Nat
  <2> HIDE DEF S
  <2>1. S \in SUBSET Nat
    BY DEF S
  <2> QED BY <1>1, <1>2, <2>1, SetInduction
<1> QED BY <1>3

\* A product that an int can hold does not wrap around.
LEMMA SmallInt ==
  ASSUME NEW x \in 0..MaxInt
  PROVE  int(x) = x
<1>1. MaxInt \in Nat
  BY ClansAssumption
<1>2. (x + MaxInt + 1) % (2 * (MaxInt + 1)) = x + MaxInt + 1
  BY <1>1
<1> QED BY <1>1, <1>2 DEF int

\* The places of page p of l clans out of n.
OnPage(k, p, l, n) == k \in (pageStart(p, l, n) + 1)..pageEnd(p, l, n)

\* They are the l places after the first p pages, as far as the list goes.
LEMMA PlacesOfPage ==
  ASSUME NEW p \in Nat, NEW l \in Nat, NEW n \in Nat, p * l <= MaxInt, NEW k \in 1..n
  PROVE  OnPage(k, p, l, n) <=> p * l < k /\ k <= p * l + l
<1> DEFINE x == p * l
<1>1. x \in 0..MaxInt
  BY NextPage, ClansAssumption
<1>2. int(x) = x
  <2> HIDE DEF x
  <2> QED BY <1>1, SmallInt
<1>3. /\ pageStart(p, l, n) = IF x > n THEN n ELSE x
      /\ pageEnd(p, l, n) = IF pageStart(p, l, n) + l > n THEN n ELSE pageStart(p, l, n) + l
  BY <1>2 DEF pageStart, pageEnd
<1> HIDE DEF x
<1>4. OnPage(k, p, l, n) <=> x < k /\ k <= x + l
  BY <1>1, <1>3, ClansAssumption DEF OnPage
<1> QED BY <1>4 DEF x

\* The pages of AllClanStatsGET share out the clans: whatever the page size, each
\* place of the ranking is on one page, and on one only of those whose start an
\* int can hold.
THEOREM PagesShareOut ==
  ASSUME NEW l \in PageSizes, NEW n \in 0..MaxInt, NEW k \in 1..n
  PROVE  /\ \E p \in 0..(MaxInt - 1) : p * l <= MaxInt /\ OnPage(k, p, l, n)
         /\ \A p, q \in Nat : /\ p * l <= MaxInt /\ OnPage(k, p, l, n)
                              /\ q * l <= MaxInt /\ OnPage(k, q, l, n)
                              => p = q
<1>1. l \in Nat \ {0} /\ n \in Nat /\ MaxInt \in Nat
  BY ClansAssumption
<1>2. k - 1 \in Nat /\ k - 1 <= MaxInt /\ k \in Nat
  BY <1>1
<1>3. \E p \in 0..(MaxInt - 1) : p * l <= MaxInt /\ OnPage(k, p, l, n)
  <2>1. PICK p \in Nat : p * l <= k - 1 /\ k - 1 < p * l + l
    BY <1>1, <1>2, OnAPage DEF PageHas
  <2>2. p * l \in Nat
    BY <1>1, NextPage
  <2>3. p * l <= MaxInt /\ p * l < k /\ k <= p * l + l
    BY <1>1, <1>2, <2>1, <2>2
  <2>4. p <= p * l
    BY <1>1, PagesAreLate
  <2>5. p \in 0..(MaxInt - 1)
    BY <1>1, <2>1, <2>2, <2>4
  <2> QED BY <1>1, <2>3, <2>5, PlacesOfPage
<1>4. ASSUME NEW p \in Nat, NEW q \in Nat, p < q, p * l <= MaxInt, q * l <= MaxInt,
             OnPage(k, p, l, n), OnPage(k, q, l, n)
      PROVE  FALSE
  <2>1. k <= p * l + l /\ q * l < k
    BY <1>1, <1>4, PlacesOfPage
  <2>2. p * l + l <= q * l
    BY <1>1, <1>4, PagesApart
  <2>3. p * l \in Nat /\ q * l \in Nat
    BY <1>1, NextPage
  <2> QED BY <1>1, <1>2, <2>1, <2>2, <2>3
<1>5. \A p, q \in Nat : p # q => p < q \/ q < p
  OBVIOUS
<1> QED BY <1>3, <1>4, <1>5
=============================================================================
