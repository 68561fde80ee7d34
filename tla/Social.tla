------------------------------- MODULE Social ------------------------------
(***************************************************************************)
(* What the calls that write friends, pins, comments and score reports     *)
(* promise: a call takes effect once, at the moment it is answered with    *)
(* the code 200, on what belongs to its caller, and the effect is what the *)
(* answer says; a call that is answered with another code has no effect,   *)
(* whatever the status.                                                    *)
(***************************************************************************)
CONSTANTS Requests, Users, Nobody, Scores, Player, Managers, CommentIds, Endpoints

VARIABLES
  call,      \* the endpoint of a request
  caller,    \* its user, until it is answered
  answer,    \* "none"; "ok" for the code 200; "no" and "pls200" for others
  said,      \* what this step says or relies on, as facts of a kind, a user and a thing
  friends,   \* the pairs of a user and a friend
  pins,      \* the pairs of a user and a score
  comments,  \* the comments, with their id, their author op and their profile prof
  reports    \* the requests that have made a score report

records == <<friends, pins, comments, reports>>
vars == <<call, caller, answer, records>>

Writes == {"friends/add", "friends/del", "pin", "unpin", "comments/post", "comments/delete",
           "scores/reports"}

Init ==
  /\ call = [r \in Requests |-> "none"]
  /\ caller = [r \in Requests |-> Nobody]
  /\ answer = [r \in Requests |-> "none"]

\* A request comes in.
Call(r) ==
  /\ call[r] = "none"
  /\ \E e \in Endpoints : call' = [call EXCEPT ![r] = e]
  /\ UNCHANGED <<caller, answer, records>>

\* Its user becomes known.
Identify(r) ==
  /\ answer[r] = "none"
  /\ \E u \in Users \cup {Nobody} : caller' = [caller EXCEPT ![r] = u]
  /\ UNCHANGED <<call, answer, records>>

Answer(r, status) ==
  /\ answer[r] = "none"
  /\ answer' = [answer EXCEPT ![r] = status]
  /\ caller' = [caller EXCEPT ![r] = Nobody]
  /\ UNCHANGED call

AddFriend(r) ==
  /\ call[r] = "friends/add"
  /\ \E u \in Users \ {caller[r]} :
       /\ <<"friend", caller[r], u>> \in said'
       /\ friends' = friends \cup {<<caller[r], u>>}
  /\ UNCHANGED <<pins, comments, reports>>

\* The user that is named goes, or there is nobody of the name.
DeleteFriend(r) ==
  /\ call[r] = "friends/del"
  /\ \/ \E u \in Users :
          /\ said' = {<<"stranger", caller[r], u>>}
          /\ friends' = friends \ {<<caller[r], u>>}
     \/ said' = {} /\ UNCHANGED friends
  /\ UNCHANGED <<pins, comments, reports>>

Pin(r) ==
  /\ call[r] = "pin"
  /\ \E s \in Scores :
       /\ Player[s] = caller[r]
       /\ said' = {<<"score", caller[r], s>>}
       /\ pins' = pins \cup {<<caller[r], s>>}
  /\ UNCHANGED <<friends, comments, reports>>

\* It was a pin of the caller a statement ago, and is none now.
Unpin(r) ==
  /\ call[r] = "unpin"
  /\ \E s \in Scores :
       /\ said' = {<<"pin", caller[r], s>>}
       /\ pins' = pins \ {<<caller[r], s>>}
  /\ UNCHANGED <<friends, comments, reports>>

PostComment(r) ==
  /\ call[r] = "comments/post"
  /\ \E u \in Users : comments' = comments \cup {[id |-> r, op |-> caller[r], prof |-> u]}
  /\ UNCHANGED <<friends, pins, reports>>

\* The comment goes, if nobody else has deleted it first.
DeleteComment(r) ==
  /\ call[r] = "comments/delete"
  /\ \E id \in CommentIds :
       /\ said' = {<<"no comment", Nobody, id>>}
       /\ comments' = {c \in comments : c.id # id}
       /\ \A c \in comments \ comments' : caller[r] \in {c.op, c.prof} \cup Managers
  /\ UNCHANGED <<friends, pins, reports>>

Report(r) ==
  /\ call[r] = "scores/reports"
  /\ caller[r] \in Managers
  /\ reports' = reports \cup {r}
  /\ UNCHANGED <<friends, pins, comments>>

Effect(r) ==
  AddFriend(r) \/ DeleteFriend(r) \/ Pin(r) \/ Unpin(r) \/ PostComment(r) \/ DeleteComment(r)
  \/ Report(r)

\* A call that takes effect, one that only reads, and one that fails.
Succeed(r) == Answer(r, "ok") /\ Effect(r)
Read(r) == Answer(r, "ok") /\ call[r] \notin Writes /\ UNCHANGED records
Fail(r) == (\E status \in {"no", "pls200"} : Answer(r, status)) /\ UNCHANGED records

Next == \E r \in Requests : Call(r) \/ Identify(r) \/ Succeed(r) \/ Read(r) \/ Fail(r)

Spec == Init /\ [][Next]_vars
=============================================================================
