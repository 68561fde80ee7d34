------------------------------ MODULE Comments -----------------------------
(***************************************************************************)
(* The comments on the profiles of users: app/v1/comments.go, on           *)
(* user_comments and users.disabled_comments.                              *)
(***************************************************************************)
EXTENDS Caretaker

CONSTANT OldComments  \* the comments that are there at the start

ASSUME CommentsAssumption == OldComments \cap Requests = {}

\* The id of a comment is the request that posts it, or old.
CommentIds == Requests \cup OldComments

VARIABLES
  comments,  \* user_comments: a comment has an id, its author op and a profile prof
  disabled   \* the users with disabled_comments

Comment(c) == <<"comment", c.op, c.id>>

\* The comments of a profile that its readers see: those of public users.
Readable(u) == {c \in comments : c.prof = u /\ "UserPublic" \in privileges[c.op]}

Total(u) == <<"total", u, Cardinality(Readable(u))>>
Open(u) == <<"open", u, u>>

\* The ids of no comment: of one that is gone, or that is yet to come.
NoComment(id) == <<"no comment", Nobody, id>>

CommentFacts ==
  {Comment(c) : c \in comments}
  \cup {NoComment(id) : id \in CommentIds \ {c.id : c \in comments}}
  \cup {Total(u) : u \in Users}
  \cup {Open(u) : u \in Users \ disabled} \cup {<<"disabled", u, u>> : u \in disabled}

CommentsTypeOK ==
  /\ comments \subseteq [id : CommentIds, op : Users, prof : Users]
  /\ disabled \subseteq Users

-----------------------------------------------------------------------------
(* CommentPOST.  A read whose outcome will refuse the comment refuses it at *)
(* once here: the reads that follow it change nothing.                      *)

\* Mutant of CommentPOST: the profile is not looked up, and may be of nobody.
CommentPOSTAnybody(r) ==
  /\ Serves(r, "comments/post")
  /\ \/ \E u \in Users \cup {Nobody} : Continue(r, "comments/post:me", u, {})
     \/ Refuse(r)
  /\ UNCHANGED <<comments, disabled>>

\* Is the owner of the profile public?
CommentPOST(r) ==
  /\ Serves(r, "comments/post")
  /\ \/ \E u \in Users : /\ "UserPublic" \in privileges[u]
                         /\ Continue(r, "comments/post:me", u, {<<"public", u, u>>})
     \/ Refuse(r)
  /\ UNCHANGED <<comments, disabled>>

\* Is the author public?
CommentPOSTMe(r) ==
  /\ pc[r] = "comments/post:me"
  /\ \/ /\ "UserPublic" \in privileges[md[r].id]
        /\ Continue(r, "comments/post:open", arg[r], {<<"public", md[r].id, md[r].id>>})
     \/ Refuse(r)
  /\ UNCHANGED <<comments, disabled>>

\* Mutant of CommentPOSTOpen: whether comments are allowed is not looked at.
CommentPOSTOpenAlways(r) ==
  /\ pc[r] = "comments/post:open"
  /\ Continue(r, "comments/post:insert", arg[r], {Open(arg[r])}) \/ Refuse(r)
  /\ UNCHANGED <<comments, disabled>>

\* Are comments allowed on the profile?  The length is checked then.
CommentPOSTOpen(r) ==
  /\ pc[r] = "comments/post:open"
  /\ \/ arg[r] \notin disabled /\ Continue(r, "comments/post:insert", arg[r], {Open(arg[r])})
     \/ Refuse(r)
  /\ UNCHANGED <<comments, disabled>>

\* The INSERT.
CommentPOSTInsert(r) ==
  /\ pc[r] = "comments/post:insert"
  /\ \/ /\ comments' = comments \cup {[id |-> r, op |-> md[r].id, prof |-> arg[r]]}
        /\ Reply(r, seen[r])
     \/ Refuse(r) /\ UNCHANGED comments
  /\ UNCHANGED disabled

-----------------------------------------------------------------------------
(* Reading and deleting.                                                    *)

\* CommentGET: is the profile visible, and are comments allowed on it?
CommentGET(r) ==
  /\ Serves(r, "comments")
  /\ \/ \E u \in Users : /\ Visible(r, u, TRUE)
                         /\ u \notin disabled \/ ManagesUsers(md[r])
                         /\ Continue(r, "comments:rows", u, {<<"user", u, u>>})
     \/ Refuse(r)
  /\ UNCHANGED <<comments, disabled>>

\* CommentGET: the comments.
CommentGETRows(r) ==
  /\ pc[r] = "comments:rows"
  /\ \/ \E some \in SUBSET Readable(arg[r]) : Reply(r, seen[r] \cup {Comment(c) : c \in some})
     \/ Refuse(r)
  /\ UNCHANGED <<comments, disabled>>

\* CommentDELETE: op and prof are read; the author, the owner of the profile and
\* those who manage users may delete it.
CommentDELETE(r) ==
  /\ Serves(r, "comments/delete")
  /\ \/ \E c \in comments :
          /\ md[r].id \in {c.op, c.prof} \/ ManagesUsers(md[r])
          /\ Continue(r, "comments/delete:row", c.id, {})
     \/ Refuse(r)
  /\ UNCHANGED <<comments, disabled>>

\* CommentDELETE: the DELETE.
CommentDELETERow(r) ==
  /\ pc[r] = "comments/delete:row"
  /\ \/ /\ comments' = {c \in comments : c.id # arg[r]}
        /\ Reply(r, {NoComment(arg[r])})
     \/ Refuse(r) /\ UNCHANGED comments
  /\ UNCHANGED disabled

\* CommentInfoGET: the comments are counted before the profile is looked at.
CommentInfoGET(r) ==
  /\ Serves(r, "comments/info")
  /\ \/ \E u \in Users : Continue(r, "comments/info:profile", u, {Total(u)})
     \/ Refuse(r)
  /\ UNCHANGED <<comments, disabled>>

\* CommentInfoGET: the profile must be visible.
CommentInfoGETProfile(r) ==
  /\ pc[r] = "comments/info:profile"
  /\ LET u == arg[r] IN
     \/ /\ Visible(r, u, TRUE)
        /\ Reply(r, seen[r] \cup {<<"user", u, u>>,
                                  IF u \in disabled THEN <<"disabled", u, u>> ELSE Open(u)})
     \/ Refuse(r)
  /\ UNCHANGED <<comments, disabled>>

commentHandlers(r) ==
  \/ CommentPOST(r) \/ CommentPOSTMe(r) \/ CommentPOSTOpen(r) \/ CommentPOSTInsert(r)
  \/ CommentGET(r) \/ CommentGETRows(r) \/ CommentDELETE(r) \/ CommentDELETERow(r)
  \/ CommentInfoGET(r) \/ CommentInfoGETProfile(r)
=============================================================================
