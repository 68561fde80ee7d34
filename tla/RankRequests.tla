---------------------------- MODULE RankRequests ---------------------------
(***************************************************************************)
(* app/v1/beatmap_requests.go: the requests to rank a beatmap.  A request  *)
(* asks four questions of the database, one statement each, and inserts a  *)
(* row at the end: there is room in the queue and for the user, the        *)
(* beatmap is not ranked, and nobody asked for it in the last 24 hours.    *)
(* Other requests run between the statements.                              *)
(*                                                                         *)
(* A statement that fails ends the request with a 500.  A request that is  *)
(* malformed, or that the rate limiter turns away, changes nothing and is  *)
(* left out.  rank_requests.id is the index of a row.                      *)
(*                                                                         *)
(* A submission names a beatmap, a set or both, and nothing makes the two  *)
(* belong together.  The variables of the history are read by properties   *)
(* only.                                                                   *)
(***************************************************************************)
EXTENDS Naturals, Sequences, FiniteSets

CONSTANTS
  Requests,    \* the goroutines that serve submissions
  Users,       \* the users who submit
  Maps, Sets,  \* the ids of beatmaps and of sets
  None,        \* the id 0, of a field that the body leaves out
  SetOf,       \* the set that a row of beatmaps names for its map
  Asks,        \* the bodies of the submissions
  QueueSize,   \* RANK_QUEUE_SIZE
  MaxPerUser,  \* BEATMAP_REQUESTS_PER_USER
  Lifetime,    \* 24 hours, in ticks of the clock
  MaxTime,     \* bound of the clock, for TLC
  MaxRows,     \* bound of the table, for TLC
  MaxShort     \* bound of the submissions whose status skips rows, for TLC

ASSUME LimitsAssumption == QueueSize \in Nat \ {0} /\ MaxPerUser \in Nat \ {0}
ASSUME TimesAssumption == Lifetime \in Nat \ {0} /\ {MaxTime, MaxRows, MaxShort} \subseteq Nat
ASSUME RequestsAssumption == IsFiniteSet(Requests) /\ Requests # {} /\ None \notin Users
ASSUME MapsAssumption == None \notin Maps \cup Sets /\ SetOf \in [Maps -> Sets]


\* submitRequestData, which has one of its fields at least.
Empty == [id |-> None, set |-> None]
ASSUME AsksAssumption ==
  /\ Asks # {}
  /\ Asks \subseteq [id : Maps \cup {None}, set : Sets \cup {None}] \ {Empty}

\* The type and the value of a request: the set, if the body names one.
What(ask) == IF ask.set # None THEN <<"s", ask.set>> ELSE <<"b", ask.id>>

VARIABLES
  now,        \* time.Now()
  rows,       \* rank_requests, in the order of their ids
  published,  \* what LETS has heard on lets:beatmap_updates
  known,      \* the maps with a row in beatmaps
  pc,         \* the next statement of a request
  user,       \* md.ID() of a request
  asked,      \* its body
  stamp,      \* the time in the arguments of its INSERT
  handed,     \* history: what was handed to Publish
  behind,     \* history: the body of the submission behind a row
  short,      \* history: the requests whose status skipped a row
  shortRows   \* history: the rows that such requests inserted

requestVars == <<user, asked, stamp, short>>
history == <<handed, behind, shortRows>>
vars == <<now, rows, published, known, pc, requestVars, history>>

Row == [userid : Users, what : {What(ask) : ask \in Asks}, time : Nat]

TypeOK ==
  /\ now \in Nat
  /\ rows \in Seq(Row)
  /\ published \subseteq Asks
  /\ known \subseteq Maps
  /\ pc \in [Requests -> {"idle", "status", "beatmap", "duplicate", "stamp", "insert"}]
  /\ user \in [Requests -> Users \cup {None}]
  /\ asked \in [Requests -> Asks \cup {Empty}]
  /\ \A r \in Requests : pc[r] # "idle" => user[r] \in Users /\ asked[r] \in Asks
  /\ stamp \in [Requests -> Nat]
  /\ handed \subseteq Asks
  /\ behind \in Seq(Asks) /\ Len(behind) = Len(rows)
  /\ short \subseteq Requests
  /\ shortRows \subseteq DOMAIN rows

Init ==
  /\ now = 0
  /\ rows = <<>>
  /\ published = {}
  /\ known \in SUBSET Maps
  /\ pc = [r \in Requests |-> "idle"]
  /\ user = [r \in Requests |-> None]
  /\ asked = [r \in Requests |-> Empty]
  /\ stamp = [r \in Requests |-> 0]
  /\ handed = {} /\ behind = <<>> /\ short = {} /\ shortRows = {}

-----------------------------------------------------------------------------
(* The queries.                                                             *)

\* time > now - 24h
Active == {i \in DOMAIN rows : rows[i].time + Lifetime > now}

\* ORDER BY id ASC LIMIT n
First(ids, n) == {i \in ids : Cardinality({j \in ids : j < i}) < n}

\* BeatmapRankRequestsStatusGET: the rows that its query is for.
Listed == First(Active, QueueSize)

\* Mutant of CanSubmit: one request too many is let in.
CanSubmitOneMore(u, read) ==
  /\ Cardinality(read) <= QueueSize
  /\ Cardinality({i \in read : rows[i].userid = u}) < MaxPerUser

\* Mutant of CanSubmit: the requests of the user are not counted.
CanSubmitAnyUser(u, read) == Cardinality(read) < QueueSize

\* BeatmapRankRequestsStatusGET: Submitted and SubmittedByUser count the rows
\* that were read, and CanSubmit compares them with the limits.
CanSubmit(u, read) ==
  /\ Cardinality(read) < QueueSize
  /\ Cardinality({i \in read : rows[i].userid = u}) < MaxPerUser

\* The row that the duplicate check looks for.
Duplicates(w) == {i \in Active : rows[i].what = w}

\* beatmap_id = ? OR beatmapset_id = ?
Matches(m, ask) == m = ask.id \/ SetOf[m] = ask.set
Known(ask) == \E m \in known : Matches(m, ask)

-----------------------------------------------------------------------------
(* The steps of a submission.                                               *)

Goto(r, l) ==
  /\ pc' = [pc EXCEPT ![r] = l]
  /\ UNCHANGED requestVars

\* The request is answered, and its variables go.
End(r) ==
  /\ pc' = [pc EXCEPT ![r] = "idle"]
  /\ user' = [user EXCEPT ![r] = None]
  /\ asked' = [asked EXCEPT ![r] = Empty]
  /\ stamp' = [stamp EXCEPT ![r] = 0]
  /\ short' = short \ {r}

\* A submission is read and has passed the limiter.
Submit(r) ==
  /\ pc[r] = "idle"
  /\ \E u \in Users, ask \in Asks :
       /\ user' = [user EXCEPT ![r] = u]
       /\ asked' = [asked EXCEPT ![r] = ask]
  /\ pc' = [pc EXCEPT ![r] = "status"]
  /\ UNCHANGED <<now, rows, published, known, stamp, short, history>>

\* The status.  A row whose Scan fails is logged and skipped, and so are the
\* rows after an error of the iteration, for nothing looks at rows.Err.  The
\* request goes on, it is answered 403, or the query failed.  A token without
\* ReadConfidential has no CanSubmit, and the look at it panics, which ends the
\* request as well.
CheckStatus(r) ==
  /\ pc[r] = "status"
  /\ \/ \E read \in SUBSET Listed :
          /\ CanSubmit(user[r], read)
          /\ read # Listed => Cardinality(short) + Cardinality(shortRows) < MaxShort
          /\ short' = short \cup (IF read = Listed THEN {} ELSE {r})
          /\ pc' = [pc EXCEPT ![r] = "beatmap"]
          /\ UNCHANGED <<user, asked, stamp>>
     \/ End(r)
  /\ UNCHANGED <<now, rows, published, known, history>>

\* Mutant of FindBeatmap: an unknown map is not announced.
FindBeatmapSilently(r) ==
  /\ pc[r] = "beatmap"
  /\ Goto(r, "duplicate") \/ End(r)
  /\ UNCHANGED <<now, rows, published, known, history>>

\* The state of the beatmap.  When neither the map nor the set is known, the body
\* is handed to Publish, whose error nobody looks at: LETS may never hear of it.
\* A map that is ranked already (406) and an error end the request.
FindBeatmap(r) ==
  /\ pc[r] = "beatmap"
  /\ \/ /\ ~Known(asked[r])
        /\ handed' = handed \cup {asked[r]}
        /\ published' \in {published, published \cup {asked[r]}}
        /\ Goto(r, "duplicate")
     \/ /\ Known(asked[r])
        /\ Goto(r, "duplicate")
        /\ UNCHANGED <<published, handed>>
     \/ End(r) /\ UNCHANGED <<published, handed>>
  /\ UNCHANGED <<now, rows, known, behind, shortRows>>

\* Mutant of FindDuplicate: an error of the query is taken for no row.
FindDuplicateOrGoOn(r) ==
  /\ pc[r] = "duplicate"
  /\ Goto(r, "stamp") \/ End(r)
  /\ UNCHANGED <<now, rows, published, known, history>>

\* A request for the same map or set within 24 hours counts as this one (200).
FindDuplicate(r) ==
  /\ pc[r] = "duplicate"
  /\ \/ Duplicates(What(asked[r])) = {} /\ Goto(r, "stamp")
     \/ End(r)
  /\ UNCHANGED <<now, rows, published, known, history>>

\* Mutant of Stamp: the time is the one the queries compare with.
StampDayBefore(r) ==
  /\ pc[r] = "stamp"
  /\ stamp' = [stamp EXCEPT ![r] = now - Lifetime]
  /\ pc' = [pc EXCEPT ![r] = "insert"]
  /\ UNCHANGED <<now, rows, published, known, user, asked, short, history>>

\* time.Now() among the arguments of the INSERT.
Stamp(r) ==
  /\ pc[r] = "stamp"
  /\ stamp' = [stamp EXCEPT ![r] = now]
  /\ pc' = [pc EXCEPT ![r] = "insert"]
  /\ UNCHANGED <<now, rows, published, known, user, asked, short, history>>

\* The INSERT, which may fail.
Insert(r) ==
  /\ pc[r] = "insert"
  /\ \/ /\ Len(rows) < MaxRows
        /\ rows' = Append(rows, [userid |-> user[r], what |-> What(asked[r]), time |-> stamp[r]])
        /\ behind' = Append(behind, asked[r])
        /\ shortRows' = shortRows \cup (IF r \in short THEN {Len(rows')} ELSE {})
     \/ UNCHANGED <<rows, behind, shortRows>>
  /\ End(r)
  /\ UNCHANGED <<now, published, known, handed>>

Tick ==
  /\ now < MaxTime
  /\ now' = now + 1
  /\ UNCHANGED <<rows, published, known, pc, requestVars, history>>

\* LETS fetches a map that it has heard of, by itself or with its set.
Fetch(m) ==
  /\ m \notin known
  /\ \E ask \in published : Matches(m, ask)
  /\ known' = known \cup {m}
  /\ UNCHANGED <<now, rows, published, pc, requestVars, history>>

submission(r) ==
  \/ Submit(r) \/ CheckStatus(r) \/ FindBeatmap(r) \/ FindDuplicate(r)
  \/ Stamp(r) \/ Insert(r)

Next ==
  \/ \E r \in Requests : submission(r)
  \/ \E m \in Maps : Fetch(m)
  \/ Tick

Spec == Init /\ [][Next]_vars

-----------------------------------------------------------------------------

\* The rows in the queue whose submission was counted against every row of it.
Counted == Active \ shortRows

\* The check and the INSERT are apart, so requests that run side by side pass
\* the queue's limit: by all of them but one.  Only a status that could not read
\* a row lets the queue grow beyond that, by the row of its own submission.
QueueBound ==
  Cardinality(Counted) <= QueueSize + Cardinality(Requests) - 1

\* The same of the limit of each user.
UserBound ==
  \A u \in Users :
    Cardinality({i \in Counted : rows[i].userid = u}) <= MaxPerUser + Cardinality(Requests) - 1

\* A map or set is in the queue once for each request that runs side by side, at
\* most: one at a time, submissions never duplicate one another.
DuplicateBound ==
  \A ask \in Asks : Cardinality(Duplicates(What(ask))) <= Cardinality(Requests)

\* A row is of a submission whose map or set has a row in beatmaps, or whose body
\* was handed to Publish as it is.  No more is true: a known map of one set may
\* put another set into the queue that nobody was told of.
QueuedIsFetched ==
  \A i \in DOMAIN rows : Known(behind[i]) \/ behind[i] \in handed
=============================================================================
