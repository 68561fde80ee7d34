---------------------------- MODULE WebsocketHub ---------------------------
(***************************************************************************)
(* app/websockets: the connections of the API websocket, the two lists of  *)
(* subscriptions, and the goroutines that hand the messages published in   *)
(* Redis (a submitted score, a completed multiplayer match) to the         *)
(* subscribers.                                                            *)
(*                                                                         *)
(* Each connection has a handler, which serves one client message at a     *)
(* time: it changes the state under a lock, then writes the reply, which   *)
(* is part of the step here.  Each published message has a goroutine of    *)
(* its own (go handleNewScore, go handleNewMultiGame): it copies the list  *)
(* and writes to one subscriber after the other, while the handlers go on. *)
(* A client message that does not parse, of unknown type, a ping, or an    *)
(* Identify that finds no token only has a reply and is left out.          *)
(*                                                                         *)
(* A connection is its ID.  A write to a client that stopped reading       *)
(* waits, with the lock of the connection held.                            *)
(***************************************************************************)
EXTENDS Naturals, Sequences, SequencesExt, FiniteSetsExt

CONSTANTS
  Conns,         \* the connections
  Scores,        \* the score ids published on api:score_submission
  Matches,       \* the payloads published on api:mp_complete_match
  ClientTypes,   \* the types of the messages that clients send
  Filters,       \* the subscribeScoresUser lists that clients send
  ScoreUser(_),  \* the user id of a score
  ScoreMode(_),  \* the play mode of a score
  Restricted(_)  \* the author of the score is restricted (privileges & 3 # 3)

ASSUME RestrictedAssumption == \A m \in Scores : Restricted(m) \in BOOLEAN
ASSUME MessagesAssumption == Scores \cap Matches = {}
ASSUME ClientTypesAssumption ==
  ClientTypes \subseteq {"subscribe_scores", "subscribe_mp_complete_match",
                         "identify", "set_restricted_visibility"}

Messages == Scores \cup Matches

VARIABLES
  handler,             \* where the handler of a connection is
  User,                \* c.User: nobody, or whether that user may manage users
  RestrictedVisible,   \* c.RestrictedVisible
  scoreSubscriptions,  \* the list of [Conn, Users]
  multiSubscriptions,  \* the list of connections
  subscribed,          \* the retrievers (by channel) that are still running
  mpc,                 \* where the goroutine of a message is
  cp,                  \* its copy of the list, what is left of it
  got                  \* the messages written to a connection, in order

connVars == <<handler, User, RestrictedVisible>>
listVars == <<scoreSubscriptions, multiSubscriptions>>
messageVars == <<subscribed, mpc, cp, got>>
vars == <<connVars, listVars, messageVars>>

\* What the history of a connection must show, for the properties only.
VARIABLES
  asked,    \* the filters a connection has sent so far
  cleared   \* the connections that a manager made see restricted users
historyVars == <<asked, cleared>>
allVars == <<vars, historyVars>>

\* The entries of a connection, by index (el.Conn.ID == c.ID, el.ID == c.ID).
ScoreEntries(c) == {i \in DOMAIN scoreSubscriptions : scoreSubscriptions[i].Conn = c}
MultiEntries(c) == {i \in DOMAIN multiSubscriptions : multiSubscriptions[i] = c}

Serving == {"reading", "stalled", "broken"}
Subscription == [Conn : Conns, Users : Filters]

TypeOK ==
  /\ handler \in [Conns -> Serving \cup {"new", "cleanup", "cleanup multi", "gone"}]
  /\ User \in [Conns -> {"none", "user", "manager"}]
  /\ RestrictedVisible \in [Conns -> BOOLEAN]
  /\ scoreSubscriptions \in Seq(Subscription)
  /\ multiSubscriptions \in Seq(Conns)
  /\ subscribed \subseteq {"scores", "matches"}
  /\ mpc \in [Messages -> {"unpublished", "get", "copy", "loop", "write", "end", "failed"}]
  /\ cp \in [Messages -> Seq(Subscription) \cup Seq(Conns)]
  /\ \A m \in Scores : cp[m] \in Seq(Subscription)
  /\ \A m \in Matches : cp[m] \in Seq(Conns)
  /\ got \in [Conns -> Seq(Messages)]
  /\ asked \in [Conns -> SUBSET Filters]
  /\ cleared \subseteq Conns

Init ==
  /\ handler = [c \in Conns |-> "new"]
  /\ User = [c \in Conns |-> "none"]
  /\ RestrictedVisible = [c \in Conns |-> FALSE]
  /\ scoreSubscriptions = <<>>
  /\ multiSubscriptions = <<>>
  /\ subscribed = {"scores", "matches"}
  /\ mpc = [m \in Messages |-> "unpublished"]
  /\ cp = [m \in Messages |-> <<>>]
  /\ got = [c \in Conns |-> <<>>]
  /\ asked = [c \in Conns |-> {}]
  /\ cleared = {}

-----------------------------------------------------------------------------
(* The handler of a connection.                                             *)

\* handler: a new connection, up to the "connected" message and the first read.
Connect(c) ==
  /\ handler[c] = "new"
  /\ handler' = [handler EXCEPT ![c] = "reading"]
  /\ UNCHANGED <<User, RestrictedVisible, listVars, messageVars, historyVars>>

\* The handler reads a message of this type, serves it and writes the reply.
Serves(c, type) ==
  /\ type \in ClientTypes
  /\ handler[c] = "reading"
  /\ UNCHANGED <<handler, messageVars>>

\* Mutant of SubscribeScores: it does not look for an older entry.
SubscribeScoresAgain(c) ==
  /\ Serves(c, "subscribe_scores")
  /\ \E ssu \in Filters :
       /\ scoreSubscriptions' = Append(scoreSubscriptions, [Conn |-> c, Users |-> ssu])
       /\ asked' = [asked EXCEPT ![c] = @ \cup {ssu}]
  /\ UNCHANGED <<User, RestrictedVisible, multiSubscriptions, cleared>>

\* SubscribeScores: replace the users of the subscription, or add one.
SubscribeScores(c) ==
  /\ Serves(c, "subscribe_scores")
  /\ \E ssu \in Filters :
       /\ scoreSubscriptions' =
            IF ScoreEntries(c) # {}
              THEN [i \in DOMAIN scoreSubscriptions |->
                     IF i \in ScoreEntries(c)
                       THEN [Conn |-> c, Users |-> ssu]
                       ELSE scoreSubscriptions[i]]
              ELSE Append(scoreSubscriptions, [Conn |-> c, Users |-> ssu])
       /\ asked' = [asked EXCEPT ![c] = @ \cup {ssu}]
  /\ UNCHANGED <<User, RestrictedVisible, multiSubscriptions, cleared>>

\* Mutant of SubscribeMultiMatches: it does not look for an older entry.
SubscribeMultiAgain(c) ==
  /\ Serves(c, "subscribe_mp_complete_match")
  /\ multiSubscriptions' = Append(multiSubscriptions, c)
  /\ UNCHANGED <<User, RestrictedVisible, scoreSubscriptions, historyVars>>

\* SubscribeMultiMatches: add the connection unless it is there.
SubscribeMultiMatches(c) ==
  /\ Serves(c, "subscribe_mp_complete_match")
  /\ multiSubscriptions' =
       IF MultiEntries(c) # {}
         THEN multiSubscriptions
         ELSE Append(multiSubscriptions, c)
  /\ UNCHANGED <<User, RestrictedVisible, scoreSubscriptions, historyVars>>

\* Identify: the token belongs to a user, who may manage users or not.
Identify(c) ==
  /\ Serves(c, "identify")
  /\ \E u \in {"user", "manager"} : User' = [User EXCEPT ![c] = u]
  /\ UNCHANGED <<RestrictedVisible, listVars, historyVars>>

\* Mutant of SetRestrictedVisibility: the privilege of the user is not checked.
SetVisibilityUnchecked(c) ==
  /\ Serves(c, "set_restricted_visibility")
  /\ \E visibility \in BOOLEAN :
       /\ RestrictedVisible' = [RestrictedVisible EXCEPT ![c] = visibility]
       /\ cleared' = IF visibility /\ User[c] = "manager" THEN cleared \cup {c} ELSE cleared
  /\ UNCHANGED <<User, listVars, asked>>

\* SetRestrictedVisibility: what the client asks, for a manager only.
SetRestrictedVisibility(c) ==
  /\ Serves(c, "set_restricted_visibility")
  /\ \E visibility \in BOOLEAN :
       LET userIsManager == User[c] = "manager" IN
       /\ RestrictedVisible' = [RestrictedVisible EXCEPT ![c] = visibility /\ userIsManager]
       /\ cleared' = IF visibility /\ User[c] = "manager" THEN cleared \cup {c} ELSE cleared
  /\ UNCHANGED <<User, listVars, asked>>

\* Mutant of Close: the panic of a broken connection skips the cleanup.
CloseWithoutCleanup(c) ==
  /\ handler[c] \in {"reading", "stalled", "broken"}
  /\ handler' = [handler EXCEPT ![c] = IF @ = "broken" THEN "gone" ELSE "cleanup"]
  /\ UNCHANGED <<User, RestrictedVisible, listVars, messageVars, historyVars>>

\* handler: ReadJSON returns a CloseError, or panics after it failed again and
\* again; the deferred cleanup runs.
Close(c) ==
  /\ handler[c] \in {"reading", "stalled", "broken"}
  /\ handler' = [handler EXCEPT ![c] = "cleanup"]
  /\ UNCHANGED <<User, RestrictedVisible, listVars, messageVars, historyVars>>

\* handler: ReadJSON returns an error that is no CloseError: the loop goes on
\* with a connection that is dead.
Break(c) ==
  /\ handler[c] \in {"reading", "stalled"}
  /\ handler' = [handler EXCEPT ![c] = "broken"]
  /\ UNCHANGED <<User, RestrictedVisible, listVars, messageVars, historyVars>>

\* Mutant of SwapRemove: the last entry goes, and is not put anywhere.
RemoveLast(list, entries) == IF entries = {} THEN list ELSE Front(list)

\* Mutant of SwapRemove: the place of the last entry is cleared, not cut off.
RemoveUncut(list, entries) ==
  IF entries = {} THEN list
  ELSE [[list EXCEPT ![Min(entries)] = Last(list)]
         EXCEPT ![Len(list)] = [Conn |-> "nil", Users |-> <<>>]]

\* cleanup: of the entries of the connection, the first gives its place to the
\* last entry of the list.
SwapRemove(list, entries) ==
  IF entries = {} THEN list
  ELSE Front([list EXCEPT ![Min(entries)] = Last(list)])

\* cleanup: under scoreSubscriptionsMtx.
CleanupScores(c) ==
  /\ handler[c] = "cleanup"
  /\ scoreSubscriptions' = SwapRemove(scoreSubscriptions, ScoreEntries(c))
  /\ handler' = [handler EXCEPT ![c] = "cleanup multi"]
  /\ UNCHANGED <<User, RestrictedVisible, multiSubscriptions, messageVars, historyVars>>

\* cleanup: under multiSubscriptionsMtx; rawConn.Close() after it.
CleanupMulti(c) ==
  /\ handler[c] = "cleanup multi"
  /\ multiSubscriptions' = SwapRemove(multiSubscriptions, MultiEntries(c))
  /\ handler' = [handler EXCEPT ![c] = "gone"]
  /\ UNCHANGED <<User, RestrictedVisible, scoreSubscriptions, messageVars, historyVars>>

\* The client stops reading, and the buffers on the way to it are full.
Stall(c) ==
  /\ handler[c] = "reading"
  /\ handler' = [handler EXCEPT ![c] = "stalled"]
  /\ UNCHANGED <<User, RestrictedVisible, listVars, messageVars, historyVars>>

\* The client reads again.
Resume(c) ==
  /\ handler[c] = "stalled"
  /\ handler' = [handler EXCEPT ![c] = "reading"]
  /\ UNCHANGED <<User, RestrictedVisible, listVars, messageVars, historyVars>>

-----------------------------------------------------------------------------
(* The published messages.                                                  *)

Channel(m) == IF m \in Scores THEN "scores" ELSE "matches"

\* scoreRetriever, matchRetriever: ReceiveMessage, and a goroutine for it.
Retrieve(m) ==
  /\ mpc[m] = "unpublished"
  /\ Channel(m) \in subscribed
  /\ mpc' = [mpc EXCEPT ![m] = IF m \in Scores THEN "get" ELSE "copy"]
  /\ UNCHANGED <<connVars, listVars, subscribed, cp, got, historyVars>>

\* scoreRetriever, matchRetriever: ReceiveMessage fails; the goroutine returns
\* and no message of the channel is received any more.
RetrieverEnds(ch) ==
  /\ ch \in subscribed
  /\ subscribed' = subscribed \ {ch}
  /\ UNCHANGED <<connVars, listVars, mpc, cp, got, historyVars>>

\* handleNewScore: the score is read from the database, or the query fails and
\* the message is dropped.
GetScore(m) ==
  /\ mpc[m] = "get"
  /\ \E res \in {"copy", "failed"} : mpc' = [mpc EXCEPT ![m] = res]
  /\ UNCHANGED <<connVars, listVars, subscribed, cp, got, historyVars>>

\* handleNewScore, handleNewMultiGame: the copy under the read lock.
Copy(m) ==
  /\ mpc[m] = "copy"
  /\ cp' = [cp EXCEPT ![m] = IF m \in Scores THEN scoreSubscriptions ELSE multiSubscriptions]
  /\ mpc' = [mpc EXCEPT ![m] = "loop"]
  /\ UNCHANGED <<connVars, listVars, subscribed, got, historyVars>>

\* scoreUserValid: the first entry for the user decides; no modes are all.
scoreUserValid(users, m) ==
  LET mine == {i \in DOMAIN users : users[i].user = ScoreUser(m)} IN
  /\ mine # {}
  /\ LET u == users[Min(mine)] IN u.modes = {} \/ ScoreMode(m) \in u.modes

\* An empty list of users is a subscription to every score.
Wanted(users, m) == users # <<>> => scoreUserValid(users, m)

Target(m) == IF m \in Scores THEN Head(cp[m]).Conn ELSE Head(cp[m])

\* Mutant of Check: the users of the entry are not looked at.
CheckUnfiltered(m) ==
  /\ mpc[m] = "loop"
  /\ cp[m] # <<>>
  /\ LET el == Head(cp[m])
         write == m \in Scores /\ Restricted(m) => RestrictedVisible[el.Conn]
     IN  /\ mpc' = [mpc EXCEPT ![m] = IF write THEN "write" ELSE "loop"]
         /\ cp' = [cp EXCEPT ![m] = IF write THEN @ ELSE Tail(@)]
  /\ UNCHANGED <<connVars, listVars, subscribed, got, historyVars>>

\* The loop: the next entry of the copy is to be written to, or is skipped by
\* the filter it had when the copy was made and by c.RestrictedVisible as it is
\* now.
Check(m) ==
  /\ mpc[m] = "loop"
  /\ cp[m] # <<>>
  /\ LET el == Head(cp[m])
         write == m \in Scores =>
                    /\ Wanted(el.Users, m)
                    /\ Restricted(m) => RestrictedVisible[el.Conn]
     IN  /\ mpc' = [mpc EXCEPT ![m] = IF write THEN "write" ELSE "loop"]
         /\ cp' = [cp EXCEPT ![m] = IF write THEN @ ELSE Tail(@)]
  /\ UNCHANGED <<connVars, listVars, subscribed, got, historyVars>>

\* Mutant of Write: a write that fails ends the loop.
WriteOrEnd(m) ==
  /\ mpc[m] = "write"
  /\ LET c == Target(m) IN
     /\ handler[c] # "stalled"
     /\ got' = IF handler[c] = "reading"
                 THEN [got EXCEPT ![c] = Append(@, m)]
                 ELSE got
     /\ mpc' = [mpc EXCEPT ![m] = IF handler[c] = "reading" THEN "loop" ELSE "end"]
  /\ cp' = [cp EXCEPT ![m] = Tail(@)]
  /\ UNCHANGED <<connVars, listVars, subscribed, historyVars>>

\* el.Conn.WriteJSON: it reaches a client whose connection is up; on another it
\* fails, which nobody looks at.
Write(m) ==
  /\ mpc[m] = "write"
  /\ LET c == Target(m) IN
     /\ handler[c] # "stalled"
     /\ got' = IF handler[c] = "reading"
                 THEN [got EXCEPT ![c] = Append(@, m)]
                 ELSE got
  /\ cp' = [cp EXCEPT ![m] = Tail(@)]
  /\ mpc' = [mpc EXCEPT ![m] = "loop"]
  /\ UNCHANGED <<connVars, listVars, subscribed, historyVars>>

\* The copy is used up.
Finish(m) ==
  /\ mpc[m] = "loop"
  /\ cp[m] = <<>>
  /\ mpc' = [mpc EXCEPT ![m] = "end"]
  /\ UNCHANGED <<connVars, listVars, subscribed, cp, got, historyVars>>

-----------------------------------------------------------------------------

serve(c) ==
  \/ Connect(c) \/ SubscribeScores(c) \/ SubscribeMultiMatches(c) \/ Identify(c)
  \/ SetRestrictedVisibility(c) \/ Stall(c) \/ Resume(c) \/ Break(c) \/ Close(c)
  \/ CleanupScores(c) \/ CleanupMulti(c)

handle(m) == GetScore(m) \/ Copy(m) \/ Check(m) \/ Write(m) \/ Finish(m)

Next ==
  \/ \E c \in Conns : serve(c)
  \/ \E m \in Messages : Retrieve(m) \/ handle(m)
  \/ \E ch \in subscribed : RetrieverEnds(ch)

Spec == Init /\ [][Next]_allVars

\* Every goroutine that can go on does; the clients, Redis and the network do
\* what they like.
FairSpec ==
  /\ Spec
  /\ \A m \in Messages : WF_allVars(handle(m))
  /\ \A c \in Conns : WF_allVars(CleanupScores(c) \/ CleanupMulti(c))

-----------------------------------------------------------------------------

\* A connection is in each list once at most: cleanup removes one entry, and a
\* second one would be written to twice and stay for ever.
OneEntry ==
  \A c \in Conns : /\ \A i, j \in ScoreEntries(c) : i = j
                   /\ \A i, j \in MultiEntries(c) : i = j

\* When the handler of a connection has returned the lists do not mention it.
NoEntryLeft ==
  \A c \in Conns : /\ handler[c] \in {"new", "cleanup multi", "gone"} => ScoreEntries(c) = {}
                   /\ handler[c] \in {"new", "gone"} => MultiEntries(c) = {}

\* A subscription lasts as long as its connection is served: another connection
\* that goes away moves entries about, but takes none but its own.
SubscriptionLasts ==
  [][\A c \in Conns : handler[c] \in Serving =>
       /\ ScoreEntries(c) # {} => ScoreEntries(c)' # {}
       /\ MultiEntries(c) # {} => MultiEntries(c)' # {}]_allVars

\* A client gets a published message once at most.
WrittenOnce ==
  \A c \in Conns : \A i, j \in DOMAIN got[c] : got[c][i] = got[c][j] => i = j

\* A client gets a score only if one of the filters it sent lets it through,
\* also when it changed its filter while the score was being handed out.
OnlyWhatWasAsked ==
  \A c \in Conns : \A i \in DOMAIN got[c] :
    got[c][i] \in Scores => \E f \in asked[c] : Wanted(f, got[c][i])

\* A score of a restricted user goes only to a connection that asked to see
\* restricted users while it was identified as somebody who manages users.
RestrictedHidden ==
  \A c \in Conns : \A i \in DOMAIN got[c] :
    got[c][i] \in Scores /\ Restricted(got[c][i]) => c \in cleared

\* A message that is being handed out reaches everyone who is in the list, stays
\* connected and (for a score) wants all scores, unless a client that stopped
\* reading holds up the goroutine.
Reaches(c, m) ==
  /\ mpc[m] = "copy"
  /\ IF m \in Scores
       THEN ~Restricted(m) /\ \E i \in ScoreEntries(c) : scoreSubscriptions[i].Users = <<>>
       ELSE MultiEntries(c) # {}

Delivered ==
  \A c \in Conns, m \in Messages :
    Reaches(c, m) ~>
      \/ \E i \in DOMAIN got[c] : got[c][i] = m
      \/ handler[c] # "reading"
      \/ \E d \in Conns : handler[d] = "stalled"
      \/ m \in Scores /\ \A i \in ScoreEntries(c) : scoreSubscriptions[i].Users # <<>>
=============================================================================
