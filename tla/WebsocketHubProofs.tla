------------------------- MODULE WebsocketHubProofs ------------------------
(* What the websocket promises for every number of connections and messages. *)
EXTENDS WebsocketHub, SequenceTheorems, TLAPS

-----------------------------------------------------------------------------
(* Lists.                                                                    *)

\* With one entry k to remove, the last entry takes its place: what is left is
\* a list shorter by one, with the other entries of the old one.
LEMMA SwapRemoveOne ==
  ASSUME NEW S, NEW list \in Seq(S), NEW k \in DOMAIN list
  PROVE  /\ SwapRemove(list, {k}) \in Seq(S)
         /\ Len(SwapRemove(list, {k})) = Len(list) - 1
         /\ \A i \in 1..(Len(list) - 1) :
              SwapRemove(list, {k})[i] = IF i = k THEN list[Len(list)] ELSE list[i]
<1> DEFINE new == [list EXCEPT ![k] = list[Len(list)]]
           n == Len(list) - 1
<1>1. k \in 1..Len(list) /\ Len(list) \in Nat /\ n \in Nat /\ n \in Int /\ n <= Len(list)
  OBVIOUS
<1>2. SwapRemove(list, {k}) = SubSeq(new, 1, n)
  <2>1. Min({k}) = k
    BY DEF Min
  <2>2. SwapRemove(list, {k}) = Front(new)
    BY <2>1 DEF SwapRemove, Last
  <2>3. Len(new) = Len(list)
    BY <1>1
  <2> QED BY <2>2, <2>3 DEF Front
<1>3. new \in Seq(S) /\ \A i \in 1..Len(list) : new[i] = IF i = k THEN list[Len(list)] ELSE list[i]
  BY <1>1, ExceptSeq
<1>4. n = Len(list) - 1
  OBVIOUS
<1> HIDE DEF new, n
<1>5. \A i \in 1..n : new[i] \in S /\ i \in 1..Len(list)
  BY <1>1, <1>3
<1>6. /\ SubSeq(new, 1, n) \in Seq(S)
      /\ Len(SubSeq(new, 1, n)) = IF 1 <= n THEN n - 1 + 1 ELSE 0
      /\ \A i \in 1..(n - 1 + 1) : SubSeq(new, 1, n)[i] = new[1 + i - 1]
  BY <1>1, <1>5, SubSeqProperties, 1 \in Int
<1>7. Len(SubSeq(new, 1, n)) = n /\ \A i \in 1..n : SubSeq(new, 1, n)[i] = new[i]
  BY <1>1, <1>6
<1> QED BY <1>2, <1>3, <1>4, <1>5, <1>6, <1>7

\* Entries may be replaced where they are.
LEMMA Replace ==
  ASSUME NEW S, NEW list \in Seq(S), NEW E, NEW x \in S
  PROVE  [i \in DOMAIN list |-> IF i \in E THEN x ELSE list[i]] \in Seq(S)
<1> DEFINE new == [i \in DOMAIN list |-> IF i \in E THEN x ELSE list[i]]
<1>1. new \in [1..Len(list) -> S] /\ Len(list) \in Nat
  OBVIOUS
<1> HIDE DEF new
<1>2. new \in Seq(S)
  BY <1>1, SeqDef
<1> QED BY <1>2 DEF new

\* A connection has one entry in a list at most, which SwapRemove takes out.
LEMMA AtMostOneEntry ==
  ASSUME OneEntry, NEW c \in Conns
  PROVE  /\ \/ ScoreEntries(c) = {}
            \/ \E k \in DOMAIN scoreSubscriptions : ScoreEntries(c) = {k}
         /\ \/ MultiEntries(c) = {}
            \/ \E k \in DOMAIN multiSubscriptions : MultiEntries(c) = {k}
<1>1. ASSUME NEW k \in ScoreEntries(c)
      PROVE  ScoreEntries(c) = {k} /\ k \in DOMAIN scoreSubscriptions
  BY <1>1 DEF OneEntry, ScoreEntries
<1>2. ASSUME NEW k \in MultiEntries(c)
      PROVE  MultiEntries(c) = {k} /\ k \in DOMAIN multiSubscriptions
  BY <1>2 DEF OneEntry, MultiEntries
<1> QED BY <1>1, <1>2

\* The score list after SubscribeScores: its entries are the connections they
\* were, and c is one of them.
LEMMA SubscribeScoresList ==
  ASSUME TypeOK, OneEntry, NEW c \in Conns, SubscribeScores(c)
  PROVE  /\ scoreSubscriptions' \in Seq(Subscription)
         /\ \A d \in Conns : d # c => ScoreEntries(d)' = ScoreEntries(d)
         /\ \A i, j \in ScoreEntries(c)' : i = j
         /\ ScoreEntries(c)' # {}
<1> DEFINE list == scoreSubscriptions
<1>1. PICK x \in Subscription :
        /\ x.Conn = c
        /\ list' = IF ScoreEntries(c) # {}
                     THEN [i \in DOMAIN list |-> IF i \in ScoreEntries(c) THEN x ELSE list[i]]
                     ELSE Append(list, x)
  BY DEF SubscribeScores, Subscription
<1>2. list \in Seq(Subscription)
  BY DEF TypeOK
<1>3. CASE ScoreEntries(c) # {}
  <2>1. list' = [i \in DOMAIN list |-> IF i \in ScoreEntries(c) THEN x ELSE list[i]]
    BY <1>1, <1>3
  <2>2. list' \in Seq(Subscription)
    BY <1>2, <2>1, Replace
  <2>3. \A d \in Conns : ScoreEntries(d)' = ScoreEntries(d)
    BY <1>1, <2>1 DEF ScoreEntries
  <2> QED BY <1>3, <2>2, <2>3 DEF OneEntry
<1>4. CASE ScoreEntries(c) = {}
  <2>1. list' = Append(list, x)
    BY <1>1, <1>4
  <2>2. /\ list' \in Seq(Subscription)
        /\ Len(list') = Len(list) + 1
        /\ \A i \in 1..Len(list) : list'[i] = list[i]
        /\ list'[Len(list) + 1] = x
        /\ Len(list) \in Nat
    BY <1>2, <2>1, AppendProperties
  <2>3. DOMAIN list = 1..Len(list) /\ DOMAIN list' = 1..(Len(list) + 1)
    BY <1>2, <2>2
  <2>4. \A d \in Conns : d # c => ScoreEntries(d)' = ScoreEntries(d)
    BY <1>1, <2>2, <2>3 DEF ScoreEntries
  <2>5. ScoreEntries(c)' = {Len(list) + 1}
    BY <1>1, <1>4, <2>2, <2>3 DEF ScoreEntries
  <2> QED BY <2>2, <2>4, <2>5
<1> QED BY <1>3, <1>4

\* The list of the matches after SubscribeMultiMatches.
LEMMA SubscribeMultiList ==
  ASSUME TypeOK, OneEntry, NEW c \in Conns, SubscribeMultiMatches(c)
  PROVE  /\ multiSubscriptions' \in Seq(Conns)
         /\ \A d \in Conns : d # c => MultiEntries(d)' = MultiEntries(d)
         /\ \A i, j \in MultiEntries(c)' : i = j
         /\ MultiEntries(c)' # {}
<1> DEFINE list == multiSubscriptions
<1>1. list \in Seq(Conns)
  BY DEF TypeOK
<1>2. CASE MultiEntries(c) # {}
  BY <1>1, <1>2 DEF SubscribeMultiMatches, OneEntry, MultiEntries
<1>3. CASE MultiEntries(c) = {}
  <2>1. list' = Append(list, c)
    BY <1>3 DEF SubscribeMultiMatches
  <2>2. /\ list' \in Seq(Conns)
        /\ Len(list') = Len(list) + 1
        /\ \A i \in 1..Len(list) : list'[i] = list[i]
        /\ list'[Len(list) + 1] = c
        /\ Len(list) \in Nat
    BY <1>1, <2>1, AppendProperties
  <2>3. DOMAIN list = 1..Len(list) /\ DOMAIN list' = 1..(Len(list) + 1)
    BY <1>1, <2>2
  <2>4. \A d \in Conns : d # c => MultiEntries(d)' = MultiEntries(d)
    BY <2>2, <2>3 DEF MultiEntries
  <2>5. MultiEntries(c)' = {Len(list) + 1}
    BY <1>3, <2>2, <2>3 DEF MultiEntries
  <2> QED BY <2>2, <2>4, <2>5
<1> QED BY <1>2, <1>3

\* The score list after its part of cleanup: the entry of c is gone, and every
\* other connection has an entry if and only if it had one.
LEMMA CleanupScoresList ==
  ASSUME TypeOK, OneEntry, NEW c \in Conns, CleanupScores(c)
  PROVE  /\ scoreSubscriptions' \in Seq(Subscription)
         /\ ScoreEntries(c)' = {}
         /\ \A d \in Conns : d # c =>
              /\ ScoreEntries(d)' # {} <=> ScoreEntries(d) # {}
              /\ \A i, j \in ScoreEntries(d)' : i = j
<1> DEFINE list == scoreSubscriptions
<1>1. list \in Seq(Subscription)
  BY DEF TypeOK
<1>2. list' = SwapRemove(list, ScoreEntries(c))
  BY DEF CleanupScores
<1>3. CASE ScoreEntries(c) = {}
  BY <1>1, <1>2, <1>3 DEF SwapRemove, OneEntry, ScoreEntries
<1>4. ASSUME NEW k \in DOMAIN list, ScoreEntries(c) = {k}
      PROVE  /\ list' \in Seq(Subscription)
             /\ ScoreEntries(c)' = {}
             /\ \A d \in Conns : d # c =>
                  /\ ScoreEntries(d)' # {} <=> ScoreEntries(d) # {}
                  /\ \A i, j \in ScoreEntries(d)' : i = j
  <2>1. /\ list' \in Seq(Subscription)
        /\ Len(list') = Len(list) - 1
        /\ \A i \in 1..(Len(list) - 1) : list'[i] = IF i = k THEN list[Len(list)] ELSE list[i]
    BY <1>1, <1>2, <1>4, SwapRemoveOne
  <2>2. /\ DOMAIN list = 1..Len(list) /\ DOMAIN list' = 1..(Len(list) - 1)
        /\ Len(list) \in Nat /\ k \in 1..Len(list)
    BY <1>1, <1>4, <2>1
  <2>3. list[k].Conn = c /\ \A i \in 1..Len(list) : i # k => list[i].Conn # c
    BY <1>4, <2>2 DEF ScoreEntries
  <2>4. ScoreEntries(c)' = {}
    BY <2>1, <2>2, <2>3 DEF ScoreEntries
  <2>5. ASSUME NEW d \in Conns, d # c
        PROVE  /\ ScoreEntries(d)' # {} <=> ScoreEntries(d) # {}
               /\ \A i, j \in ScoreEntries(d)' : i = j
    <3>1. \A i \in ScoreEntries(d) : i # k /\ i \in 1..Len(list)
      BY <2>2, <2>3, <2>5 DEF ScoreEntries
    <3>2. \A i \in ScoreEntries(d) :
            IF i = Len(list) THEN k \in ScoreEntries(d)' ELSE i \in ScoreEntries(d)'
      BY <2>1, <2>2, <3>1 DEF ScoreEntries
    <3>3. \A i \in ScoreEntries(d)' :
            i \in 1..(Len(list) - 1) /\ (IF i = k THEN Len(list) \in ScoreEntries(d) ELSE i \in ScoreEntries(d))
      BY <2>1, <2>2 DEF ScoreEntries
    <3>4. \A i, j \in ScoreEntries(d) : i = j
      BY DEF OneEntry
    <3> QED BY <2>2, <3>1, <3>2, <3>3, <3>4
  <2> QED BY <2>1, <2>4, <2>5
<1> QED BY <1>3, <1>4, AtMostOneEntry

\* The same of the list of the matches.
LEMMA CleanupMultiList ==
  ASSUME TypeOK, OneEntry, NEW c \in Conns, CleanupMulti(c)
  PROVE  /\ multiSubscriptions' \in Seq(Conns)
         /\ MultiEntries(c)' = {}
         /\ \A d \in Conns : d # c =>
              /\ MultiEntries(d)' # {} <=> MultiEntries(d) # {}
              /\ \A i, j \in MultiEntries(d)' : i = j
<1> DEFINE list == multiSubscriptions
<1>1. list \in Seq(Conns)
  BY DEF TypeOK
<1>2. list' = SwapRemove(list, MultiEntries(c))
  BY DEF CleanupMulti
<1>3. CASE MultiEntries(c) = {}
  BY <1>1, <1>2, <1>3 DEF SwapRemove, OneEntry, MultiEntries
<1>4. ASSUME NEW k \in DOMAIN list, MultiEntries(c) = {k}
      PROVE  /\ list' \in Seq(Conns)
             /\ MultiEntries(c)' = {}
             /\ \A d \in Conns : d # c =>
                  /\ MultiEntries(d)' # {} <=> MultiEntries(d) # {}
                  /\ \A i, j \in MultiEntries(d)' : i = j
  <2>1. /\ list' \in Seq(Conns)
        /\ Len(list') = Len(list) - 1
        /\ \A i \in 1..(Len(list) - 1) : list'[i] = IF i = k THEN list[Len(list)] ELSE list[i]
    BY <1>1, <1>2, <1>4, SwapRemoveOne
  <2>2. /\ DOMAIN list = 1..Len(list) /\ DOMAIN list' = 1..(Len(list) - 1)
        /\ Len(list) \in Nat /\ k \in 1..Len(list)
    BY <1>1, <1>4, <2>1
  <2>3. list[k] = c /\ \A i \in 1..Len(list) : i # k => list[i] # c
    BY <1>4, <2>2 DEF MultiEntries
  <2>4. MultiEntries(c)' = {}
    BY <2>1, <2>2, <2>3 DEF MultiEntries
  <2>5. ASSUME NEW d \in Conns, d # c
        PROVE  /\ MultiEntries(d)' # {} <=> MultiEntries(d) # {}
               /\ \A i, j \in MultiEntries(d)' : i = j
    <3>1. \A i \in MultiEntries(d) : i # k /\ i \in 1..Len(list)
      BY <2>2, <2>3, <2>5 DEF MultiEntries
    <3>2. \A i \in MultiEntries(d) :
            IF i = Len(list) THEN k \in MultiEntries(d)' ELSE i \in MultiEntries(d)'
      BY <2>1, <2>2, <3>1 DEF MultiEntries
    <3>3. \A i \in MultiEntries(d)' :
            i \in 1..(Len(list) - 1) /\ (IF i = k THEN Len(list) \in MultiEntries(d) ELSE i \in MultiEntries(d))
      BY <2>1, <2>2 DEF MultiEntries
    <3>4. \A i, j \in MultiEntries(d) : i = j
      BY DEF OneEntry
    <3> QED BY <2>2, <3>1, <3>2, <3>3, <3>4
  <2> QED BY <2>1, <2>4, <2>5
<1> QED BY <1>3, <1>4, AtMostOneEntry

-----------------------------------------------------------------------------
(* The invariant.                                                            *)

\* Restricted users are seen through the flag of a connection, which a manager
\* set, and through a write that was decided on while the flag was set.
Visible ==
  /\ \A c \in Conns : RestrictedVisible[c] => c \in cleared
  /\ \A m \in Messages : mpc[m] = "write" => cp[m] # <<>>
  /\ \A m \in Scores : mpc[m] = "write" /\ Restricted(m) => Head(cp[m]).Conn \in cleared
  /\ RestrictedHidden

IInv ==
  /\ TypeOK
  /\ OneEntry
  /\ NoEntryLeft
  /\ Visible

\* A step leaves the subscriptions of served connections alone.
Lasts ==
  \A c \in Conns : handler[c] \in Serving =>
    /\ ScoreEntries(c) # {} => ScoreEntries(c)' # {}
    /\ MultiEntries(c) # {} => MultiEntries(c)' # {}

LEMMA InitIInv == Init => IInv
<1> SUFFICES ASSUME Init PROVE IInv
  OBVIOUS
<1>1. TypeOK
  <2>1. RestrictedVisible \in [Conns -> BOOLEAN]
    BY DEF Init
  <2>2. /\ handler \in [Conns -> Serving \cup {"new", "cleanup", "cleanup multi", "gone"}]
        /\ User \in [Conns -> {"none", "user", "manager"}]
        /\ mpc \in [Messages -> {"unpublished", "get", "copy", "loop", "write", "end", "failed"}]
    BY DEF Init
  <2>3. /\ scoreSubscriptions \in Seq(Subscription)
        /\ multiSubscriptions \in Seq(Conns)
        /\ got \in [Conns -> Seq(Messages)]
        /\ asked \in [Conns -> SUBSET Filters]
        /\ subscribed \subseteq {"scores", "matches"}
        /\ cleared \subseteq Conns
    BY DEF Init
  <2>4. /\ \A m \in Scores : cp[m] \in Seq(Subscription)
        /\ \A m \in Matches : cp[m] \in Seq(Conns)
        /\ cp \in [Messages -> Seq(Subscription) \cup Seq(Conns)]
    BY DEF Init, Messages
  <2> QED BY <2>1, <2>2, <2>3, <2>4 DEF TypeOK
<1>2. \A c \in Conns : ScoreEntries(c) = {} /\ MultiEntries(c) = {}
  BY DEF Init, ScoreEntries, MultiEntries
<1>3. OneEntry /\ NoEntryLeft
  BY <1>2 DEF OneEntry, NoEntryLeft
<1>4. Visible
  BY DEF Init, Visible, RestrictedHidden, Messages
<1> QED BY <1>1, <1>3, <1>4 DEF IInv

\* Steps that leave the lists alone and do not take a handler to its end.
LEMMA SameLists ==
  ASSUME IInv, UNCHANGED listVars,
         \A c \in Conns : handler'[c] \in {"new", "cleanup multi", "gone"} => handler'[c] = handler[c]
  PROVE  OneEntry' /\ NoEntryLeft' /\ Lasts
<1>1. \A c \in Conns : ScoreEntries(c)' = ScoreEntries(c) /\ MultiEntries(c)' = MultiEntries(c)
  BY DEF listVars, ScoreEntries, MultiEntries
<1> QED BY <1>1 DEF IInv, OneEntry, NoEntryLeft, Lasts

\* Steps of a handler other than SetRestrictedVisibility do not touch what
\* Visible speaks of.
LEMMA SameVisible ==
  ASSUME IInv, UNCHANGED <<RestrictedVisible, cleared, messageVars>>
  PROVE  Visible'
BY DEF IInv, Visible, RestrictedHidden, messageVars

\* A step of a handler.
LEMMA ServeStep ==
  ASSUME IInv, NEW c \in Conns, serve(c)
  PROVE  IInv' /\ Lasts
<1>1. TypeOK /\ OneEntry /\ NoEntryLeft
  BY DEF IInv
<1>2. CASE Connect(c) \/ Stall(c) \/ Resume(c) \/ Break(c) \/ Close(c)
  <2>1. UNCHANGED <<User, RestrictedVisible, listVars, messageVars, historyVars>>
    BY <1>2 DEF Connect, Stall, Resume, Break, Close
  <2>2. \E h \in {"reading", "stalled", "broken", "cleanup"} : handler' = [handler EXCEPT ![c] = h]
    BY <1>2 DEF Connect, Stall, Resume, Break, Close
  <2>3. TypeOK'
    BY <1>1, <2>1, <2>2 DEF TypeOK, Serving, listVars, messageVars, historyVars
  <2>4. OneEntry' /\ NoEntryLeft' /\ Lasts
    BY <1>1, <2>1, <2>2, SameLists DEF TypeOK
  <2>5. Visible'
    BY <2>1, SameVisible DEF historyVars
  <2> QED BY <2>3, <2>4, <2>5 DEF IInv
<1>3. CASE SubscribeScores(c)
  <2>1. /\ UNCHANGED <<handler, User, RestrictedVisible, multiSubscriptions, messageVars, cleared>>
        /\ handler[c] = "reading"
        /\ asked' \in [Conns -> SUBSET Filters]
    <3>1. PICK ssu \in Filters : asked' = [asked EXCEPT ![c] = @ \cup {ssu}]
      BY <1>3 DEF SubscribeScores
    <3> QED BY <1>1, <1>3, <3>1 DEF SubscribeScores, Serves, TypeOK
  <2>2. /\ scoreSubscriptions' \in Seq(Subscription)
        /\ \A d \in Conns : d # c => ScoreEntries(d)' = ScoreEntries(d)
        /\ \A i, j \in ScoreEntries(c)' : i = j
        /\ ScoreEntries(c)' # {}
    BY <1>1, <1>3, SubscribeScoresList
  <2>3. TypeOK'
    BY <1>1, <2>1, <2>2 DEF TypeOK, messageVars
  <2>4. \A d \in Conns : MultiEntries(d)' = MultiEntries(d)
    BY <2>1 DEF MultiEntries
  <2>5. OneEntry'
    <3> SUFFICES ASSUME NEW d \in Conns
                 PROVE  (\A i, j \in ScoreEntries(d)' : i = j) /\ (\A i, j \in MultiEntries(d)' : i = j)
      BY DEF OneEntry
    <3>1. CASE d = c
      BY <1>1, <2>2, <2>4, <3>1 DEF OneEntry
    <3>2. CASE d # c
      BY <1>1, <2>2, <2>4, <3>2 DEF OneEntry
    <3> QED BY <3>1, <3>2
  <2>6. NoEntryLeft'
    <3> SUFFICES ASSUME NEW d \in Conns
                 PROVE  /\ handler[d]' \in {"new", "cleanup multi", "gone"} => ScoreEntries(d)' = {}
                        /\ handler[d]' \in {"new", "gone"} => MultiEntries(d)' = {}
      BY DEF NoEntryLeft
    <3>1. CASE d = c
      BY <2>1, <3>1
    <3>2. CASE d # c
      BY <1>1, <2>1, <2>2, <2>4, <3>2 DEF NoEntryLeft
    <3> QED BY <3>1, <3>2
  <2>7. Lasts
    <3> SUFFICES ASSUME NEW d \in Conns
                 PROVE  /\ ScoreEntries(d) # {} => ScoreEntries(d)' # {}
                        /\ MultiEntries(d) # {} => MultiEntries(d)' # {}
      BY DEF Lasts
    <3> QED BY <2>2, <2>4
  <2> QED BY <2>1, <2>3, <2>5, <2>6, <2>7, SameVisible DEF IInv
<1>4. CASE SubscribeMultiMatches(c)
  <2>1. /\ UNCHANGED <<handler, User, RestrictedVisible, scoreSubscriptions, messageVars, historyVars>>
        /\ handler[c] = "reading"
    BY <1>4 DEF SubscribeMultiMatches, Serves
  <2>2. /\ multiSubscriptions' \in Seq(Conns)
        /\ \A d \in Conns : d # c => MultiEntries(d)' = MultiEntries(d)
        /\ \A i, j \in MultiEntries(c)' : i = j
        /\ MultiEntries(c)' # {}
    BY <1>1, <1>4, SubscribeMultiList
  <2>3. TypeOK'
    BY <1>1, <2>1, <2>2 DEF TypeOK, messageVars, historyVars
  <2>4. \A d \in Conns : ScoreEntries(d)' = ScoreEntries(d)
    BY <2>1 DEF ScoreEntries
  <2>5. OneEntry'
    <3> SUFFICES ASSUME NEW d \in Conns
                 PROVE  (\A i, j \in ScoreEntries(d)' : i = j) /\ (\A i, j \in MultiEntries(d)' : i = j)
      BY DEF OneEntry
    <3>1. CASE d = c
      BY <1>1, <2>2, <2>4, <3>1 DEF OneEntry
    <3>2. CASE d # c
      BY <1>1, <2>2, <2>4, <3>2 DEF OneEntry
    <3> QED BY <3>1, <3>2
  <2>6. NoEntryLeft'
    <3> SUFFICES ASSUME NEW d \in Conns
                 PROVE  /\ handler[d]' \in {"new", "cleanup multi", "gone"} => ScoreEntries(d)' = {}
                        /\ handler[d]' \in {"new", "gone"} => MultiEntries(d)' = {}
      BY DEF NoEntryLeft
    <3>1. CASE d = c
      BY <2>1, <3>1
    <3>2. CASE d # c
      BY <1>1, <2>1, <2>2, <2>4, <3>2 DEF NoEntryLeft
    <3> QED BY <3>1, <3>2
  <2>7. Lasts
    <3> SUFFICES ASSUME NEW d \in Conns
                 PROVE  /\ ScoreEntries(d) # {} => ScoreEntries(d)' # {}
                        /\ MultiEntries(d) # {} => MultiEntries(d)' # {}
      BY DEF Lasts
    <3> QED BY <2>2, <2>4
  <2> QED BY <2>1, <2>3, <2>5, <2>6, <2>7, SameVisible DEF IInv, historyVars
<1>5. CASE Identify(c)
  <2>1. UNCHANGED <<handler, RestrictedVisible, listVars, messageVars, historyVars>>
    BY <1>5 DEF Identify, Serves
  <2>2. User' \in [Conns -> {"none", "user", "manager"}]
    BY <1>1, <1>5 DEF Identify, TypeOK
  <2>3. TypeOK'
    BY <1>1, <2>1, <2>2 DEF TypeOK, listVars, messageVars, historyVars
  <2>4. OneEntry' /\ NoEntryLeft' /\ Lasts
    BY <2>1, SameLists
  <2> QED BY <2>1, <2>3, <2>4, SameVisible DEF IInv, historyVars
<1>6. CASE SetRestrictedVisibility(c)
  <2>1. UNCHANGED <<handler, User, listVars, messageVars, asked>>
    BY <1>6 DEF SetRestrictedVisibility, Serves
  <2>2. PICK v \in BOOLEAN :
          /\ RestrictedVisible' = [RestrictedVisible EXCEPT ![c] = v /\ User[c] = "manager"]
          /\ cleared' = IF v /\ User[c] = "manager" THEN cleared \cup {c} ELSE cleared
    BY <1>6 DEF SetRestrictedVisibility
  <2>3. cleared' \subseteq Conns /\ cleared \subseteq cleared' /\ RestrictedVisible' \in [Conns -> BOOLEAN]
    BY <1>1, <2>2 DEF TypeOK
  <2>4. TypeOK'
    BY <1>1, <2>1, <2>3 DEF TypeOK, listVars, messageVars
  <2>5. OneEntry' /\ NoEntryLeft' /\ Lasts
    BY <2>1, SameLists
  <2>6. \A d \in Conns : RestrictedVisible'[d] => d \in cleared'
    BY <1>1, <2>2, <2>3 DEF IInv, Visible, TypeOK
  <2>7. Visible'
    BY <2>1, <2>3, <2>6 DEF IInv, Visible, RestrictedHidden, messageVars
  <2> QED BY <2>4, <2>5, <2>7 DEF IInv
<1>7. CASE CleanupScores(c)
  <2>1. /\ UNCHANGED <<User, RestrictedVisible, multiSubscriptions, messageVars, historyVars>>
        /\ handler[c] = "cleanup" /\ handler' = [handler EXCEPT ![c] = "cleanup multi"]
    BY <1>7 DEF CleanupScores
  <2>2. /\ scoreSubscriptions' \in Seq(Subscription)
        /\ ScoreEntries(c)' = {}
        /\ \A d \in Conns : d # c =>
             /\ ScoreEntries(d)' # {} <=> ScoreEntries(d) # {}
             /\ \A i, j \in ScoreEntries(d)' : i = j
    BY <1>1, <1>7, CleanupScoresList
  <2>3. TypeOK'
    BY <1>1, <2>1, <2>2 DEF TypeOK, messageVars, historyVars
  <2>4. \A d \in Conns : MultiEntries(d)' = MultiEntries(d)
    BY <2>1 DEF MultiEntries
  <2>5. \A d \in Conns : d # c => handler'[d] = handler[d]
    BY <1>1, <2>1 DEF TypeOK
  <2>6. handler'[c] = "cleanup multi"
    BY <1>1, <2>1 DEF TypeOK
  <2>7. OneEntry'
    <3> SUFFICES ASSUME NEW d \in Conns
                 PROVE  (\A i, j \in ScoreEntries(d)' : i = j) /\ (\A i, j \in MultiEntries(d)' : i = j)
      BY DEF OneEntry
    <3>1. CASE d = c
      BY <1>1, <2>2, <2>4, <3>1 DEF OneEntry
    <3>2. CASE d # c
      BY <1>1, <2>2, <2>4, <3>2 DEF OneEntry
    <3> QED BY <3>1, <3>2
  <2>8. NoEntryLeft'
    <3> SUFFICES ASSUME NEW d \in Conns
                 PROVE  /\ handler'[d] \in {"new", "cleanup multi", "gone"} => ScoreEntries(d)' = {}
                        /\ handler'[d] \in {"new", "gone"} => MultiEntries(d)' = {}
      BY DEF NoEntryLeft
    <3>1. CASE d = c
      BY <1>1, <2>1, <2>2, <2>4, <2>6, <3>1 DEF NoEntryLeft
    <3>2. CASE d # c
      BY <1>1, <2>2, <2>4, <2>5, <3>2 DEF NoEntryLeft
    <3> QED BY <3>1, <3>2
  <2>9. Lasts
    <3> SUFFICES ASSUME NEW d \in Conns, handler[d] \in Serving
                 PROVE  /\ ScoreEntries(d) # {} => ScoreEntries(d)' # {}
                        /\ MultiEntries(d) # {} => MultiEntries(d)' # {}
      BY DEF Lasts
    <3>1. d # c
      BY <2>1 DEF Serving
    <3> QED BY <2>2, <2>4, <3>1
  <2> QED BY <2>1, <2>3, <2>7, <2>8, <2>9, SameVisible DEF IInv, historyVars
<1>8. CASE CleanupMulti(c)
  <2>1. /\ UNCHANGED <<User, RestrictedVisible, scoreSubscriptions, messageVars, historyVars>>
        /\ handler[c] = "cleanup multi" /\ handler' = [handler EXCEPT ![c] = "gone"]
    BY <1>8 DEF CleanupMulti
  <2>2. /\ multiSubscriptions' \in Seq(Conns)
        /\ MultiEntries(c)' = {}
        /\ \A d \in Conns : d # c =>
             /\ MultiEntries(d)' # {} <=> MultiEntries(d) # {}
             /\ \A i, j \in MultiEntries(d)' : i = j
    BY <1>1, <1>8, CleanupMultiList
  <2>3. TypeOK'
    BY <1>1, <2>1, <2>2 DEF TypeOK, messageVars, historyVars
  <2>4. \A d \in Conns : ScoreEntries(d)' = ScoreEntries(d)
    BY <2>1 DEF ScoreEntries
  <2>5. \A d \in Conns : d # c => handler'[d] = handler[d]
    BY <1>1, <2>1 DEF TypeOK
  <2>6. handler'[c] = "gone"
    BY <1>1, <2>1 DEF TypeOK
  <2>7. OneEntry'
    <3> SUFFICES ASSUME NEW d \in Conns
                 PROVE  (\A i, j \in ScoreEntries(d)' : i = j) /\ (\A i, j \in MultiEntries(d)' : i = j)
      BY DEF OneEntry
    <3>1. CASE d = c
      BY <1>1, <2>2, <2>4, <3>1 DEF OneEntry
    <3>2. CASE d # c
      BY <1>1, <2>2, <2>4, <3>2 DEF OneEntry
    <3> QED BY <3>1, <3>2
  <2>8. NoEntryLeft'
    <3> SUFFICES ASSUME NEW d \in Conns
                 PROVE  /\ handler'[d] \in {"new", "cleanup multi", "gone"} => ScoreEntries(d)' = {}
                        /\ handler'[d] \in {"new", "gone"} => MultiEntries(d)' = {}
      BY DEF NoEntryLeft
    <3>1. CASE d = c
      BY <1>1, <2>1, <2>2, <2>4, <2>6, <3>1 DEF NoEntryLeft
    <3>2. CASE d # c
      BY <1>1, <2>2, <2>4, <2>5, <3>2 DEF NoEntryLeft
    <3> QED BY <3>1, <3>2
  <2>9. Lasts
    <3> SUFFICES ASSUME NEW d \in Conns, handler[d] \in Serving
                 PROVE  /\ ScoreEntries(d) # {} => ScoreEntries(d)' # {}
                        /\ MultiEntries(d) # {} => MultiEntries(d)' # {}
      BY DEF Lasts
    <3>1. d # c
      BY <2>1 DEF Serving
    <3> QED BY <2>2, <2>4, <3>1
  <2> QED BY <2>1, <2>3, <2>7, <2>8, <2>9, SameVisible DEF IInv, historyVars
<1> QED BY <1>2, <1>3, <1>4, <1>5, <1>6, <1>7, <1>8 DEF serve

\* What is left of a copy when its first entry is done with.
LEMMA TailEntries ==
  ASSUME NEW S, NEW list \in Seq(S), list # <<>>
  PROVE  /\ Tail(list) \in Seq(S) /\ Head(list) = list[1] /\ 1 \in DOMAIN list
         /\ \A i \in DOMAIN Tail(list) :
              i \in Nat /\ i + 1 \in DOMAIN list /\ i + 1 # 1 /\ Tail(list)[i] = list[i + 1]
<1>1. /\ Tail(list) \in Seq(S) /\ Len(Tail(list)) = Len(list) - 1 /\ Len(list) \in Nat
      /\ \A i \in 1..Len(Tail(list)) : Tail(list)[i] = list[i + 1]
  BY HeadTailProperties
<1>2. /\ DOMAIN Tail(list) = 1..(Len(list) - 1) /\ DOMAIN list = 1..Len(list)
      /\ Len(list) # 0
  BY <1>1
<1> QED BY <1>1, <1>2

\* Only the message of the goroutine is written, to the target of its step.
LEMMA GotGrows ==
  ASSUME IInv, NEW m \in Messages, Retrieve(m) \/ handle(m), NEW c \in Conns
  PROVE  \A i \in DOMAIN got'[c] :
           \/ i \in DOMAIN got[c] /\ got'[c][i] = got[c][i]
           \/ Write(m) /\ c = Target(m) /\ i = Len(got[c]) + 1 /\ got'[c][i] = m
<1>1. got \in [Conns -> Seq(Messages)]
  BY DEF IInv, TypeOK
<1>2. CASE got' = got
  BY <1>2
<1>3. CASE Write(m) /\ got' = [got EXCEPT ![Target(m)] = Append(@, m)]
  <2>1. CASE c # Target(m)
    BY <1>1, <1>3, <2>1
  <2>2. CASE c = Target(m)
    <3>1. got'[c] = Append(got[c], m) /\ got[c] \in Seq(Messages)
      BY <1>1, <1>3, <2>2
    <3>2. /\ Len(got'[c]) = Len(got[c]) + 1 /\ Len(got[c]) \in Nat /\ got'[c] \in Seq(Messages)
          /\ \A k \in 1..Len(got[c]) : got'[c][k] = got[c][k]
          /\ got'[c][Len(got[c]) + 1] = m
      BY <3>1, AppendProperties
    <3>3. DOMAIN got'[c] = 1..(Len(got[c]) + 1) /\ DOMAIN got[c] = 1..Len(got[c])
      BY <3>1, <3>2
    <3> QED BY <1>3, <2>2, <3>2, <3>3
  <2> QED BY <2>1, <2>2
<1> QED BY <1>2, <1>3 DEF Retrieve, handle, GetScore, Copy, Check, Write, Finish

\* A goroutine makes its copy, or takes the first entry off it, or leaves it.
LEMMA CopyShrinks ==
  ASSUME IInv, NEW m \in Messages, Retrieve(m) \/ handle(m)
  PROVE  /\ \A x \in Messages : x # m => mpc'[x] = mpc[x] /\ cp'[x] = cp[x]
         /\ \/ cp'[m] = cp[m]
            \/ Copy(m) /\ cp'[m] = IF m \in Scores THEN scoreSubscriptions ELSE multiSubscriptions
            \/ cp[m] # <<>> /\ cp'[m] = Tail(cp[m])
<1>1. cp \in [Messages -> Seq(Subscription) \cup Seq(Conns)] /\ mpc \in [Messages -> {"unpublished", "get", "copy", "loop", "write", "end", "failed"}]
  BY DEF IInv, TypeOK
<1>2. \A x \in Messages : x # m => mpc'[x] = mpc[x] /\ cp'[x] = cp[x]
  BY <1>1 DEF Retrieve, handle, GetScore, Copy, Check, Write, Finish
<1>3. mpc[m] = "write" => cp[m] # <<>>
  BY DEF IInv, Visible
<1> QED BY <1>1, <1>2, <1>3 DEF Retrieve, handle, GetScore, Copy, Check, Write, Finish

\* A step of the goroutine of a message, or of a retriever.
LEMMA MessageStep ==
  ASSUME IInv, NEW m \in Messages, Retrieve(m) \/ handle(m)
  PROVE  IInv' /\ Lasts
<1>1. TypeOK
  BY DEF IInv
<1>2. UNCHANGED <<connVars, listVars, historyVars, subscribed>>
  BY DEF Retrieve, handle, GetScore, Copy, Check, Write, Finish
<1>3. OneEntry' /\ NoEntryLeft' /\ Lasts
  BY <1>2, SameLists DEF connVars
<1>4. mpc' \in [Messages -> {"unpublished", "get", "copy", "loop", "write", "end", "failed"}]
  BY <1>1 DEF Retrieve, handle, GetScore, Copy, Check, Write, Finish, TypeOK
<1>5. cp[m] # <<>> => (m \in Scores => cp[m] \in Seq(Subscription) /\ Head(cp[m]) \in Subscription /\ Tail(cp[m]) \in Seq(Subscription))
  BY <1>1, HeadTailProperties DEF TypeOK
<1>6. cp[m] # <<>> => (m \in Matches => cp[m] \in Seq(Conns) /\ Head(cp[m]) \in Conns /\ Tail(cp[m]) \in Seq(Conns))
  BY <1>1, HeadTailProperties DEF TypeOK
<1>7. Target(m) \in Conns \/ cp[m] = <<>>
  BY <1>5, <1>6 DEF Target, Subscription, Messages
<1>8. /\ cp' \in [Messages -> Seq(Subscription) \cup Seq(Conns)]
      /\ \A x \in Scores : cp'[x] \in Seq(Subscription)
      /\ \A x \in Matches : cp'[x] \in Seq(Conns)
  <2>1. CASE cp' = cp
    BY <1>1, <2>1 DEF TypeOK
  <2>2. CASE cp[m] # <<>> /\ cp' = [cp EXCEPT ![m] = Tail(@)]
    BY <1>1, <1>5, <1>6, <2>2, MessagesAssumption DEF TypeOK, Messages
  <2>3. CASE Copy(m)
    BY <1>1, <2>3, MessagesAssumption DEF Copy, TypeOK, Messages
  <2>4. CASE Check(m)
    <3>1. cp[m] # <<>> /\ \E w \in BOOLEAN : cp' = [cp EXCEPT ![m] = IF w THEN cp[m] ELSE Tail(cp[m])]
      BY <2>4 DEF Check
    <3>2. [cp EXCEPT ![m] = cp[m]] = cp
      BY <1>1 DEF TypeOK
    <3> QED BY <2>1, <2>2, <3>1, <3>2
  <2>5. CASE Write(m)
    <3>1. cp[m] # <<>> /\ cp' = [cp EXCEPT ![m] = Tail(cp[m])]
      BY <2>5 DEF Write, IInv, Visible
    <3> QED BY <2>2, <3>1
  <2> QED BY <2>1, <2>3, <2>4, <2>5 DEF Retrieve, handle, GetScore, Finish
<1>9. \/ got' = got
      \/ Write(m) /\ got' = [got EXCEPT ![Target(m)] = Append(@, m)]
  BY DEF Retrieve, handle, GetScore, Copy, Check, Write, Finish
<1>10. got' \in [Conns -> Seq(Messages)]
  <2>1. CASE got' = got
    BY <1>1, <2>1 DEF TypeOK
  <2>2. CASE Write(m) /\ got' = [got EXCEPT ![Target(m)] = Append(@, m)]
    <3>1. Target(m) \in Conns
      BY <1>7, <2>2 DEF Write, IInv, Visible
    <3>2. got[Target(m)] \in Seq(Messages)
      BY <1>1, <3>1 DEF TypeOK
    <3>3. Append(got[Target(m)], m) \in Seq(Messages)
      BY <3>2, AppendProperties
    <3> QED BY <1>1, <2>2, <3>1, <3>3 DEF TypeOK
  <2> QED BY <1>9, <2>1, <2>2
<1>11. TypeOK'
  BY <1>1, <1>2, <1>4, <1>8, <1>10 DEF TypeOK, connVars, listVars, historyVars
<1>12. \A x \in Messages : x # m => mpc'[x] = mpc[x] /\ cp'[x] = cp[x]
  BY CopyShrinks
<1>13. ASSUME mpc'[m] = "write"
       PROVE  /\ cp[m] # <<>> /\ cp'[m] = cp[m]
              /\ m \in Scores /\ Restricted(m) => RestrictedVisible[Head(cp[m]).Conn]
  <2>1. Check(m)
    BY <1>1, <1>13 DEF Retrieve, handle, GetScore, Copy, Check, Write, Finish, TypeOK
  <2> QED BY <1>1, <1>13, <2>1 DEF Check, TypeOK
<1>14. RestrictedHidden'
  <2>1. CASE got' = got
    BY <1>2, <2>1 DEF IInv, Visible, RestrictedHidden, historyVars
  <2>2. CASE Write(m) /\ got' = [got EXCEPT ![Target(m)] = Append(@, m)]
    <3>1. Target(m) \in Conns /\ (m \in Scores /\ Restricted(m) => Target(m) \in cleared)
      BY <1>7, <2>2 DEF Write, IInv, Visible, Target
    <3> QED BY <1>2, <3>1, GotGrows DEF IInv, Visible, RestrictedHidden, historyVars
  <2> QED BY <1>9, <2>1, <2>2
<1>15. Visible'
  BY <1>2, <1>5, <1>12, <1>13, <1>14 DEF IInv, Visible, connVars, historyVars, Subscription, Messages
<1> QED BY <1>3, <1>11, <1>15 DEF IInv

LEMMA StepIInv ==
  ASSUME IInv, [Next]_allVars
  PROVE  IInv' /\ Lasts
<1>1. ASSUME NEW ch \in subscribed, RetrieverEnds(ch)
      PROVE  IInv' /\ Lasts
  <2>1. /\ UNCHANGED <<connVars, listVars, mpc, cp, got, historyVars>>
        /\ subscribed' \subseteq subscribed
    BY <1>1 DEF RetrieverEnds
  <2>2. OneEntry' /\ NoEntryLeft' /\ Lasts
    BY <2>1, SameLists DEF connVars
  <2>3. TypeOK' /\ Visible'
    BY <2>1 DEF IInv, TypeOK, Visible, RestrictedHidden, connVars, listVars, historyVars
  <2> QED BY <2>2, <2>3 DEF IInv
<1>2. CASE UNCHANGED allVars
  <2>1. OneEntry' /\ NoEntryLeft' /\ Lasts
    BY <1>2, SameLists DEF allVars, vars, connVars
  <2>2. TypeOK' /\ Visible'
    BY <1>2 DEF allVars, vars, IInv, TypeOK, Visible, RestrictedHidden, connVars, listVars,
       messageVars, historyVars
  <2> QED BY <2>1, <2>2 DEF IInv
<1> QED BY <1>1, <1>2, ServeStep, MessageStep DEF Next

THEOREM Invariance == Spec => []IInv
<1>1. IInv /\ [Next]_allVars => IInv'
  BY StepIInv
<1> QED BY InitIInv, <1>1, PTL DEF Spec

\* The lists and the copies have their types.
THEOREM TypeCorrect == Spec => []TypeOK
BY Invariance, PTL DEF IInv

\* A connection is in a list once at most.
THEOREM EntryIsUnique == Spec => []OneEntry
BY Invariance, PTL DEF IInv

\* Nothing of a connection stays in the lists.
THEOREM CleanupIsComplete == Spec => []NoEntryLeft
BY Invariance, PTL DEF IInv

\* Scores of restricted users go to managers who asked for them.
THEOREM RestrictedIsHidden == Spec => []RestrictedHidden
BY Invariance, PTL DEF IInv, Visible

\* No cleanup takes the entry of another connection.
THEOREM SubscriptionsLast == Spec => SubscriptionLasts
<1>1. IInv /\ [Next]_allVars => [Lasts]_allVars
  BY StepIInv
<1> QED BY <1>1, Invariance, PTL DEF Spec, SubscriptionLasts, Lasts

-----------------------------------------------------------------------------
(* What a client gets, and how often.                                        *)

\* The connection of an entry of the copy of a message.
Recipient(m, el) == IF m \in Scores THEN el.Conn ELSE el

\* Every filter in the list and in the copies is one that its connection sent,
\* and a write that was decided on passes the filter of its entry.  A client
\* that sends another filter does not take back the ones in the copies, so
\* "asked" has them all.
FromAsked ==
  /\ \A i \in DOMAIN scoreSubscriptions :
       scoreSubscriptions[i].Users \in asked[scoreSubscriptions[i].Conn]
  /\ \A m \in Scores : \A i \in DOMAIN cp[m] : cp[m][i].Users \in asked[cp[m][i].Conn]
  /\ \A m \in Scores : mpc[m] = "write" => Wanted(Head(cp[m]).Users, m)
  /\ OnlyWhatWasAsked

\* A copy has a connection once, as the list had it, and a connection that was
\* written to is in what is left of the copy no more.
Once ==
  /\ \A m \in Messages : \A i, j \in DOMAIN cp[m] :
       Recipient(m, cp[m][i]) = Recipient(m, cp[m][j]) => i = j
  /\ \A c \in Conns : \A k \in DOMAIN got[c] :
       /\ mpc[got[c][k]] \in {"loop", "write", "end"}
       /\ \A i \in DOMAIN cp[got[c][k]] : Recipient(got[c][k], cp[got[c][k]][i]) # c
  /\ WrittenOnce

\* A step of a handler adds no entry but the one a client has just asked for.
LEMMA ServeLists ==
  ASSUME IInv, NEW c \in Conns, serve(c)
  PROVE  /\ UNCHANGED messageVars
         /\ \A d \in Conns : asked[d] \subseteq asked'[d]
         /\ \A i \in DOMAIN scoreSubscriptions' :
              \/ \E k \in DOMAIN scoreSubscriptions : scoreSubscriptions'[i] = scoreSubscriptions[k]
              \/ scoreSubscriptions'[i].Conn = c /\ scoreSubscriptions'[i].Users \in asked'[c]
<1> DEFINE list == scoreSubscriptions
<1>0. list \in Seq(Subscription) /\ asked \in [Conns -> SUBSET Filters]
  BY DEF IInv, TypeOK
<1>1. DOMAIN list = 1..Len(list) /\ Len(list) \in Nat
  BY <1>0
<1>2. CASE SubscribeScores(c)
  <2>1. UNCHANGED messageVars
    BY <1>2 DEF SubscribeScores, Serves
  <2>2. PICK ssu \in Filters :
          /\ list' = IF ScoreEntries(c) # {}
                       THEN [i \in DOMAIN list |->
                              IF i \in ScoreEntries(c) THEN [Conn |-> c, Users |-> ssu] ELSE list[i]]
                       ELSE Append(list, [Conn |-> c, Users |-> ssu])
          /\ asked' = [asked EXCEPT ![c] = @ \cup {ssu}]
    BY <1>2 DEF SubscribeScores
  <2>3. (\A d \in Conns : asked[d] \subseteq asked'[d]) /\ ssu \in asked'[c]
    BY <1>0, <2>2
  <2> DEFINE x == [Conn |-> c, Users |-> ssu]
  <2>4. x \in Subscription /\ x.Conn = c /\ x.Users \in asked'[c]
    BY <2>3 DEF Subscription
  <2> HIDE DEF x
  <2>5. \A i \in DOMAIN list' : list'[i] = x \/ (i \in DOMAIN list /\ list'[i] = list[i])
    <3>1. CASE ScoreEntries(c) # {}
      BY <2>2, <3>1 DEF x
    <3>2. CASE ScoreEntries(c) = {}
      <4>1. list' = Append(list, x)
        BY <2>2, <3>2 DEF x
      <4>2. /\ list' \in Seq(Subscription) /\ Len(list') = Len(list) + 1
            /\ \A i \in 1..Len(list) : list'[i] = list[i]
            /\ list'[Len(list) + 1] = x
        BY <1>0, <2>4, <4>1, AppendProperties
      <4>3. DOMAIN list' = 1..(Len(list) + 1)
        BY <4>2
      <4> QED BY <1>1, <4>2, <4>3
    <3> QED BY <3>1, <3>2
  <2> QED BY <2>1, <2>3, <2>4, <2>5
<1>3. CASE CleanupScores(c)
  <2>1. UNCHANGED <<messageVars, asked>>
    BY <1>3 DEF CleanupScores, historyVars
  <2>2. list' = SwapRemove(list, ScoreEntries(c))
    BY <1>3 DEF CleanupScores
  <2>3. ASSUME NEW k \in DOMAIN list, ScoreEntries(c) = {k}
        PROVE  \A i \in DOMAIN list' : \E j \in DOMAIN list : list'[i] = list[j]
    <3>1. /\ list' \in Seq(Subscription)
          /\ Len(list') = Len(list) - 1
          /\ \A i \in 1..(Len(list) - 1) : list'[i] = IF i = k THEN list[Len(list)] ELSE list[i]
      BY <1>0, <2>2, <2>3, SwapRemoveOne
    <3>2. /\ DOMAIN list' = 1..(Len(list) - 1) /\ Len(list) \in DOMAIN list
          /\ \A i \in DOMAIN list' : i \in DOMAIN list
      BY <1>1, <2>3, <3>1
    <3> QED BY <3>1, <3>2
  <2>4. ScoreEntries(c) = {} => \A i \in DOMAIN list' : \E j \in DOMAIN list : list'[i] = list[j]
    BY <2>2 DEF SwapRemove
  <2>5. ScoreEntries(c) = {} \/ \E k \in DOMAIN list : ScoreEntries(c) = {k}
    BY AtMostOneEntry DEF IInv
  <2> QED BY <2>1, <2>3, <2>4, <2>5
<1>4. CASE ~SubscribeScores(c) /\ ~CleanupScores(c)
  <2>1. UNCHANGED <<messageVars, list, asked>>
    BY <1>4 DEF serve, Connect, SubscribeMultiMatches, Identify, SetRestrictedVisibility, Serves,
       Stall, Resume, Break, Close, CleanupMulti, listVars, historyVars
  <2>2. \A i \in DOMAIN list' : i \in DOMAIN list /\ list'[i] = list[i]
    BY <2>1
  <2> QED BY <2>1, <2>2
<1> QED BY <1>2, <1>3, <1>4

\* Handlers: the filters of the list are sent ones, and sent ones are not
\* forgotten.
LEMMA ServeFromAsked ==
  ASSUME IInv, FromAsked, NEW c \in Conns, serve(c)
  PROVE  FromAsked'
<1>1. /\ UNCHANGED <<mpc, cp, got>>
      /\ \A d \in Conns : asked[d] \subseteq asked'[d]
      /\ \A i \in DOMAIN scoreSubscriptions' :
           \/ \E k \in DOMAIN scoreSubscriptions : scoreSubscriptions'[i] = scoreSubscriptions[k]
           \/ scoreSubscriptions'[i].Conn = c /\ scoreSubscriptions'[i].Users \in asked'[c]
  BY ServeLists DEF messageVars
<1>2. /\ \A i \in DOMAIN scoreSubscriptions : scoreSubscriptions[i].Conn \in Conns
      /\ \A m \in Scores : \A i \in DOMAIN cp[m] : cp[m][i].Conn \in Conns
  <2>1. /\ scoreSubscriptions \in Seq(Subscription)
        /\ \A m \in Scores : cp[m] \in Seq(Subscription)
    BY DEF IInv, TypeOK
  <2>2. ASSUME NEW list \in Seq(Subscription), NEW i \in DOMAIN list
        PROVE  list[i].Conn \in Conns
    <3>1. list[i] \in Subscription
      BY <2>2
    <3> QED BY <3>1 DEF Subscription
  <2> QED BY <2>1, <2>2
<1>3. \A i \in DOMAIN scoreSubscriptions' :
        scoreSubscriptions'[i].Users \in asked'[scoreSubscriptions'[i].Conn]
  BY <1>1, <1>2 DEF FromAsked
<1>4. \A m \in Scores : \A i \in DOMAIN cp'[m] : cp'[m][i].Users \in asked'[cp'[m][i].Conn]
  BY <1>1, <1>2 DEF FromAsked
<1>5. OnlyWhatWasAsked'
  BY <1>1 DEF FromAsked, OnlyWhatWasAsked
<1>6. \A m \in Scores : mpc'[m] = "write" => Wanted(Head(cp'[m]).Users, m)
  BY <1>1 DEF FromAsked
<1> QED BY <1>3, <1>4, <1>5, <1>6 DEF FromAsked

\* Goroutines: a copy has the filters of the list, and what is written passed
\* the filter at its head.
LEMMA MessageFromAsked ==
  ASSUME IInv, FromAsked, NEW m \in Messages, Retrieve(m) \/ handle(m)
  PROVE  FromAsked'
<1>1. /\ UNCHANGED <<scoreSubscriptions, asked>>
      /\ mpc \in [Messages -> {"unpublished", "get", "copy", "loop", "write", "end", "failed"}]
      /\ cp \in [Messages -> Seq(Subscription) \cup Seq(Conns)]
      /\ \A x \in Scores : x \in Messages /\ cp[x] \in Seq(Subscription)
  BY DEF Retrieve, handle, GetScore, Copy, Check, Write, Finish, listVars, historyVars, IInv, TypeOK,
     Messages
<1>2. ASSUME NEW x \in Scores
      PROVE  \A i \in DOMAIN cp'[x] : cp'[x][i].Users \in asked[cp'[x][i].Conn]
  <2>1. CASE cp'[x] = cp[x]
    BY <2>1 DEF FromAsked
  <2>2. CASE cp'[x] = scoreSubscriptions
    BY <2>2 DEF FromAsked
  <2>3. CASE cp[x] # <<>> /\ cp'[x] = Tail(cp[x])
    BY <1>1, <2>3, TailEntries DEF FromAsked
  <2> QED BY <1>1, <2>1, <2>2, <2>3, CopyShrinks
<1>3. ASSUME NEW x \in Scores, mpc'[x] = "write"
      PROVE  Wanted(Head(cp'[x]).Users, x)
  <2>1. CASE x # m
    BY <1>1, <1>3, <2>1, CopyShrinks DEF FromAsked
  <2>2. CASE x = m
    BY <1>1, <1>3, <2>2 DEF Retrieve, handle, GetScore, Copy, Check, Write, Finish
  <2> QED BY <2>1, <2>2
<1>4. OnlyWhatWasAsked'
  <2> SUFFICES ASSUME NEW c \in Conns, NEW i \in DOMAIN got'[c], got'[c][i] \in Scores
               PROVE  \E f \in asked[c] : Wanted(f, got'[c][i])
    BY <1>1 DEF OnlyWhatWasAsked
  <2>1. CASE i \in DOMAIN got[c] /\ got'[c][i] = got[c][i]
    BY <2>1 DEF FromAsked, OnlyWhatWasAsked
  <2>2. CASE Write(m) /\ c = Target(m) /\ got'[c][i] = m
    <3>1. m \in Scores /\ mpc[m] = "write" /\ cp[m] # <<>>
      BY <2>2 DEF Write, IInv, Visible
    <3>2. Head(cp[m]) = cp[m][1] /\ 1 \in DOMAIN cp[m]
      BY <1>1, <3>1, TailEntries
    <3>3. Head(cp[m]).Users \in asked[c]
      BY <2>2, <3>1, <3>2 DEF FromAsked, Target
    <3> QED BY <2>2, <3>1, <3>3 DEF FromAsked
  <2> QED BY <2>1, <2>2, GotGrows
<1> QED BY <1>1, <1>2, <1>3, <1>4 DEF FromAsked

\* Goroutines: the copies have a connection once, and what was written is off
\* the copy, so that no connection is written to again.
LEMMA MessageOnce ==
  ASSUME IInv, Once, NEW m \in Messages, Retrieve(m) \/ handle(m)
  PROVE  Once'
<1>1. /\ mpc \in [Messages -> {"unpublished", "get", "copy", "loop", "write", "end", "failed"}]
      /\ got \in [Conns -> Seq(Messages)]
      /\ \A x \in Scores : cp[x] \in Seq(Subscription)
      /\ \A x \in Matches : cp[x] \in Seq(Conns)
      /\ Messages = Scores \cup Matches /\ Scores \cap Matches = {}
  BY MessagesAssumption DEF IInv, TypeOK, Messages
<1>2. ASSUME NEW x \in Messages, cp[x] # <<>>
      PROVE  /\ Head(cp[x]) = cp[x][1] /\ 1 \in DOMAIN cp[x]
             /\ \A i \in DOMAIN Tail(cp[x]) :
                  i \in Nat /\ i + 1 \in DOMAIN cp[x] /\ i + 1 # 1 /\ Tail(cp[x])[i] = cp[x][i + 1]
  <2>1. CASE x \in Scores
    BY <1>1, <1>2, <2>1, TailEntries
  <2>2. CASE x \in Matches
    BY <1>1, <1>2, <2>2, TailEntries
  <2> QED BY <1>1, <2>1, <2>2
<1>3. ASSUME NEW x \in Messages
      PROVE  \A i, j \in DOMAIN cp'[x] : Recipient(x, cp'[x][i]) = Recipient(x, cp'[x][j]) => i = j
  <2>1. CASE cp'[x] = cp[x]
    BY <2>1 DEF Once
  <2>2. CASE x \in Scores /\ cp'[x] = scoreSubscriptions
    <3>1. ASSUME NEW i \in DOMAIN scoreSubscriptions
          PROVE  scoreSubscriptions[i].Conn \in Conns
      <4>1. scoreSubscriptions \in Seq(Subscription)
        BY DEF IInv, TypeOK
      <4>2. scoreSubscriptions[i] \in Subscription
        BY <4>1
      <4> QED BY <4>2 DEF Subscription
    <3> QED BY <2>2, <3>1 DEF IInv, OneEntry, ScoreEntries, Recipient
  <2>3. CASE x \in Matches /\ cp'[x] = multiSubscriptions
    <3>1. \A i \in DOMAIN multiSubscriptions : multiSubscriptions[i] \in Conns
      <4>1. multiSubscriptions \in Seq(Conns)
        BY DEF IInv, TypeOK
      <4> QED BY <4>1
    <3> QED BY <1>1, <2>3, <3>1 DEF IInv, OneEntry, MultiEntries, Recipient
  <2>4. CASE cp[x] # <<>> /\ cp'[x] = Tail(cp[x])
    <3>1. \A i, j \in DOMAIN Tail(cp[x]) :
            Recipient(x, cp[x][i + 1]) = Recipient(x, cp[x][j + 1]) => i + 1 = j + 1
      BY <1>2, <2>4 DEF Once
    <3> QED BY <1>2, <2>4, <3>1
  <2> QED BY <1>1, <2>1, <2>2, <2>3, <2>4, CopyShrinks
<1>4. ASSUME NEW x \in Messages, NEW c \in Conns, mpc[x] \in {"loop", "write", "end"},
             \A i \in DOMAIN cp[x] : Recipient(x, cp[x][i]) # c
      PROVE  /\ mpc'[x] \in {"loop", "write", "end"}
             /\ \A i \in DOMAIN cp'[x] : Recipient(x, cp'[x][i]) # c
  <2>1. CASE x # m
    BY <1>4, <2>1, CopyShrinks
  <2>2. CASE x = m
    <3>1. mpc'[m] \in {"loop", "write", "end"} /\ ~Copy(m)
      BY <1>1, <1>4, <2>2 DEF Retrieve, handle, GetScore, Copy, Check, Write, Finish
    <3>2. cp'[m] = cp[m] \/ (cp[m] # <<>> /\ cp'[m] = Tail(cp[m]))
      BY <3>1, CopyShrinks
    <3>3. ASSUME cp[m] # <<>>, cp'[m] = Tail(cp[m])
          PROVE  \A i \in DOMAIN cp'[m] : Recipient(m, cp'[m][i]) # c
      <4>1. \A i \in DOMAIN Tail(cp[m]) : i + 1 \in DOMAIN cp[m] /\ Tail(cp[m])[i] = cp[m][i + 1]
        BY <1>2, <3>3
      <4> QED BY <1>4, <2>2, <3>3, <4>1
    <3>4. ASSUME cp'[m] = cp[m]
          PROVE  \A i \in DOMAIN cp'[m] : Recipient(m, cp'[m][i]) # c
      BY <1>4, <2>2, <3>4
    <3>5. \A i \in DOMAIN cp'[m] : Recipient(m, cp'[m][i]) # c
      BY <3>2, <3>3, <3>4
    <3> QED BY <2>2, <3>1, <3>5
  <2> QED BY <2>1, <2>2
<1>5. ASSUME Write(m)
      PROVE  /\ mpc'[m] = "loop" /\ mpc[m] = "write"
             /\ \A i \in DOMAIN cp'[m] : Recipient(m, cp'[m][i]) # Target(m)
             /\ \E i \in DOMAIN cp[m] : Recipient(m, cp[m][i]) = Target(m)
  <2>1. cp[m] # <<>>
    BY <1>5 DEF Write, IInv, Visible
  <2>2. mpc'[m] = "loop" /\ mpc[m] = "write" /\ cp'[m] = Tail(cp[m])
    <3>1. cp \in [Messages -> Seq(Subscription) \cup Seq(Conns)]
      BY DEF IInv, TypeOK
    <3> QED BY <1>1, <1>5, <3>1 DEF Write
  <2>3. Target(m) = Recipient(m, cp[m][1])
    BY <1>2, <2>1 DEF Target, Recipient
  <2>4. \A i \in DOMAIN cp[m] : i # 1 => Recipient(m, cp[m][i]) # Target(m)
    BY <1>2, <2>1, <2>3 DEF Once
  <2> QED BY <1>2, <2>1, <2>2, <2>3, <2>4
<1>6. ASSUME NEW c \in Conns, NEW k \in DOMAIN got'[c]
      PROVE  /\ mpc'[got'[c][k]] \in {"loop", "write", "end"}
             /\ \A i \in DOMAIN cp'[got'[c][k]] : Recipient(got'[c][k], cp'[got'[c][k]][i]) # c
  <2>1. CASE k \in DOMAIN got[c] /\ got'[c][k] = got[c][k]
    <3>1. got[c][k] \in Messages
      BY <1>1, <2>1
    <3> QED BY <1>4, <2>1, <3>1 DEF Once
  <2>2. CASE Write(m) /\ c = Target(m) /\ got'[c][k] = m
    BY <1>5, <2>2
  <2> QED BY <2>1, <2>2, GotGrows
<1>7. WrittenOnce'
  <2> SUFFICES ASSUME NEW c \in Conns, NEW i \in DOMAIN got'[c], NEW j \in DOMAIN got'[c],
                      got'[c][i] = got'[c][j]
               PROVE  i = j
    BY DEF WrittenOnce
  <2>1. CASE i \in DOMAIN got[c] /\ got'[c][i] = got[c][i] /\ j \in DOMAIN got[c] /\ got'[c][j] = got[c][j]
    BY <2>1 DEF Once, WrittenOnce
  <2>2. ASSUME NEW k \in DOMAIN got[c], Write(m), c = Target(m), got[c][k] = m
        PROVE  FALSE
    BY <1>5, <2>2 DEF Once
  <2> QED BY <2>1, <2>2, GotGrows
<1> QED BY <1>3, <1>6, <1>7 DEF Once

\* Both hold at the start, when there are no subscriptions and no messages.
LEMMA InitHistory == Init => FromAsked /\ Once
BY MessagesAssumption
DEF Init, FromAsked, Once, OnlyWhatWasAsked, WrittenOnce, Recipient, Messages

\* Both are preserved by every step.
LEMMA StepHistory ==
  ASSUME IInv, FromAsked, Once, [Next]_allVars
  PROVE  FromAsked' /\ Once'
<1>1. ASSUME NEW c \in Conns, serve(c)
      PROVE  FromAsked' /\ Once'
  <2>1. UNCHANGED <<mpc, cp, got>>
    BY <1>1, ServeLists DEF messageVars
  <2> QED BY <1>1, <2>1, ServeFromAsked DEF Once, WrittenOnce
<1>2. ASSUME UNCHANGED <<scoreSubscriptions, asked, mpc, cp, got>>
      PROVE  FromAsked' /\ Once'
  BY <1>2 DEF FromAsked, OnlyWhatWasAsked, Once, WrittenOnce
<1>3. ASSUME NEW ch \in subscribed, RetrieverEnds(ch)
      PROVE  UNCHANGED <<scoreSubscriptions, asked, mpc, cp, got>>
  BY <1>3 DEF RetrieverEnds, listVars, historyVars
<1>4. UNCHANGED allVars => UNCHANGED <<scoreSubscriptions, asked, mpc, cp, got>>
  BY DEF allVars, vars, listVars, historyVars, messageVars
<1> QED BY <1>1, <1>2, <1>3, <1>4, MessageFromAsked, MessageOnce DEF Next

\* What is recorded of the filters and of the copies, with the invariant.
THEOREM HistoryInvariance == Spec => [](FromAsked /\ Once)
<1>1. IInv /\ FromAsked /\ Once /\ [Next]_allVars => (FromAsked /\ Once)'
  BY StepHistory
<1> QED BY InitHistory, <1>1, Invariance, PTL DEF Spec

\* A client gets no score but one that a filter it sent lets through, whatever
\* it sends while scores are being handed out.
THEOREM FiltersAreKept == Spec => []OnlyWhatWasAsked
BY HistoryInvariance, PTL DEF FromAsked

\* No client gets a message twice, however subscriptions, cleanups and writes
\* interleave.
THEOREM NothingIsWrittenTwice == Spec => []WrittenOnce
BY HistoryInvariance, PTL DEF Once
=============================================================================
