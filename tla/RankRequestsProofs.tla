------------------------- MODULE RankRequestsProofs -------------------------
(* How far requests that run side by side can pass the limits of the queue,  *)
(* for every number of requests, users and maps and for every limit.         *)
EXTENDS RankRequests, FiniteSetTheorems, WellFoundedInduction, TLAPS

-----------------------------------------------------------------------------
(* Counting.                                                                 *)

\* A is what is in the queue, P the requests that were let in and have not
\* inserted their row yet, k the limit of the check that let them in.
Within(A, P, k) ==
  /\ IsFiniteSet(A)
  /\ IsFiniteSet(P)
  /\ Cardinality(A) + Cardinality(P) <= k + Cardinality(Requests) - 1

\* Rows expire, and requests end.
LEMMA Shrink ==
  ASSUME NEW k \in Nat, NEW A, NEW P, Within(A, P, k), NEW B \in SUBSET A, NEW Q \in SUBSET P
  PROVE  Within(B, Q, k)
<1>1. /\ IsFiniteSet(B) /\ Cardinality(B) <= Cardinality(A)
      /\ IsFiniteSet(Q) /\ Cardinality(Q) <= Cardinality(P)
  BY FS_Subset DEF Within
<1>2. /\ Cardinality(A) \in Nat /\ Cardinality(B) \in Nat
      /\ Cardinality(P) \in Nat /\ Cardinality(Q) \in Nat /\ Cardinality(Requests) \in Nat
  BY <1>1, FS_CardinalityType, RequestsAssumption DEF Within
<1> QED BY <1>1, <1>2 DEF Within

\* A request that was let in inserts its row.
LEMMA Move ==
  ASSUME NEW k \in Nat, NEW A, NEW P, Within(A, P, k), NEW x, NEW r \in P,
         NEW B \in SUBSET (A \cup {x}), NEW Q \in SUBSET (P \ {r})
  PROVE  Within(B, Q, k)
<1>0. IsFiniteSet(A) /\ IsFiniteSet(P)
  BY DEF Within
<1>1. /\ IsFiniteSet(A \cup {x})
      /\ Cardinality(A \cup {x}) = Cardinality(A) \/ Cardinality(A \cup {x}) = Cardinality(A) + 1
  <2>1. IsFiniteSet(A \cup {x})
    BY <1>0, FS_AddElement
  <2>2. CASE x \in A
    BY <2>1, <2>2, A \cup {x} = A
  <2>3. CASE x \notin A
    BY <1>0, <2>3, FS_AddElement
  <2> QED BY <2>1, <2>2, <2>3
<1>3. IsFiniteSet(P \ {r}) /\ Cardinality(P \ {r}) = Cardinality(P) - 1
  BY <1>0, FS_RemoveElement
<1>4. Cardinality(A) \in Nat /\ Cardinality(P) \in Nat /\ Cardinality(Requests) \in Nat
  BY <1>0, FS_CardinalityType, RequestsAssumption
<1>5. /\ Cardinality(A \cup {x}) \in Nat /\ Cardinality(P \ {r}) \in Nat
  BY <1>1, <1>3, FS_CardinalityType
<1>6. Within(A \cup {x}, P \ {r}, k)
  BY <1>1, <1>3, <1>4, <1>5 DEF Within
<1> QED BY <1>6, Shrink

\* The check finds fewer than k rows, and any number of requests are let in.
LEMMA Enter ==
  ASSUME NEW k \in Nat, NEW A, IsFiniteSet(A), Cardinality(A) < k, NEW Q \in SUBSET Requests
  PROVE  Within(A, Q, k)
<1>1. IsFiniteSet(Q) /\ Cardinality(Q) <= Cardinality(Requests)
  BY FS_Subset, RequestsAssumption
<1>2. Cardinality(Q) \in Nat /\ Cardinality(A) \in Nat /\ Cardinality(Requests) \in Nat
  BY <1>1, FS_CardinalityType, RequestsAssumption
<1> QED BY <1>1, <1>2 DEF Within

\* A query with a LIMIT that it does not reach returns everything.
LEMMA FirstIsAll ==
  ASSUME NEW S \in SUBSET Nat, IsFiniteSet(S), NEW n \in Nat, Cardinality(First(S, n)) < n
  PROVE  First(S, n) = S
<1> DEFINE below(i) == {j \in S : j < i}
           T == S \ First(S, n)
<1> SUFFICES ASSUME T # {} PROVE FALSE
  BY DEF First
<1>1. PICK x \in T : \A y \in T : ~(<<y, x>> \in OpToRel(<, Nat))
  BY NatLessThanWellFounded, WFMin
<1>2. \A y \in T : ~(y < x)
  BY <1>1 DEF OpToRel
<1>3. below(x) \subseteq First(S, n)
  BY <1>2
<1>4. IsFiniteSet(First(S, n)) /\ IsFiniteSet(below(x))
  BY FS_Subset DEF First
<1>5. Cardinality(below(x)) <= Cardinality(First(S, n))
  BY <1>3, <1>4, FS_Subset
<1>6. ~(Cardinality(below(x)) < n)
  BY DEF First
<1> QED BY <1>4, <1>5, <1>6, FS_CardinalityType

-----------------------------------------------------------------------------
(* The invariant: what is counted, and what is about to be.  A request that  *)
(* has passed a check keeps its place until it inserts its row or ends, so   *)
(* the rows and the requests past the check are within the limit together.   *)

Past == {r \in Requests \ short : pc[r] \in {"beatmap", "duplicate", "stamp", "insert"}}
PastOf(u) == {r \in Past : user[r] = u}
Values == {What(ask) : ask \in Asks}
Chosen(w) == {r \in Requests : pc[r] \in {"stamp", "insert"} /\ What(asked[r]) = w}
CountedOf(u) == {i \in Counted : rows[i].userid = u}

QueueWithin == Within(Counted, Past, QueueSize)
UserWithin == \A u \in Users : Within(CountedOf(u), PastOf(u), MaxPerUser)
MapWithin == \A w \in Values : Within(Duplicates(w), Chosen(w), 1)
Heard(ask) == Known(ask) \/ ask \in handed
Announced ==
  /\ \A i \in DOMAIN rows : Heard(behind[i])
  /\ \A r \in Requests : pc[r] \in {"duplicate", "stamp", "insert"} => Heard(asked[r])

IInv == TypeOK /\ QueueWithin /\ UserWithin /\ MapWithin /\ Announced

\* The queries return rows: their ids are numbers, and there are finitely many.
LEMMA QueriesFinite ==
  ASSUME TypeOK
  PROVE  /\ Active \subseteq Nat /\ IsFiniteSet(Active)
         /\ IsFiniteSet(Counted)
         /\ \A u \in Users : IsFiniteSet(CountedOf(u))
         /\ \A w \in Values : IsFiniteSet(Duplicates(w))
<1>1. DOMAIN rows = 1..Len(rows) /\ Len(rows) \in Nat
  BY DEF TypeOK
<1>2. IsFiniteSet(1..Len(rows))
  BY <1>1, FS_Interval
<1>3. Active \subseteq 1..Len(rows)
  BY <1>1 DEF Active
<1>4. IsFiniteSet(Active)
  BY <1>2, <1>3, FS_Subset
<1>5. /\ IsFiniteSet(Counted)
      /\ \A u \in Users : IsFiniteSet(CountedOf(u))
      /\ \A w \in Values : IsFiniteSet(Duplicates(w))
  BY <1>4, FS_Subset DEF Counted, CountedOf, Duplicates
<1> QED BY <1>1, <1>3, <1>4, <1>5

\* Whoever passes the check of a status that read every row passes it because
\* the whole queue, and the user's part of it, are below their limits.
LEMMA CheckMeans ==
  ASSUME TypeOK, NEW u \in Users, CanSubmit(u, Listed)
  PROVE  Cardinality(Counted) < QueueSize /\ Cardinality(CountedOf(u)) < MaxPerUser
<1>1. Listed = Active
  BY QueriesFinite, FirstIsAll, LimitsAssumption DEF CanSubmit, Listed
<1> DEFINE mine == {i \in Active : rows[i].userid = u}
<1>2. Cardinality(Active) < QueueSize /\ Cardinality(mine) < MaxPerUser
  BY <1>1 DEF CanSubmit
<1>3. IsFiniteSet(Active) /\ IsFiniteSet(mine)
  BY QueriesFinite, FS_Subset
<1>4. Counted \subseteq Active /\ CountedOf(u) \subseteq mine
  BY DEF Counted, CountedOf
<1>5. /\ IsFiniteSet(Counted) /\ Cardinality(Counted) <= Cardinality(Active)
      /\ IsFiniteSet(CountedOf(u)) /\ Cardinality(CountedOf(u)) <= Cardinality(mine)
  BY <1>3, <1>4, FS_Subset
<1>6. /\ Cardinality(Active) \in Nat /\ Cardinality(mine) \in Nat
      /\ Cardinality(Counted) \in Nat /\ Cardinality(CountedOf(u)) \in Nat
  BY <1>3, <1>5, FS_CardinalityType
<1> HIDE DEF mine
<1> QED BY <1>2, <1>5, <1>6, LimitsAssumption

LEMMA NoneIsNone == ASSUME NEW S, S = {} PROVE IsFiniteSet(S) /\ Cardinality(S) = 0
BY FS_EmptySet

\* The invariant holds at the start.
LEMMA InitInvariant == Init => IInv
<1> SUFFICES ASSUME Init PROVE IInv
  OBVIOUS
<1>1. TypeOK
  BY DEF Init, TypeOK
<1>2. DOMAIN rows = {} /\ Past = {} /\ shortRows = {}
  BY DEF Init, Past
<1>3. Active = {} /\ Counted = {}
  BY <1>2 DEF Active, Counted
<1>4. QueueWithin
  BY <1>2, <1>3, NoneIsNone, Enter, LimitsAssumption DEF QueueWithin
<1>5. UserWithin
  <2> SUFFICES ASSUME NEW u \in Users PROVE Within(CountedOf(u), PastOf(u), MaxPerUser)
    BY DEF UserWithin
  <2>1. CountedOf(u) = {} /\ PastOf(u) \in SUBSET Requests
    BY <1>3 DEF CountedOf, PastOf, Past
  <2> QED BY <2>1, NoneIsNone, Enter, LimitsAssumption
<1>6. MapWithin
  <2> SUFFICES ASSUME NEW w \in Values PROVE Within(Duplicates(w), Chosen(w), 1)
    BY DEF MapWithin
  <2>1. Duplicates(w) = {} /\ Chosen(w) \in SUBSET Requests
    BY <1>3 DEF Duplicates, Chosen
  <2> QED BY <2>1, NoneIsNone, Enter
<1>7. Announced
  BY <1>2 DEF Announced, Init
<1> QED BY <1>1, <1>4, <1>5, <1>6, <1>7 DEF IInv

-----------------------------------------------------------------------------
(* The steps.                                                                *)

\* Without a new row nothing enters the queue: time only takes rows out of it.
LEMMA NoNewRow ==
  ASSUME TypeOK, now' \in Nat, rows' = rows, shortRows' = shortRows, now <= now'
  PROVE  /\ Counted' \subseteq Counted
         /\ \A u \in Users : CountedOf(u)' \subseteq CountedOf(u)
         /\ \A w \in Values : Duplicates(w)' \subseteq Duplicates(w)
<1>1. \A i \in DOMAIN rows : rows[i].time \in Nat
  <2>1. \A i \in DOMAIN rows : rows[i] \in Row
    BY DEF TypeOK
  <2> QED BY <2>1 DEF Row
<1>2. Active' \subseteq Active
  BY <1>1, TimesAssumption DEF TypeOK, Active
<1> QED BY <1>2 DEF Counted, CountedOf, Duplicates

\* No request is further than before.
NoneFurther ==
  /\ Past' \subseteq Past
  /\ \A u \in Users : PastOf(u)' \subseteq PastOf(u)
  /\ \A w \in Values : Chosen(w)' \subseteq Chosen(w)

\* A step after which no request is further, and no row is new.
LEMMA Quiet ==
  ASSUME IInv, now' \in Nat, rows' = rows, shortRows' = shortRows, now <= now', NoneFurther
  PROVE  QueueWithin' /\ UserWithin' /\ MapWithin'
<1>1. /\ Counted' \subseteq Counted
      /\ \A u \in Users : CountedOf(u)' \subseteq CountedOf(u)
      /\ \A w \in Values : Duplicates(w)' \subseteq Duplicates(w)
  BY NoNewRow DEF IInv
<1>2. Within(Counted', Past', QueueSize)
  BY <1>1, Shrink, LimitsAssumption DEF IInv, QueueWithin, NoneFurther
<1>3. ASSUME NEW u \in Users PROVE Within(CountedOf(u)', PastOf(u)', MaxPerUser)
  BY <1>1, Shrink, LimitsAssumption DEF IInv, UserWithin, NoneFurther
<1>4. ASSUME NEW w \in Values PROVE Within(Duplicates(w)', Chosen(w)', 1)
  BY <1>1, Shrink DEF IInv, MapWithin, NoneFurther
<1>5. QueueWithin'
  BY <1>2 DEF QueueWithin, Within
<1>6. UserWithin'
  BY <1>3 DEF UserWithin, Within
<1>7. MapWithin'
  BY <1>4 DEF MapWithin, Within, Values
<1> QED BY <1>5, <1>6, <1>7

\* An answered request is past nothing.
LEMMA EndIsNotFurther ==
  ASSUME TypeOK, NEW r \in Requests, End(r)
  PROVE  NoneFurther
<1>1. Past' \subseteq Past
  BY DEF End, Past, TypeOK
<1>2. \A u \in Users : PastOf(u)' \subseteq PastOf(u)
  BY <1>1 DEF End, PastOf, Past, TypeOK
<1>3. \A w \in Values : Chosen(w)' \subseteq Chosen(w)
  BY DEF End, Chosen, TypeOK
<1> QED BY <1>1, <1>2, <1>3 DEF NoneFurther

\* A step of a request leaves what was heard of as it was, if the request goes on
\* only to statements where its body was heard of.
LEMMA GoAnnounces ==
  ASSUME IInv, NEW r \in Requests, UNCHANGED <<rows, behind>>,
         known \subseteq known', handed \subseteq handed',
         \A q \in Requests \ {r} : pc'[q] = pc[q] /\ asked'[q] = asked[q],
         pc'[r] \in {"duplicate", "stamp", "insert"} => Heard(asked[r])'
  PROVE  Announced'
<1>1. \A a : Heard(a) => Heard(a)'
  BY DEF Heard, Known
<1>2. ASSUME NEW i \in DOMAIN rows' PROVE Heard(behind[i])'
  <2>1. Heard(behind[i])
    BY DEF IInv, Announced
  <2>2. Heard(behind[i]) => Known(behind[i])' \/ behind[i] \in handed'
    BY <1>1 DEF Heard, Known
  <2> QED BY <2>1, <2>2 DEF Heard, Known, Matches
<1>3. ASSUME NEW q \in Requests \ {r}, pc'[q] \in {"duplicate", "stamp", "insert"} PROVE Heard(asked[q])'
  <2>1. Heard(asked[q]) /\ asked'[q] = asked[q]
    BY <1>3 DEF IInv, Announced
  <2> QED BY <2>1 DEF Heard, Known, Matches
<1> QED BY <1>2, <1>3 DEF Announced

\* So it is when the request ends.
LEMMA EndAnnounces ==
  ASSUME IInv, NEW r \in Requests, End(r), UNCHANGED <<rows, behind, known>>, handed \subseteq handed'
  PROVE  Announced'
<1>1. \A q \in Requests \ {r} : pc'[q] = pc[q] /\ asked'[q] = asked[q]
  BY DEF End, IInv, TypeOK
<1>2. pc'[r] = "idle"
  BY DEF End, IInv, TypeOK
<1> QED BY <1>1, <1>2, GoAnnounces

\* Types are preserved.
LEMMA TypeStep == TypeOK /\ [Next]_vars => TypeOK'
<1> SUFFICES ASSUME TypeOK, [Next]_vars PROVE TypeOK'
  OBVIOUS
<1> USE DEF TypeOK, requestVars, history
<1>0. \A r \in Requests : End(r) => /\ pc' \in [Requests -> {"idle", "status", "beatmap", "duplicate", "stamp", "insert"}]
                                    /\ user' \in [Requests -> Users \cup {None}]
                                    /\ asked' \in [Requests -> Asks \cup {Empty}]
                                    /\ \A q \in Requests : pc'[q] # "idle" => user'[q] \in Users /\ asked'[q] \in Asks
                                    /\ stamp' \in [Requests -> Nat]
                                    /\ short' \subseteq Requests
  BY DEF End
<1>1. ASSUME NEW r \in Requests, Submit(r) PROVE TypeOK'
  BY <1>1 DEF Submit
<1>2. ASSUME NEW r \in Requests, CheckStatus(r) PROVE TypeOK'
  BY <1>0, <1>2 DEF CheckStatus
<1>3. ASSUME NEW r \in Requests, FindBeatmap(r) PROVE TypeOK'
  BY <1>0, <1>3 DEF FindBeatmap, Goto
<1>4. ASSUME NEW r \in Requests, FindDuplicate(r) PROVE TypeOK'
  BY <1>0, <1>4 DEF FindDuplicate, Goto
<1>5. ASSUME NEW r \in Requests, Stamp(r) PROVE TypeOK'
  BY <1>5 DEF Stamp
<1>6. ASSUME NEW r \in Requests, Insert(r) PROVE TypeOK'
  <2>1. [userid |-> user[r], what |-> What(asked[r]), time |-> stamp[r]] \in Row /\ asked[r] \in Asks
    BY <1>6 DEF Row, Insert
  <2>2. CASE UNCHANGED <<rows, behind, shortRows>>
    BY <1>0, <1>6, <2>2 DEF Insert
  <2>3. CASE ~UNCHANGED <<rows, behind, shortRows>>
    <3>1. /\ rows' = Append(rows, [userid |-> user[r], what |-> What(asked[r]), time |-> stamp[r]])
          /\ behind' = Append(behind, asked[r])
          /\ shortRows' \subseteq shortRows \cup {Len(rows')}
      BY <1>6, <2>3 DEF Insert
    <3>2. /\ rows' \in Seq(Row) /\ behind' \in Seq(Asks)
          /\ Len(rows') = Len(rows) + 1 /\ Len(behind') = Len(behind) + 1
      BY <2>1, <3>1
    <3>3. shortRows' \subseteq DOMAIN rows'
      BY <3>1, <3>2
    <3> QED BY <1>0, <1>6, <3>2, <3>3 DEF Insert
  <2> QED BY <2>2, <2>3
<1>7. ASSUME NEW m \in Maps, Fetch(m) PROVE TypeOK'
  BY <1>7 DEF Fetch
<1>8. CASE Tick
  BY <1>8 DEF Tick
<1>9. CASE UNCHANGED vars
  BY <1>9 DEF vars
<1> QED BY <1>1, <1>2, <1>3, <1>4, <1>5, <1>6, <1>7, <1>8, <1>9 DEF Next, submission

\* A request that a status of all rows lets in counts from then on.
LEMMA CheckStep ==
  ASSUME IInv, TypeOK', NEW r \in Requests, CanSubmit(user[r], Listed), pc[r] = "status",
         pc' = [pc EXCEPT ![r] = "beatmap"], UNCHANGED <<now, rows, shortRows, short, user, asked>>
  PROVE  QueueWithin' /\ UserWithin' /\ MapWithin'
<1>1. TypeOK /\ now' \in Nat
  BY DEF IInv, TypeOK
<1>2. /\ Active' = Active /\ Counted' = Counted
      /\ \A u \in Users : CountedOf(u)' = CountedOf(u)
      /\ \A w \in Values : Duplicates(w)' = Duplicates(w) /\ Chosen(w)' \subseteq Chosen(w)
  BY <1>1 DEF Active, Counted, CountedOf, Duplicates, Chosen, TypeOK
<1>3. user[r] \in Users
  BY <1>1 DEF TypeOK
<1>4. Cardinality(Counted) < QueueSize /\ Cardinality(CountedOf(user[r])) < MaxPerUser
  BY <1>1, <1>3, CheckMeans
<1>5. QueueWithin'
  <2>1. Past' \in SUBSET Requests
    BY DEF Past
  <2>2. Within(Counted, Past', QueueSize)
    BY <1>1, <1>4, <2>1, QueriesFinite, Enter, LimitsAssumption
  <2> QED BY <1>2, <2>2 DEF QueueWithin, Within
<1>6. ASSUME NEW u \in Users PROVE Within(CountedOf(u), PastOf(u)', MaxPerUser)
  <2>1. CASE u = user[r]
    <3>1. PastOf(u)' \in SUBSET Requests
      BY DEF PastOf, Past
    <3> QED BY <1>1, <1>4, <2>1, <3>1, QueriesFinite, Enter, LimitsAssumption
  <2>2. CASE u # user[r]
    <3>1. PastOf(u)' \subseteq PastOf(u)
      BY <1>1, <2>2 DEF PastOf, Past, TypeOK
    <3> QED BY <3>1, Shrink, LimitsAssumption DEF IInv, UserWithin
  <2> QED BY <2>1, <2>2
<1>7. UserWithin'
  BY <1>2, <1>6 DEF UserWithin, Within
<1>8. ASSUME NEW w \in Values PROVE Within(Duplicates(w), Chosen(w)', 1)
  BY <1>2, Shrink DEF IInv, MapWithin
<1>9. MapWithin'
  BY <1>2, <1>8 DEF MapWithin, Within, Values
<1> QED BY <1>5, <1>7, <1>9

\* So does one whose map or set nobody has asked for.
LEMMA DuplicateStep ==
  ASSUME IInv, TypeOK', NEW r \in Requests, FindDuplicate(r), Duplicates(What(asked[r])) = {}, Goto(r, "stamp")
  PROVE  QueueWithin' /\ UserWithin' /\ MapWithin'
<1>1. TypeOK /\ UNCHANGED <<now, rows, shortRows, user, asked, short>> /\ pc[r] = "duplicate"
  BY DEF IInv, FindDuplicate, Goto, requestVars, history
<1>2. /\ Counted' = Counted /\ Past' \subseteq Past
      /\ \A u \in Users : CountedOf(u)' = CountedOf(u) /\ PastOf(u)' \subseteq PastOf(u)
      /\ \A w \in Values : Duplicates(w)' = Duplicates(w)
  BY <1>1 DEF Active, Counted, CountedOf, Duplicates, Past, PastOf, TypeOK, Goto
<1>3. Within(Counted, Past', QueueSize)
  BY <1>2, Shrink, LimitsAssumption DEF IInv, QueueWithin
<1>4. ASSUME NEW u \in Users PROVE Within(CountedOf(u), PastOf(u)', MaxPerUser)
  BY <1>2, Shrink, LimitsAssumption DEF IInv, UserWithin
<1>5. ASSUME NEW w \in Values PROVE Within(Duplicates(w), Chosen(w)', 1)
  <2>1. CASE w = What(asked[r])
    <3>1. Chosen(w)' \in SUBSET Requests
      BY DEF Chosen
    <3> QED BY <2>1, <3>1, NoneIsNone, Enter
  <2>2. CASE w # What(asked[r])
    <3>1. Chosen(w)' \subseteq Chosen(w)
      BY <1>1, <2>2 DEF Chosen, TypeOK, Goto
    <3> QED BY <3>1, Shrink DEF IInv, MapWithin
  <2> QED BY <2>1, <2>2
<1>6. QueueWithin' /\ UserWithin' /\ MapWithin'
  BY <1>2, <1>3, <1>4, <1>5 DEF QueueWithin, UserWithin, MapWithin, Within, Values
<1> QED BY <1>6

\* The INSERT: a row takes the place of the request that inserts it, or it is
\* the row of a request that was not counted against the whole queue.
LEMMA InsertStep ==
  ASSUME IInv, TypeOK', NEW r \in Requests, Insert(r),
         rows' = Append(rows, [userid |-> user[r], what |-> What(asked[r]), time |-> stamp[r]]),
         behind' = Append(behind, asked[r]),
         shortRows' = shortRows \cup (IF r \in short THEN {Len(rows')} ELSE {})
  PROVE  QueueWithin' /\ UserWithin' /\ MapWithin' /\ Announced'
<1> DEFINE x == Len(rows) + 1
<1>1. /\ TypeOK /\ pc[r] = "insert" /\ End(r)
      /\ UNCHANGED <<now, known, handed>>
  BY DEF IInv, Insert
<1>2. /\ DOMAIN rows' = DOMAIN rows \cup {x} /\ Len(rows') = x
      /\ \A i \in DOMAIN rows : rows'[i] = rows[i]
      /\ rows'[x].userid = user[r] /\ rows'[x].what = What(asked[r])
  BY <1>1 DEF TypeOK
<1>3. Active' \subseteq Active \cup {x}
  BY <1>1, <1>2 DEF Active
<1>4. NoneFurther /\ r \notin Past' /\ Counted' \subseteq Counted \cup {x}
  <2>1. pc'[r] = "idle"
    BY <1>1 DEF End, TypeOK
  <2> QED BY <1>1, <1>3, <2>1, EndIsNotFurther DEF Past, Counted
<1>5. ASSUME r \in short PROVE QueueWithin' /\ UserWithin'
  <2>1. Counted' \subseteq Counted
    BY <1>2, <1>4, <1>5 DEF Counted
  <2>2. Within(Counted', Past', QueueSize)
    BY <1>4, <2>1, Shrink, LimitsAssumption DEF IInv, QueueWithin, NoneFurther
  <2>3. ASSUME NEW u \in Users PROVE Within(CountedOf(u)', PastOf(u)', MaxPerUser)
    <3>1. CountedOf(u)' \subseteq CountedOf(u)
      BY <1>2, <2>1 DEF CountedOf, Counted, Active
    <3> QED BY <1>4, <3>1, Shrink, LimitsAssumption DEF IInv, UserWithin, NoneFurther
  <2> QED BY <2>2, <2>3 DEF QueueWithin, UserWithin, Within
<1>6. ASSUME r \notin short PROVE QueueWithin' /\ UserWithin'
  <2>1. r \in Past /\ Past' \subseteq Past \ {r}
    BY <1>1, <1>4, <1>6 DEF Past, NoneFurther
  <2>2. Within(Counted', Past', QueueSize)
    BY <1>4, <2>1, Move, LimitsAssumption DEF IInv, QueueWithin
  <2>3. ASSUME NEW u \in Users PROVE Within(CountedOf(u)', PastOf(u)', MaxPerUser)
    <3>1. CASE u = user[r]
      <4>1. CountedOf(u)' \subseteq CountedOf(u) \cup {x}
        BY <1>2, <1>4 DEF CountedOf, Counted, Active
      <4>2. r \in PastOf(u) /\ PastOf(u)' \subseteq PastOf(u) \ {r}
        BY <1>4, <2>1, <3>1 DEF PastOf, NoneFurther
      <4>3. Within(CountedOf(u), PastOf(u), MaxPerUser)
        BY DEF IInv, UserWithin
      <4>4. MaxPerUser \in Nat /\ CountedOf(u)' \in SUBSET (CountedOf(u) \cup {x}) /\ PastOf(u)' \in SUBSET (PastOf(u) \ {r})
        BY <4>1, <4>2, LimitsAssumption
      <4> HIDE DEF x
      <4> QED BY <4>2, <4>3, <4>4, Move
    <3>2. CASE u # user[r]
      <4>1. CountedOf(u)' \subseteq CountedOf(u)
        BY <1>2, <1>4, <3>2 DEF CountedOf, Counted, Active
      <4> QED BY <1>4, <4>1, Shrink, LimitsAssumption DEF IInv, UserWithin, NoneFurther
    <3> QED BY <3>1, <3>2
  <2> QED BY <2>2, <2>3 DEF QueueWithin, UserWithin, Within
<1>7. ASSUME NEW w \in Values PROVE Within(Duplicates(w)', Chosen(w)', 1)
  <2>0. pc'[r] = "idle"
    BY <1>1 DEF End, TypeOK
  <2>1. CASE w = What(asked[r])
    <3>1. Duplicates(w)' \subseteq Duplicates(w) \cup {x}
      BY <1>2, <1>3 DEF Duplicates, Active
    <3>2. r \in Chosen(w) /\ Chosen(w)' \subseteq Chosen(w) \ {r}
      BY <1>1, <1>4, <2>0, <2>1 DEF Chosen, NoneFurther
    <3>3. Within(Duplicates(w), Chosen(w), 1)
      BY DEF IInv, MapWithin
    <3>4. Duplicates(w)' \in SUBSET (Duplicates(w) \cup {x}) /\ Chosen(w)' \in SUBSET (Chosen(w) \ {r})
      BY <3>1, <3>2
    <3> HIDE DEF x
    <3> QED BY <3>2, <3>3, <3>4, Move
  <2>2. CASE w # What(asked[r])
    <3>1. Duplicates(w)' \subseteq Duplicates(w) /\ Chosen(w)' \subseteq Chosen(w)
      BY <1>1, <1>2, <1>3, <1>4, <2>2 DEF Duplicates, NoneFurther, Active
    <3> QED BY <3>1, Shrink DEF IInv, MapWithin
  <2> QED BY <2>1, <2>2
<1>8. MapWithin'
  BY <1>7 DEF MapWithin, Within, Values
<1>9. Announced'
  <2>1. ASSUME NEW i \in DOMAIN rows' PROVE Heard(behind[i])'
    <3>1. behind'[i] = IF i = x THEN asked[r] ELSE behind[i]
      BY <1>1, <1>2 DEF TypeOK
    <3>2. i \in DOMAIN rows => Heard(behind[i])
      BY DEF IInv, Announced
    <3>3. Heard(asked[r])
      BY <1>1 DEF IInv, Announced
    <3> QED BY <1>1, <1>2, <3>1, <3>2, <3>3 DEF Heard, Known, Matches
  <2>2. ASSUME NEW q \in Requests, pc'[q] \in {"duplicate", "stamp", "insert"} PROVE Heard(asked[q])'
    <3>1. pc'[q] = pc[q] /\ asked'[q] = asked[q]
      BY <1>1, <2>2 DEF End, TypeOK
    <3>2. Heard(asked[q])
      BY <2>2, <3>1 DEF IInv, Announced
    <3> QED BY <1>1, <3>1, <3>2 DEF Heard, Known, Matches
  <2> QED BY <2>1, <2>2 DEF Announced
<1> QED BY <1>5, <1>6, <1>8, <1>9

\* Every step preserves the invariant.
LEMMA NextInvariant == IInv /\ [Next]_vars => IInv'
<1> SUFFICES ASSUME IInv, [Next]_vars PROVE IInv'
  OBVIOUS
<1>0. TypeOK /\ TypeOK'
  BY TypeStep DEF IInv
<1>t. now \in Nat /\ now' \in Nat
  BY <1>0 DEF TypeOK
<1>e. ASSUME NEW r \in Requests, End(r), UNCHANGED <<now, rows, behind, shortRows, known>>, handed \subseteq handed'
      PROVE  IInv'
  BY <1>0, <1>t, <1>e, EndIsNotFurther, EndAnnounces, Quiet DEF IInv
<1>1. ASSUME NEW r \in Requests, Submit(r) PROVE IInv'
  <2>1. NoneFurther
    <3>1. Past' \subseteq Past
      BY <1>0, <1>1 DEF Submit, Past, TypeOK
    <3>2. \A u \in Users : PastOf(u)' \subseteq PastOf(u)
      BY <1>0, <1>1, <3>1 DEF Submit, Past, PastOf, TypeOK
    <3>3. \A w \in Values : Chosen(w)' \subseteq Chosen(w)
      BY <1>0, <1>1 DEF Submit, Chosen, TypeOK
    <3> QED BY <3>1, <3>2, <3>3 DEF NoneFurther
  <2>2. UNCHANGED <<rows, shortRows, behind, known, handed>> /\ now <= now'
    BY <1>1, <1>t DEF Submit, history
  <2>3. /\ \A q \in Requests \ {r} : pc'[q] = pc[q] /\ asked'[q] = asked[q]
        /\ pc'[r] = "status"
    BY <1>0, <1>1 DEF Submit, TypeOK
  <2> QED BY <1>0, <1>t, <2>1, <2>2, <2>3, Quiet, GoAnnounces DEF IInv
<1>2. ASSUME NEW r \in Requests, CheckStatus(r) PROVE IInv'
  <2>1. UNCHANGED <<rows, now, shortRows, behind, known, handed>> /\ now <= now' /\ pc[r] = "status"
    BY <1>2, <1>t DEF CheckStatus, history
  <2>2. CASE End(r)
    BY <2>1, <2>2, <1>e
  <2>3. CASE ~End(r)
    <3>1. PICK read \in SUBSET Listed :
            /\ CanSubmit(user[r], read)
            /\ short' = short \cup (IF read = Listed THEN {} ELSE {r})
            /\ pc' = [pc EXCEPT ![r] = "beatmap"]
            /\ UNCHANGED <<user, asked, stamp>>
      BY <1>2, <2>3 DEF CheckStatus
    <3>2. Announced'
      <4>1. /\ \A q \in Requests \ {r} : pc'[q] = pc[q] /\ asked'[q] = asked[q]
            /\ pc'[r] = "beatmap"
        BY <1>0, <3>1 DEF TypeOK
      <4> QED BY <2>1, <4>1, GoAnnounces
    <3>3. CASE read = Listed
      <4>1. UNCHANGED <<now, rows, shortRows, short, user, asked>>
        BY <2>1, <3>1, <3>3
      <4> QED BY <1>0, <2>1, <3>1, <3>2, <3>3, <4>1, CheckStep DEF IInv
    <3>4. CASE read # Listed
      <4>1. Past' \subseteq Past
        BY <1>0, <3>1, <3>4 DEF Past, TypeOK
      <4>2. \A u \in Users : PastOf(u)' \subseteq PastOf(u)
        BY <3>1, <4>1 DEF PastOf
      <4>3. \A w \in Values : Chosen(w)' \subseteq Chosen(w)
        BY <1>0, <3>1 DEF Chosen, TypeOK
      <4> QED BY <1>0, <1>t, <2>1, <3>2, <4>1, <4>2, <4>3, Quiet DEF IInv, NoneFurther
    <3> QED BY <3>3, <3>4
  <2> QED BY <2>2, <2>3
<1>g. ASSUME NEW r \in Requests, NEW l \in {"duplicate", "insert"}, pc[r] \in {"beatmap", "stamp"},
             pc[r] = "beatmap" <=> l = "duplicate",
             pc' = [pc EXCEPT ![r] = l],
             UNCHANGED <<now, rows, behind, shortRows, known, user, asked, short>>,
             handed \subseteq handed', Heard(asked[r])'
      PROVE  IInv'
  <2>1. NoneFurther
    <3>1. Past' \subseteq Past
      BY <1>0, <1>g DEF Past, TypeOK
    <3>2. \A u \in Users : PastOf(u)' \subseteq PastOf(u)
      BY <1>g, <3>1 DEF PastOf
    <3>3. \A w \in Values : Chosen(w)' \subseteq Chosen(w)
      BY <1>0, <1>g DEF Chosen, TypeOK
    <3> QED BY <3>1, <3>2, <3>3 DEF NoneFurther
  <2>2. \A q \in Requests \ {r} : pc'[q] = pc[q] /\ asked'[q] = asked[q]
    BY <1>0, <1>g DEF TypeOK
  <2> QED BY <1>0, <1>t, <1>g, <2>1, <2>2, Quiet, GoAnnounces DEF IInv
<1>3. ASSUME NEW r \in Requests, FindBeatmap(r) PROVE IInv'
  <2>1. /\ UNCHANGED <<rows, now, shortRows, behind, known>> /\ handed \subseteq handed' /\ pc[r] = "beatmap"
    BY <1>3 DEF FindBeatmap
  <2>2. CASE End(r)
    BY <2>1, <2>2, <1>e
  <2>3. CASE ~End(r)
    <3>1. Goto(r, "duplicate") /\ (Known(asked[r]) \/ asked[r] \in handed')
      BY <1>3, <2>3 DEF FindBeatmap
    <3>2. Heard(asked[r])'
      BY <2>1, <3>1 DEF Heard, Known, Matches, Goto, requestVars
    <3> QED BY <1>g, <2>1, <3>1, <3>2 DEF Goto, requestVars
  <2> QED BY <2>2, <2>3
<1>4. ASSUME NEW r \in Requests, FindDuplicate(r) PROVE IInv'
  <2>1. UNCHANGED <<rows, now, shortRows, behind, known, handed>> /\ pc[r] = "duplicate"
    BY <1>4 DEF FindDuplicate, history
  <2>2. CASE End(r)
    BY <2>1, <2>2, <1>e
  <2>3. CASE ~End(r)
    <3>1. Duplicates(What(asked[r])) = {} /\ Goto(r, "stamp")
      BY <1>4, <2>3 DEF FindDuplicate
    <3>2. QueueWithin' /\ UserWithin' /\ MapWithin'
      BY <1>0, <1>4, <3>1, DuplicateStep
    <3>3. \A q \in Requests \ {r} : pc'[q] = pc[q] /\ asked'[q] = asked[q]
      BY <1>0, <3>1 DEF Goto, requestVars, TypeOK
    <3>4. Heard(asked[r])'
      <4>1. Heard(asked[r]) /\ asked' = asked
        BY <2>1, <3>1 DEF IInv, Announced, Goto, requestVars
      <4> QED BY <2>1, <4>1 DEF Heard, Known, Matches
    <3> QED BY <1>0, <2>1, <3>2, <3>3, <3>4, GoAnnounces DEF IInv
  <2> QED BY <2>2, <2>3
<1>5. ASSUME NEW r \in Requests, Stamp(r) PROVE IInv'
  <2>1. /\ UNCHANGED <<now, rows, behind, shortRows, known, user, asked, short, handed>>
        /\ pc[r] = "stamp" /\ pc' = [pc EXCEPT ![r] = "insert"]
    BY <1>5 DEF Stamp, history
  <2>2. Heard(asked[r])
    BY <2>1 DEF IInv, Announced
  <2>3. Heard(asked[r])'
    BY <2>1, <2>2 DEF Heard, Known, Matches
  <2> QED BY <1>g, <2>1, <2>3
<1>6. ASSUME NEW r \in Requests, Insert(r) PROVE IInv'
  <2>1. CASE UNCHANGED <<rows, behind, shortRows>>
    BY <1>e, <1>6, <2>1 DEF Insert
  <2>2. CASE ~UNCHANGED <<rows, behind, shortRows>>
    BY <1>0, <1>6, <2>2, InsertStep DEF Insert, IInv
  <2> QED BY <2>1, <2>2
<1>7. ASSUME UNCHANGED <<rows, pc, user, asked, short, behind, shortRows, handed>>, now <= now', known \subseteq known'
      PROVE IInv'
  <2>1. NoneFurther
    BY <1>7 DEF NoneFurther, Past, PastOf, Chosen
  <2>2. PICK r \in Requests : TRUE
    BY RequestsAssumption
  <2>3. \A q \in Requests : pc'[q] \in {"duplicate", "stamp", "insert"} => Heard(asked[q])'
    <3>1. \A q \in Requests : pc'[q] \in {"duplicate", "stamp", "insert"} => Heard(asked[q])
      BY <1>7 DEF IInv, Announced
    <3> QED BY <1>7, <3>1 DEF Heard, Known, Matches
  <2> QED BY <1>0, <1>t, <1>7, <2>1, <2>2, <2>3, Quiet, GoAnnounces DEF IInv
<1>8. ASSUME NEW m \in Maps, Fetch(m) PROVE IInv'
  BY <1>7, <1>8, <1>t DEF Fetch, requestVars, history
<1>9. CASE Tick
  BY <1>7, <1>9, <1>t DEF Tick, requestVars, history
<1>10. CASE UNCHANGED vars
  BY <1>7, <1>10, <1>t DEF vars, requestVars, history
<1> QED BY <1>1, <1>2, <1>3, <1>4, <1>5, <1>6, <1>8, <1>9, <1>10 DEF Next, submission

\* The inductive invariant holds in every state of every behaviour.
THEOREM Invariance == Spec => []IInv
<1> QED BY InitInvariant, NextInvariant, PTL DEF Spec

-----------------------------------------------------------------------------
(* What follows from it.                                                     *)

LEMMA WithinBounds ==
  ASSUME NEW A, NEW P, NEW k \in Nat, Within(A, P, k)
  PROVE  Cardinality(A) <= k + Cardinality(Requests) - 1
<1>1. Cardinality(A) \in Nat /\ Cardinality(P) \in Nat /\ Cardinality(Requests) \in Nat
  BY FS_CardinalityType, RequestsAssumption DEF Within
<1> QED BY <1>1 DEF Within

\* What the queue holds of submissions counted against every row of it is over
\* its size by the requests that run side by side, less one: a bound that no user
\* and no failure of a statement gets past, and only unread rows take more in.
THEOREM QueueIsBounded == Spec => []QueueBound
<1>1. IInv => QueueBound
  BY WithinBounds, LimitsAssumption DEF IInv, QueueWithin, QueueBound
<1> QED BY <1>1, Invariance, PTL

\* Of such rows, a user is over the limit of a user by no more than that.
THEOREM UserIsBounded == Spec => []UserBound
<1>1. IInv => UserBound
  <2> SUFFICES ASSUME IInv, NEW u \in Users
               PROVE  Cardinality(CountedOf(u)) <= MaxPerUser + Cardinality(Requests) - 1
    BY DEF UserBound, CountedOf
  <2> QED BY WithinBounds, LimitsAssumption DEF IInv, UserWithin
<1> QED BY <1>1, Invariance, PTL

\* A map or set is in the queue once for each request that runs side by side, at
\* most, however many rows the statuses could not read.
THEOREM DuplicatesAreBounded == Spec => []DuplicateBound
<1>1. IInv => DuplicateBound
  <2> SUFFICES ASSUME IInv, NEW w \in Values
               PROVE  Cardinality(Duplicates(w)) <= Cardinality(Requests)
    BY DEF DuplicateBound, Values
  <2>1. Within(Duplicates(w), Chosen(w), 1)
    BY DEF IInv, MapWithin
  <2> QED BY <2>1, WithinBounds, FS_CardinalityType, RequestsAssumption
<1> QED BY <1>1, Invariance, PTL

\* Every row is of a submission whose map or set is known, or whose body was
\* handed to Publish.
THEOREM QueuedAreFetched == Spec => []QueuedIsFetched
<1>1. IInv => QueuedIsFetched
  BY DEF IInv, Announced, Heard, QueuedIsFetched
<1> QED BY <1>1, Invariance, PTL

\* The rows, the requests and the times in their INSERTs have their types.
THEOREM TypeCorrect == Spec => []TypeOK
BY Invariance, PTL DEF IInv
=============================================================================
