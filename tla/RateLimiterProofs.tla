------------------------- MODULE RateLimiterProofs -------------------------
(* What the limiter promises whatever the number of requesters, the number of
   channels they may make and the rate.                                     *)
EXTENDS RateLimiter, TLAPS

\* A requester that stored a channel still finds it in the map, open, and is
\* the only one to be in that place; no filler runs before it is served.
CreatorFirst ==
  /\ \A p \in Requesters : pc[p] = "take" => c[p] = Map /\ Map # NoChan
  /\ \A p, q \in Requesters : pc[p] = "take" /\ pc[q] = "take" => p = q
  /\ \A p \in Requesters : pc[p] = "take" => \A f \in Chans : filler[f] \notin FillerLive

\* A requester in rcv holds a channel, not nil.
HoldsChan == \A p \in Requesters : pc[p] = "rcv" => c[p] # NoChan

\* The inductive invariant: NoPanic alone is not inductive, because a filler
\* that closes a channel is safe only as the single one that refers to it.
IInv ==
  /\ TypeOK
  /\ NoPanic
  /\ OneFiller
  /\ MapHasFeeder
  /\ CreatorFirst
  /\ HoldsChan

\* The initial state satisfies the inductive invariant: no key, no goroutine.
LEMMA InitIInv == Init => IInv
<1> SUFFICES ASSUME Init PROVE IInv
  OBVIOUS
<1>1. TypeOK
  <2>1. tokens \in [Chans -> 0..PerMinute]
    BY PerMinuteAssumption DEF Init
  <2>2. closed \in [Chans -> BOOLEAN] /\ blocking \in [Requesters -> BOOLEAN] /\ wedged \in BOOLEAN
    BY DEF Init
  <2>3. /\ Map \in Chans \cup {NoChan}
        /\ pc \in [Requesters -> {"idle", "make", "take", "rcv"}]
        /\ c \in [Requesters -> Chans \cup {NoChan}]
        /\ filler \in [Chans -> FillerLive \cup {"none", "done", "panicked"}]
        /\ fc \in [Chans -> Chans \cup {NoChan}]
    BY DEF Init
  <2> QED BY <2>1, <2>2, <2>3 DEF TypeOK
<1>2. NoPanic /\ OneFiller /\ MapHasFeeder
  BY NoChanAssumption DEF Init, NoPanic, OneFiller, MapHasFeeder, FillerLive
<1>3. CreatorFirst /\ HoldsChan
  BY DEF Init, CreatorFirst, HoldsChan
<1> QED BY <1>1, <1>2, <1>3 DEF IInv

\* Every step of a requester preserves the inductive invariant.
LEMMA RequestIInv ==
  ASSUME IInv, NEW p \in Requesters, request(p)
  PROVE  IInv'
<1> USE PerMinuteAssumption, NoChanAssumption DEF FillerLive, requestVars, fillerVars, CanReceive, Receive, Return
<1>1. CASE Request(p)
  BY <1>1 DEF Request, IInv, TypeOK, NoPanic, OneFiller, MapHasFeeder, CreatorFirst, HoldsChan
<1>2. CASE LoseRace(p)
  BY <1>2 DEF LoseRace, IInv, TypeOK, NoPanic, OneFiller, MapHasFeeder, CreatorFirst, HoldsChan
<1>3. CASE StoreChan(p)
  <2>1. PICK ch \in Chans : makePrefilledChan(ch) /\ Map' = ch /\ c' = [c EXCEPT ![p] = ch]
    BY <1>3 DEF StoreChan
  <2>2. \A f \in Chans : filler[f] \notin FillerLive
    BY <1>3 DEF StoreChan, IInv, OneFiller
  <2>3. TypeOK'
    BY <1>3, <2>1 DEF StoreChan, makePrefilledChan, IInv, TypeOK
  <2>4. NoPanic'
    BY <1>3, <2>1 DEF StoreChan, makePrefilledChan, IInv, TypeOK, NoPanic
  <2>5. OneFiller'
    BY <1>3, <2>1, <2>2 DEF StoreChan, makePrefilledChan, IInv, TypeOK, OneFiller
  <2>6. MapHasFeeder'
    BY <1>3, <2>1 DEF StoreChan, makePrefilledChan, IInv, TypeOK, MapHasFeeder
  <2>7. CreatorFirst'
    BY <1>3, <2>1, <2>2 DEF StoreChan, makePrefilledChan, IInv, TypeOK, CreatorFirst
  <2>8. HoldsChan'
    BY <1>3, <2>1 DEF StoreChan, IInv, TypeOK, HoldsChan
  <2> QED BY <2>3, <2>4, <2>5, <2>6, <2>7, <2>8 DEF IInv
<1>4. CASE TakeFirst(p)
  <2>1. c[p] = Map /\ Map \in Chans /\ \A f \in Chans : filler[f] \notin FillerLive
    BY <1>4 DEF TakeFirst, IInv, TypeOK, CreatorFirst
  <2>2. TypeOK'
    BY <1>4, <2>1 DEF TakeFirst, IInv, TypeOK
  <2>3. NoPanic' /\ OneFiller'
    BY <1>4, <2>1 DEF TakeFirst, IInv, TypeOK, NoPanic, OneFiller
  <2>4. \A q \in Requesters : pc'[q] # "take"
    BY <1>4 DEF TakeFirst, IInv, TypeOK, CreatorFirst
  <2>5. MapHasFeeder' /\ CreatorFirst'
    BY <1>4, <2>1, <2>4 DEF TakeFirst, IInv, TypeOK, MapHasFeeder, CreatorFirst
  <2>6. HoldsChan'
    BY <1>4 DEF TakeFirst, IInv, TypeOK, HoldsChan
  <2> QED BY <2>2, <2>3, <2>5, <2>6 DEF IInv
<1>5. CASE Granted(p)
  <2>1. c[p] \in Chans
    BY <1>5 DEF Granted, IInv, TypeOK, HoldsChan
  <2> QED
    BY <1>5, <2>1 DEF Granted, IInv, TypeOK, NoPanic, OneFiller, MapHasFeeder, CreatorFirst, HoldsChan
<1>6. CASE Refused(p)
  BY <1>6 DEF Refused, IInv, TypeOK, NoPanic, OneFiller, MapHasFeeder, CreatorFirst, HoldsChan
<1> QED BY <1>1, <1>2, <1>3, <1>4, <1>5, <1>6 DEF request

\* Every step of a filler preserves the inductive invariant.
LEMMA FillerIInv ==
  ASSUME IInv, NEW f \in Chans, fill(f)
  PROVE  IInv'
<1> USE PerMinuteAssumption, NoChanAssumption DEF FillerLive, requestVars, Open
<1>1. filler[f] \in FillerLive /\ f = Map /\ ~closed[Map]
  BY DEF fill, FillerLookup, FillerSend, FillerWake, FillerFull, FillerClose, IInv, OneFiller
<1>2. filler[f] # "start" => fc[f] = Map
  BY <1>1 DEF IInv, OneFiller
<1>3. \A p \in Requesters : pc[p] # "take"
  BY <1>1 DEF IInv, CreatorFirst
<1>4. CASE FillerLookup(f)
  BY <1>1, <1>3, <1>4
  DEF FillerLookup, IInv, TypeOK, NoPanic, OneFiller, MapHasFeeder, CreatorFirst, HoldsChan
<1>5. CASE FillerSend(f)
  BY <1>1, <1>2, <1>3, <1>5
  DEF FillerSend, IInv, TypeOK, NoPanic, OneFiller, MapHasFeeder, CreatorFirst, HoldsChan
<1>6. CASE FillerWake(f)
  BY <1>1, <1>2, <1>3, <1>6
  DEF FillerWake, IInv, TypeOK, NoPanic, OneFiller, MapHasFeeder, CreatorFirst, HoldsChan
<1>7. CASE FillerFull(f)
  BY <1>1, <1>2, <1>3, <1>7
  DEF FillerFull, IInv, TypeOK, NoPanic, OneFiller, MapHasFeeder, CreatorFirst, HoldsChan
<1>8. CASE FillerClose(f)
  BY <1>1, <1>2, <1>3, <1>8
  DEF FillerClose, IInv, TypeOK, NoPanic, OneFiller, MapHasFeeder, CreatorFirst, HoldsChan
<1> QED BY <1>4, <1>5, <1>6, <1>7, <1>8 DEF fill

\* Every step of the limiter preserves the inductive invariant.
LEMMA StepIInv ==
  ASSUME IInv, [Next]_vars
  PROVE  IInv'
<1>1. CASE \E p \in Requesters : request(p)
  BY <1>1, RequestIInv
<1>2. CASE \E f \in Chans : fill(f)
  BY <1>2, FillerIInv
<1>3. CASE UNCHANGED vars
  BY <1>3 DEF vars, IInv, TypeOK, NoPanic, OneFiller, MapHasFeeder, CreatorFirst, HoldsChan
<1> QED BY <1>1, <1>2, <1>3 DEF Next

\* The inductive invariant holds in every reachable state.
THEOREM Invariance == Spec => []IInv
<1>1. IInv /\ [Next]_vars => IInv'
  BY StepIInv
<1> QED BY InitIInv, <1>1, PTL DEF Spec

\* The state of the limiter has its type: no buffer holds more than PerMinute
\* tokens whatever the requesters and the filler do.
THEOREM TypeCorrect == Spec => []TypeOK
BY Invariance, PTL DEF IInv

\* The filler never sends on or closes a channel that is closed or missing.
THEOREM NeverPanics == Spec => []NoPanic
BY Invariance, PTL DEF IInv

\* One filler, on the channel of the map, which is open.
THEOREM SingleFiller == Spec => []OneFiller
BY Invariance, PTL DEF IInv

\* A key in the map has a filler, or a creator that will start it.
THEOREM KeyIsFed == Spec => []MapHasFeeder
BY Invariance, PTL DEF IInv

\* A stored channel is removed, never replaced by another one.
THEOREM NeverReplaced == Spec => NeverOverwritten
<1>1. [Next]_vars => [Map # NoChan => Map' \in {Map, NoChan}]_vars
  BY DEF Next, vars, request, fill, Request, LoseRace, StoreChan, TakeFirst, Granted,
     Refused, FillerLookup, FillerSend, FillerWake, FillerFull, FillerClose
<1> QED BY <1>1, PTL DEF Spec, NeverOverwritten
=============================================================================
